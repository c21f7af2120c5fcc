----------------------- MODULE BalloonNumberingProofs -----------------------
(***************************************************************************)
(* For any drawing, numbered through or page by page, with gaps or         *)
(* without, and any number of balloons and pages: the changes that         *)
(* renumber keep the numbers of a page distinct, families whole, children  *)
(* with their parents, and what is numbered 1, 2, ... numbered so.  Most   *)
(* of it says that a change gives other numbers to the same balloons       *)
(* (Renames); closing gaps, renumbering and shifting are folds over finite *)
(* sets, of which the first section says what a step that keeps something  *)
(* makes of the whole (FoldStays).                                         *)
(***************************************************************************)
EXTENDS BalloonNumbering, FiniteSetTheorems, WellFoundedInduction, TLAPS

\* The sheet as it is now.
DistinctNow == Distinct(sheet)
WholeNow == Whole(sheet)

(* Finite sets of numbers. *)

\* A finite set of integers that is not empty has a greatest member.
LEMMA GreatestExists ==
    ASSUME NEW S \in SUBSET Int, IsFiniteSet(S), S # {}
    PROVE  \E m \in S : \A k \in S : m >= k
<1> DEFINE Bad == {T \in FiniteSubsetsOf(S) : T # {} /\ ~ \E m \in T : \A k \in T : m >= k}
<1>1. SUFFICES ASSUME Bad # {} PROVE FALSE
  BY DEF FiniteSubsetsOf
<1>2. PICK T \in Bad : \A U \in Bad : <<U, T>> \notin StrictSubsetOrdering(S)
  <2>1. IsWellFoundedOn(StrictSubsetOrdering(S), FiniteSubsetsOf(S))
    BY FS_StrictSubsetOrderingWellFounded
  <2>2. Bad \subseteq FiniteSubsetsOf(S)
    OBVIOUS
  <2> HIDE DEF Bad
  <2> QED
    BY <1>1, <2>1, <2>2, WFMin
<1>3. /\ T \subseteq S /\ IsFiniteSet(T) /\ T # {}
      /\ ~ \E m \in T : \A k \in T : m >= k
  BY DEF FiniteSubsetsOf
<1>4. PICK x \in T : TRUE
  BY <1>3
<1> DEFINE U == T \ {x}
<1>5. U \subseteq S /\ IsFiniteSet(U) /\ <<U, T>> \in StrictSubsetOrdering(S)
  BY <1>3, <1>4, FS_Subset DEF StrictSubsetOrdering
<1>6. U \notin Bad
  BY <1>2, <1>5
<1>7. CASE U = {}
  <2>1. T = {x} /\ x \in Int
    BY <1>3, <1>4, <1>7
  <2> QED
    BY <1>3, <2>1
<1>8. CASE U # {}
  <2>1. PICK m \in U : \A k \in U : m >= k
    BY <1>5, <1>6, <1>8 DEF FiniteSubsetsOf
  <2>2. m \in Int /\ x \in Int /\ m \in T /\ T \subseteq Int
    BY <1>3, <2>1
  <2>3. CASE m >= x
    BY <1>3, <2>1, <2>2, <2>3
  <2>4. CASE x >= m
    <3>1. \A k \in T : x >= k
      BY <2>1, <2>2, <2>4
    <3> QED
      BY <1>3, <3>1
  <2> QED
    BY <2>2, <2>3, <2>4
<1> QED
  BY <1>7, <1>8

LEMMA MaxIs ==
    ASSUME NEW S \in SUBSET Int, IsFiniteSet(S), S # {}
    PROVE  Max(S) \in S /\ \A k \in S : Max(S) >= k
BY GreatestExists DEF Max

\* The number asked for, pulled into 1..last, is a number from 1.
LEMMA ClampIs ==
    ASSUME NEW target \in Int, NEW last \in Int
    PROVE  Clamp(target, last) \in Nat \ {0} /\ (last >= 1 => Clamp(target, last) <= last)
<1>1. Min({last, target}) \in Int /\ Min({last, target}) <= last
  <2>1. \E x \in {last, target} : \A y \in {last, target} : x <= y
    OBVIOUS
  <2>2. /\ Min({last, target}) \in {last, target}
        /\ \A y \in {last, target} : Min({last, target}) <= y
    BY <2>1 DEF Min
  <2> QED
    BY <2>2
<1> DEFINE m == Min({last, target})
<1>2. \E x \in {1, m} : \A y \in {1, m} : x >= y
  BY <1>1
<1> HIDE DEF m
<1>3. Max({1, m}) \in {1, m} /\ Max({1, m}) >= 1
  BY <1>1, <1>2 DEF Max, m
<1> QED
  BY <1>1, <1>3 DEF Clamp, m

\* The least of some numbers, and so induction over the size of a set: what
\* holds of the empty set, and of each set if it holds of the smaller ones.
LEMMA GreatestSize ==
    ASSUME NEW N \in Nat, NEW G \in SUBSET (0..N), 0 \in G,
           \A n \in G : n < N => n + 1 \in G
    PROVE  N \in G
<1>1. IsFiniteSet(G)
  <2>1. IsFiniteSet(0..N)
    BY FS_Interval
  <2> QED
    BY <2>1, FS_Subset
<1>2. G \in SUBSET Int /\ G # {}
  OBVIOUS
<1>3. PICK m \in G : \A k \in G : m >= k
  BY <1>1, <1>2, GreatestExists
<1>4. m \in 0..N
  OBVIOUS
<1>5. ~(m < N)
  BY <1>3, <1>4
<1> QED
  BY <1>4, <1>5
-----------------------------------------------------------------------------
(* Folding a finite set.  The step of a fold and the order in which it     *)
(* picks the members are functions here.                                   *)

\* What picks a member of every set that has one.
Picks(pick, S) == \A T \in SUBSET S : T # {} => pick[T] \in T

\* The sizes of the subsets of a finite set.
Measures(size, S, N) ==
    /\ \A T \in SUBSET S : size[T] \in Nat /\ size[T] <= N /\ (size[T] <= 0 => T = {})
    /\ size[{}] = 0
    /\ \A T \in SUBSET S : \A x \in T : size[T \ {x}] = size[T] - 1

LEMMA Sizes ==
    ASSUME NEW S, IsFiniteSet(S)
    PROVE  \E N \in Nat : \E size : Measures(size, S, N)
<1> DEFINE N == Cardinality(S)
           size == [T \in SUBSET S |-> Cardinality(T)]
<1>1. N \in Nat
  BY FS_CardinalityType
<1>2. ASSUME NEW T \in SUBSET S
      PROVE  /\ Cardinality(T) \in 0..N
             /\ Cardinality(T) = 0 <=> T = {}
             /\ \A x \in T : Cardinality(T \ {x}) = Cardinality(T) - 1
  <2>1. IsFiniteSet(T) /\ Cardinality(T) <= N
    BY FS_Subset
  <2>2. Cardinality(T) \in Nat
    BY <2>1, FS_CardinalityType
  <2>3. Cardinality(T) = 0 <=> T = {}
    BY <2>1, FS_EmptySet
  <2>4. \A x \in T : Cardinality(T \ {x}) = Cardinality(T) - 1
    BY <2>1, FS_RemoveElement
  <2> HIDE DEF N
  <2> QED
    BY <1>1, <2>1, <2>2, <2>3, <2>4
<1>3. \A T \in SUBSET S : size[T] \in Nat /\ size[T] <= N /\ (size[T] <= 0 => T = {})
  BY <1>1, <1>2
<1>4. size[{}] = 0
  BY <1>2
<1>5. \A T \in SUBSET S : \A x \in T : size[T \ {x}] = size[T] - 1
  BY <1>2
<1> HIDE DEF size, N
<1>6. Measures(size, S, N)
  BY <1>3, <1>4, <1>5 DEF Measures
<1> QED
  BY <1>1, <1>6

\* What folds every subset.
FoldsAll(g, S, base, step, pick) ==
    \A T \in SUBSET S :
        g[T] = IF T = {} THEN base ELSE step[<<pick[T], g[T \ {pick[T]}]>>]

\* There is such a function.
LEMMA FoldExists ==
    ASSUME NEW S, IsFiniteSet(S), NEW A, NEW base \in A, NEW step \in [S \X A -> A],
           NEW pick, Picks(pick, S)
    PROVE  \E g \in [SUBSET S -> A] : FoldsAll(g, S, base, step, pick)
<1>1. PICK N \in Nat : \E size : Measures(size, S, N)
  BY Sizes
<1>2. PICK size : Measures(size, S, N)
  BY <1>1
<1>m. /\ \A T \in SUBSET S : size[T] \in Nat /\ size[T] <= N /\ (size[T] <= 0 => T = {})
      /\ size[{}] = 0
      /\ \A T \in SUBSET S : \A x \in T : size[T \ {x}] = size[T] - 1
  BY <1>2 DEF Measures
<1> DEFINE Folds(g, T) == g[T] = IF T = {} THEN base ELSE step[<<pick[T], g[T \ {pick[T]}]>>]
           UpTo(g, n) == \A T \in SUBSET S : size[T] <= n => Folds(g, T)
           G == {n \in 0..N : \E g \in [SUBSET S -> A] : UpTo(g, n)}
<1>3. 0 \in G
  <2> DEFINE g == [T \in SUBSET S |-> base]
  <2>1. g \in [SUBSET S -> A]
    BY <1>1
  <2>2. \A T \in SUBSET S : size[T] <= 0 => T = {}
    BY <1>1, <1>m
  <2>3. UpTo(g, 0)
    BY <1>1, <2>2
  <2> HIDE DEF g, UpTo
  <2> QED
    BY <1>1, <2>1, <2>3
<1>g. \A n \in G : n \in Nat /\ n <= N
  BY <1>1
<1>4. ASSUME NEW n \in G, n < N
      PROVE  n + 1 \in G
  <2>1. PICK g \in [SUBSET S -> A] : UpTo(g, n)
    BY <1>1
  <2> DEFINE h == [T \in SUBSET S |-> IF size[T] <= n THEN g[T]
                                      ELSE step[<<pick[T], g[T \ {pick[T]}]>>]]
  <2>2. n \in Nat /\ n + 1 \in 0..N
    <3> HIDE DEF G
    <3> QED
      BY <1>1, <1>4, <1>g
  <2>3. ASSUME NEW T \in SUBSET S, T # {}
        PROVE  /\ pick[T] \in S /\ T \ {pick[T]} \in SUBSET S
               /\ size[T \ {pick[T]}] = size[T] - 1
    BY <1>1, <1>m, <2>3 DEF Picks
  <2>4. size[{}] <= n
    BY <1>m, <2>2
  <2>5. h \in [SUBSET S -> A]
    <3> SUFFICES ASSUME NEW T \in SUBSET S, ~(size[T] <= n)
                 PROVE  step[<<pick[T], g[T \ {pick[T]}]>>] \in A
      BY <1>1
    <3>1. pick[T] \in S /\ g[T \ {pick[T]}] \in A
      BY <1>1, <2>3, <2>4
    <3> QED
      BY <1>1, <3>1
  <2>6. UpTo(h, n + 1)
    <3> SUFFICES ASSUME NEW T \in SUBSET S, size[T] <= n + 1
                 PROVE  Folds(h, T)
      BY <1>1
    <3>1. CASE T = {}
      <4>1. size[T] <= n
        BY <1>1, <1>m, <2>2, <3>1
      <4> QED
        BY <1>1, <2>1, <3>1, <4>1
    <3>2. CASE T # {}
      <4> DEFINE U == T \ {pick[T]}
      <4>1. U \in SUBSET S /\ size[U] = size[T] - 1
        BY <1>1, <2>3, <3>2
      <4>2. size[U] <= n
        <5> HIDE DEF U
        <5> QED
          BY <1>1, <1>m, <2>2, <4>1
      <4>3. h[U] = g[U]
        BY <1>1, <4>1, <4>2
      <4>4. h[T] = step[<<pick[T], g[U]>>]
        <5>1. CASE size[T] <= n
          BY <1>1, <2>1, <3>2, <5>1
        <5>2. CASE ~(size[T] <= n)
          BY <1>1, <5>2
        <5> QED
          BY <1>1, <5>1, <5>2
      <4> QED
        BY <1>1, <3>2, <4>3, <4>4
    <3> QED
      BY <1>1, <3>1, <3>2
  <2> HIDE DEF h, UpTo
  <2> QED
    BY <1>1, <2>2, <2>5, <2>6
<1>5. N \in G
  <2>1. G \in SUBSET (0..N)
    BY <1>1
  <2> HIDE DEF G
  <2> QED
    BY <1>1, <1>3, <1>4, <2>1, GreatestSize
<1>6. PICK g \in [SUBSET S -> A] : UpTo(g, N)
  BY <1>1, <1>5
<1>7. \A T \in SUBSET S : Folds(g, T)
  BY <1>m, <1>6
<1> QED
  BY <1>7 DEF FoldsAll

\* Each step carries over what may be said, I[T], once the members of T are
\* folded.
Carries(I, S, step, pick) ==
    \A T \in SUBSET S : T # {} =>
        \A a \in I[T \ {pick[T]}] : step[<<pick[T], a>>] \in I[T]

\* What goes by the step as long as the step is defined.
Follows(it, S, A, step, pick) ==
    \A T \in SUBSET S : T # {} /\ it[T \ {pick[T]}] \in A =>
        it[T] = step[<<pick[T], it[T \ {pick[T]}]>>]

\* What each step carries over holds of the whole.
LEMMA FoldStays ==
    ASSUME NEW S, IsFiniteSet(S), NEW A, NEW step \in [S \X A -> A],
           NEW pick, Picks(pick, S),
           NEW I \in [SUBSET S -> SUBSET A], Carries(I, S, step, pick),
           NEW it, it[{}] \in I[{}], Follows(it, S, A, step, pick)
    PROVE  \A T \in SUBSET S : it[T] \in I[T]
<1>1. PICK N \in Nat : \E size : Measures(size, S, N)
  BY Sizes
<1>2. PICK size : Measures(size, S, N)
  BY <1>1
<1>m. /\ \A T \in SUBSET S : size[T] \in Nat /\ size[T] <= N /\ (size[T] <= 0 => T = {})
      /\ size[{}] = 0
      /\ \A T \in SUBSET S : \A x \in T : size[T \ {x}] = size[T] - 1
  BY <1>2 DEF Measures
<1> DEFINE UpTo(n) == \A T \in SUBSET S : size[T] <= n => it[T] \in I[T]
           G == {n \in 0..N : UpTo(n)}
<1>3. 0 \in G
  <2>1. UpTo(0)
    BY <1>m
  <2> HIDE DEF UpTo
  <2> QED
    BY <1>1, <2>1
<1>g. \A n \in G : n \in Nat /\ n <= N
  BY <1>1
<1>4. ASSUME NEW n \in G, n < N
      PROVE  n + 1 \in G
  <2>1. n \in Nat /\ n + 1 \in 0..N
    BY <1>1, <1>4, <1>g
  <2>2. UpTo(n + 1)
    <3> SUFFICES ASSUME NEW T \in SUBSET S, size[T] <= n + 1
                 PROVE  it[T] \in I[T]
      BY <1>1
    <3>1. CASE T = {}
      BY <1>1, <3>1
    <3>2. CASE T # {}
      <4> DEFINE U == T \ {pick[T]}
      <4>1. pick[T] \in T
        BY <1>1, <3>2 DEF Picks
      <4>2. U \in SUBSET S /\ size[U] = size[T] - 1
        BY <1>1, <1>m, <4>1
      <4>3. size[U] <= n
        <5> HIDE DEF U
        <5> QED
          BY <1>1, <1>m, <2>1, <4>2
      <4>4. it[U] \in I[U]
        BY <1>1, <4>2, <4>3
      <4>5. it[U] \in A
        BY <1>1, <4>2, <4>4
      <4> QED
        BY <3>2, <4>4, <4>5 DEF Carries, Follows
    <3> QED
      BY <1>1, <3>1, <3>2
  <2> QED
    BY <1>1, <2>1, <2>2
<1>5. N \in G
  <2>1. G \in SUBSET (0..N)
    BY <1>1
  <2> HIDE DEF G
  <2> QED
    BY <1>1, <1>3, <1>4, <2>1, GreatestSize
<1> QED
  BY <1>m, <1>5
-----------------------------------------------------------------------------
(* Sheets. *)

\* What a sheet is made of.
LEMMA SheetIs ==
    ASSUME TypeOK
    PROVE  /\ DOMAIN sheet \subseteq 1..drawn /\ IsFiniteSet(DOMAIN sheet)
           /\ drawn \in Nat /\ drawn <= MaxBalloons
           /\ \A i \in DOMAIN sheet :
                 /\ sheet[i] \in Balloon
                 /\ sheet[i].page \in Pages /\ sheet[i].number \in Nat \ {0}
                 /\ sheet[i].sub \in Nat /\ sheet[i].category \in Categories
<1>1. DOMAIN sheet \subseteq 1..drawn /\ drawn \in Nat /\ drawn <= MaxBalloons
  BY NumberingAssumption DEF TypeOK, IsSheet
<1>2. IsFiniteSet(DOMAIN sheet)
  BY <1>1, FS_Interval, FS_Subset
<1> QED
  BY <1>1, <1>2 DEF TypeOK, IsSheet, Balloon

\* The numbers of some balloons are a finite set.
LEMMA NumbersFinite ==
    ASSUME TypeOK, NEW ids \in SUBSET DOMAIN sheet
    PROVE  /\ {sheet[i].number : i \in ids} \subseteq Nat \ {0}
           /\ IsFiniteSet({sheet[i].number : i \in ids})
<1>1. IsFiniteSet(ids)
  BY SheetIs, FS_Subset
<1> DEFINE f == [i \in ids |-> sheet[i].number]
           S == {sheet[i].number : i \in ids}
<1>2. f \in Surjection(ids, S)
  BY DEF Surjection
<1>3. IsFiniteSet(S)
  BY <1>1, <1>2, FS_Surjection
<1> QED
  BY <1>3, SheetIs

\* One more than the greatest of some numbers, or 1 if there is none.
LEMMA OneAbove ==
    ASSUME NEW N \in SUBSET Nat, IsFiniteSet(N)
    PROVE  /\ Max({0} \cup N) + 1 \in Nat \ {0}
           /\ \A k \in N : k < Max({0} \cup N) + 1
<1> DEFINE S == {0} \cup N
<1>1. IsFiniteSet({0})
  BY FS_Singleton
<1>2. /\ IsFiniteSet(S)
      /\ S \subseteq Int /\ S # {}
  <2>1. IsFiniteSet(S)
    BY <1>1, FS_Union, Zenon
  <2> QED
    BY <2>1
<1>3. \A k \in S : k \in Nat
  OBVIOUS
<1> HIDE DEF S
<1>4. Max(S) \in S /\ \A k \in S : Max(S) >= k
  BY <1>2, MaxIs
<1>5. Max(S) \in Nat
  BY <1>3, <1>4
<1>6. \A k \in S : k < Max(S) + 1
  BY <1>3, <1>4, <1>5
<1> QED
  BY <1>5, <1>6 DEF S

\* The next number is above all others.
LEMMA NextNumberIs ==
    ASSUME TypeOK
    PROVE  /\ NextNumber(sheet) \in Nat \ {0}
           /\ \A i \in DOMAIN sheet : sheet[i].number < NextNumber(sheet)
<1> DEFINE N == {sheet[i].number : i \in DOMAIN sheet}
<1>1. N \subseteq Nat /\ IsFiniteSet(N)
  BY NumbersFinite
<1>2. NextNumber(sheet) = Max({0} \cup N) + 1
  BY DEF NextNumber
<1>3. \A i \in DOMAIN sheet : sheet[i].number \in N
  OBVIOUS
<1> HIDE DEF N
<1> QED
  BY <1>1, <1>2, <1>3, OneAbove

\* A renaming of numbers that is one to one on each page changes neither the
\* distinctness of the numbers nor any family.
Renames(s, t) ==
    /\ DOMAIN t = DOMAIN s
    /\ \A k \in DOMAIN s : t[k].page = s[k].page /\ t[k].sub = s[k].sub
    /\ \A k, l \in DOMAIN s : s[k].page = s[l].page
          => (t[k].number = t[l].number <=> s[k].number = s[l].number)

LEMMA Renamed ==
    ASSUME NEW s, NEW t, Renames(s, t)
    PROVE  /\ Distinct(s) => Distinct(t)
           /\ Whole(s) => Whole(t)
           /\ \A k \in DOMAIN s : Parents(t, k) = Parents(s, k)
<1>0. /\ DOMAIN t = DOMAIN s
      /\ \A k \in DOMAIN s : t[k].page = s[k].page /\ t[k].sub = s[k].sub
      /\ \A k, l \in DOMAIN s : s[k].page = s[l].page
            => (t[k].number = t[l].number <=> s[k].number = s[l].number)
  BY DEF Renames
<1>1. Tops(t) = Tops(s) /\ Subs(t) = Subs(s)
  BY <1>0 DEF Tops, Subs
<1>2. Tops(s) \subseteq DOMAIN s /\ Subs(s) \subseteq DOMAIN s
  BY DEF Tops, Subs
<1>3. Distinct(s) => Distinct(t)
  BY <1>0, <1>1, <1>2 DEF Distinct
<1>4. \A k \in DOMAIN s : Parents(t, k) = Parents(s, k)
  BY <1>0, <1>1, <1>2 DEF Parents
<1>5. \A p \in Tops(s) : Children(t, t[p].number, SamePage(t, p))
                         = Children(s, s[p].number, SamePage(s, p))
  BY <1>0, <1>1, <1>2 DEF Children, SamePage
<1>6. \A p \in Tops(s) : Children(s, s[p].number, SamePage(s, p)) \subseteq DOMAIN s
  BY <1>2 DEF Children
<1>7. ASSUME Whole(s) PROVE Whole(t)
  <2>1. \A i \in Subs(t) : Parents(t, i) # {}
    BY <1>1, <1>2, <1>4, <1>7 DEF Whole
  <2>2. ASSUME NEW p \in Tops(t)
        PROVE  LET family == Children(t, t[p].number, SamePage(t, p))
               IN  {t[i].sub : i \in family} = 1..Cardinality(family)
    <3> DEFINE family == Children(s, s[p].number, SamePage(s, p))
    <3>1. {s[i].sub : i \in family} = 1..Cardinality(family)
      BY <1>1, <1>7, <2>2 DEF Whole
    <3>2. \A i \in family : t[i].sub = s[i].sub
      BY <1>0, <1>1, <1>6, <2>2
    <3>3. Children(t, t[p].number, SamePage(t, p)) = family
      BY <1>1, <1>5, <2>2
    <3> HIDE DEF family
    <3>4. {t[i].sub : i \in family} = {s[i].sub : i \in family}
      BY <3>2
    <3> QED
      BY <3>1, <3>3, <3>4
  <2> QED
    BY <2>1, <2>2 DEF Whole
<1> QED
  BY <1>3, <1>4, <1>7
-----------------------------------------------------------------------------
(* Balloons numbered 1, 2, ... *)

Injects(s, ids) == \A k, l \in ids : k # l => s[k].number # s[l].number

\* Balloons numbered 1, 2, ... have different numbers.
LEMMA NumberedOnce ==
    ASSUME NEW s, NEW ids, IsFiniteSet(ids), Numbered(s, ids)
    PROVE  /\ Injects(s, ids) /\ Cardinality(ids) \in Nat
           /\ \A k \in ids : s[k].number \in 1..Cardinality(ids)
           /\ \A n \in 1..Cardinality(ids) : \E k \in ids : s[k].number = n
<1> DEFINE m == Cardinality(ids)
           f == [k \in ids |-> s[k].number]
<1>1. m \in Nat
  BY FS_CardinalityType
<1>2. IsFiniteSet(1..m) /\ Cardinality(1..m) = m
  <2> HIDE DEF m
  <2>1. IsFiniteSet(1..m) /\ Cardinality(1..m) = IF 1 > m THEN 0 ELSE m - 1 + 1
    BY <1>1, FS_Interval
  <2> QED
    BY <1>1, <2>1
<1>3. /\ \A k \in ids : s[k].number \in 1..m
      /\ \A n \in 1..m : \E k \in ids : s[k].number = n
  BY DEF Numbered
<1>4. f \in Surjection(ids, 1..m)
  <2>1. f \in [ids -> 1..m]
    BY <1>3
  <2>2. \A n \in 1..m : \E k \in ids : f[k] = n
    BY <1>3
  <2> HIDE DEF f, m
  <2> QED
    BY <2>1, <2>2 DEF Surjection
<1>5. f \in Injection(ids, 1..m)
  <2>1. Cardinality(ids) = Cardinality(1..m)
    BY <1>2
  <2> HIDE DEF f, m
  <2> QED
    BY <1>4, <2>1, FS_SurjSameCardinalityImpliesInj
<1>6. \A k, l \in ids : k # l => f[k] # f[l]
  BY <1>5 DEF Injection, IsInjective
<1> QED
  BY <1>1, <1>3, <1>6 DEF Injects

\* Balloons with different numbers, none above how many they are, are numbered
\* 1, 2, ...
LEMMA NumberedAll ==
    ASSUME NEW s, NEW ids, IsFiniteSet(ids), Injects(s, ids),
           \A k \in ids : s[k].number \in 1..Cardinality(ids)
    PROVE  Numbered(s, ids)
<1> DEFINE m == Cardinality(ids)
           f == [k \in ids |-> s[k].number]
<1>1. m \in Nat
  BY FS_CardinalityType
<1>2. IsFiniteSet(1..m) /\ Cardinality(1..m) = m
  <2> HIDE DEF m
  <2>1. IsFiniteSet(1..m) /\ Cardinality(1..m) = IF 1 > m THEN 0 ELSE m - 1 + 1
    BY <1>1, FS_Interval
  <2> QED
    BY <1>1, <2>1
<1>3. f \in Injection(ids, 1..m)
  BY DEF Injects, Injection, IsInjective
<1>4. f \in Surjection(ids, 1..m)
  <2> HIDE DEF f, m
  <2> QED
    BY <1>2, <1>3, FS_Injection DEF m
<1>5. \A n \in 1..m : \E k \in ids : f[k] = n
  BY <1>4 DEF Surjection
<1>6. \A n \in 1..m : \E k \in ids : s[k].number = n
  BY <1>5
<1> QED
  BY <1>6 DEF Numbered

\* So are those whose numbers are just 1..m.
LEMMA NumberedUpTo ==
    ASSUME NEW s, NEW ids, IsFiniteSet(ids), Injects(s, ids), NEW m \in Nat,
           {s[k].number : k \in ids} = 1..m
    PROVE  Numbered(s, ids)
<1> DEFINE f == [k \in ids |-> s[k].number]
<1>1. IsFiniteSet(1..m) /\ Cardinality(1..m) = m
  <2>1. IsFiniteSet(1..m) /\ Cardinality(1..m) = IF 1 > m THEN 0 ELSE m - 1 + 1
    BY FS_Interval
  <2> QED
    BY <2>1
<1>2. f \in Surjection(ids, 1..m) /\ f \in Injection(ids, 1..m)
  BY DEF Injects, Injection, IsInjective, Surjection
<1>3. Cardinality(ids) = m
  <2> HIDE DEF f
  <2> QED
    BY <1>1, <1>2, FS_Injection
<1> QED
  BY <1>3 DEF Numbered
-----------------------------------------------------------------------------
(* Moving a balloon to a number. *)

\* Where a number goes when the balloon at from moves to to.
MovesTo(n, from, to) == IF n = from THEN to ELSE StepAside(n, from, to)

\* It is one to one: who is passed on the way makes room for who passes.
LEMMA MovesOneToOne ==
    ASSUME NEW from \in Nat \ {0}, NEW to \in Nat \ {0},
           NEW m \in Nat \ {0}, NEW n \in Nat \ {0}
    PROVE  /\ MovesTo(n, from, to) \in Nat \ {0}
           /\ MovesTo(m, from, to) = MovesTo(n, from, to) => m = n
BY DEF MovesTo, StepAside

\* In a scope the balloons that carry a top-level balloon's number are its
\* family: another balloon of that number would be on its page.
LEMMA FamilyIs ==
    ASSUME TypeOK, DistinctNow, NEW i \in Tops(sheet)
    PROVE  LET scope == Scope(sheet, sheet[i].page)
           IN  Family(sheet, i, scope) = {k \in scope : sheet[k].number = sheet[i].number}
<1> DEFINE scope == Scope(sheet, sheet[i].page)
<1>1. i \in DOMAIN sheet /\ i \in scope /\ scope \subseteq DOMAIN sheet
  BY DEF Tops, Scope
<1>2. ASSUME NEW k \in scope, sheet[k].number = sheet[i].number, sheet[k].sub = 0
      PROVE  k = i
  <2>1. k \in Tops(sheet)
    BY <1>1, <1>2 DEF Tops
  <2>2. sheet[k].page = sheet[i].page
    BY <1>2, <2>1 DEF Scope, Continuous
  <2> QED
    BY <1>2, <2>1, <2>2 DEF DistinctNow, Distinct
<1>3. \A k \in scope : k \in Subs(sheet) <=> sheet[k].sub # 0
  BY <1>1 DEF Subs
<1> HIDE DEF scope
<1>4. Family(sheet, i, scope) = {k \in scope : sheet[k].number = sheet[i].number}
  BY <1>1, <1>2, <1>3 DEF Family, Children
<1> QED
  BY <1>4 DEF scope

\* The last number of a scope.
LEMMA LastIs ==
    ASSUME TypeOK, NEW i \in Tops(sheet)
    PROVE  LET scope == Scope(sheet, sheet[i].page)
               last  == Max({sheet[j].number : j \in Tops(sheet) \cap scope})
           IN  last \in Int /\ \E j \in Tops(sheet) \cap scope : last = sheet[j].number
<1> DEFINE N == {sheet[j].number : j \in Tops(sheet) \cap Scope(sheet, sheet[i].page)}
<1>1. N \subseteq Nat \ {0} /\ IsFiniteSet(N)
  BY NumbersFinite DEF Tops
<1>2. N # {}
  BY DEF Tops, Scope
<1> HIDE DEF N
<1>3. Max(N) \in N
  BY <1>1, <1>2, MaxIs
<1>4. Max(N) \in Int
  <2>1. \A n \in N : n \in Int
    BY <1>1
  <2> QED
    BY <1>3, <2>1, Zenon
<1>5. \E j \in Tops(sheet) \cap Scope(sheet, sheet[i].page) : Max(N) = sheet[j].number
  BY <1>3 DEF N
<1> QED
  BY <1>4, <1>5 DEF N

\* The numbers after a move, in the scope and outside it.
LEMMA MovedNumbers ==
    ASSUME TypeOK, DistinctNow,
           NEW i \in DOMAIN sheet, NEW target \in Int, Move(i, target)
    PROVE  \E to \in Nat \ {0} :
              /\ \E j \in Tops(sheet) \cap Scope(sheet, sheet[i].page) : to <= sheet[j].number
              /\ DOMAIN sheet' = DOMAIN sheet
              /\ \A k \in DOMAIN sheet :
                    sheet'[k] = [sheet[k] EXCEPT !.number =
                       IF k \in Scope(sheet, sheet[i].page)
                       THEN MovesTo(sheet[k].number, sheet[i].number, to)
                       ELSE sheet[k].number]
<1> DEFINE scope == Scope(sheet, sheet[i].page)
           from  == sheet[i].number
           last  == Max({sheet[j].number : j \in Tops(sheet) \cap scope})
           to    == Clamp(target, last)
<1>1. i \in Tops(sheet) /\ i \in Tops(sheet) \cap scope
  BY DEF Move, Tops, Scope
<1>2. last \in Int /\ \E j \in Tops(sheet) \cap scope : last = sheet[j].number
  BY <1>1, LastIs
<1> HIDE DEF last
<1>3. to \in Nat \ {0} /\ (last >= 1 => to <= last)
  BY <1>2, ClampIs
<1>9. \E j \in Tops(sheet) \cap scope : to <= sheet[j].number
  <2>1. PICK j \in Tops(sheet) \cap scope : last = sheet[j].number
    BY <1>2
  <2>2. sheet[j].number >= 1
    BY SheetIs DEF Tops
  <2> HIDE DEF to, scope
  <2> QED
    BY <1>3, <2>1, <2>2
<1>4. sheet' = [k \in DOMAIN sheet |->
                  [sheet[k] EXCEPT !.number =
                     IF k \in Family(sheet, i, scope) THEN to
                     ELSE IF k \in scope THEN StepAside(sheet[k].number, from, to)
                     ELSE sheet[k].number]]
  BY DEF Move, last
<1>5. Family(sheet, i, scope) = {k \in scope : sheet[k].number = from}
  BY <1>1, FamilyIs
<1> HIDE DEF to, scope, from
<1>6. \A k \in DOMAIN sheet :
         (IF k \in Family(sheet, i, scope) THEN to
          ELSE IF k \in scope THEN StepAside(sheet[k].number, from, to)
          ELSE sheet[k].number)
         = IF k \in scope THEN MovesTo(sheet[k].number, from, to) ELSE sheet[k].number
  BY <1>5 DEF MovesTo
<1>7. \A k \in DOMAIN sheet :
         sheet'[k] = [sheet[k] EXCEPT !.number =
            IF k \in scope THEN MovesTo(sheet[k].number, from, to) ELSE sheet[k].number]
  BY <1>4, <1>6
<1>8. DOMAIN sheet' = DOMAIN sheet
  BY <1>4
<1> QED
  BY <1>3, <1>7, <1>8, <1>9 DEF scope, from

LEMMA StepsAside ==
    ASSUME NEW n \in Nat \ {0}, NEW from \in Nat \ {0}, NEW to \in Nat \ {0}
    PROVE  StepAside(n, from, to) \in Nat \ {0}
BY DEF StepAside

LEMMA MoveTyped ==
    ASSUME TypeOK, NEW i \in DOMAIN sheet, NEW target \in Int, Move(i, target)
    PROVE  TypeOK'
<1> DEFINE scope == Scope(sheet, sheet[i].page)
           from  == sheet[i].number
           last  == Max({sheet[j].number : j \in Tops(sheet) \cap scope})
           to    == Clamp(target, last)
           n(k)  == IF k \in Family(sheet, i, scope) THEN to
                    ELSE IF k \in scope THEN StepAside(sheet[k].number, from, to)
                    ELSE sheet[k].number
<1>1. /\ sheet' = [k \in DOMAIN sheet |-> [sheet[k] EXCEPT !.number = n(k)]]
      /\ drawn' = drawn /\ script' = script
  BY DEF Move
<1>2. to \in Nat \ {0}
  BY LastIs, ClampIs DEF Move
<1> HIDE DEF to
<1>3. \A k \in DOMAIN sheet : sheet[k] \in Balloon /\ sheet[k].number \in Nat \ {0}
  BY SheetIs
<1>4. ASSUME NEW k \in DOMAIN sheet PROVE n(k) \in Nat \ {0}
  <2>1. StepAside(sheet[k].number, from, to) \in Nat \ {0}
    BY <1>2, <1>3, StepsAside
  <2> QED
    BY <1>2, <1>3, <2>1
<1> HIDE DEF n
<1>5. \A k \in DOMAIN sheet : sheet'[k] \in Balloon
  BY <1>1, <1>3, <1>4 DEF Balloon
<1>6. DOMAIN sheet' = DOMAIN sheet
  BY <1>1
<1> QED
  BY <1>1, <1>5, <1>6 DEF TypeOK, IsSheet

\* Balloons of one page are in a scope together or not at all.
LEMMA PagesTogether ==
    ASSUME NEW page, NEW k \in DOMAIN sheet, NEW l \in DOMAIN sheet,
           sheet[k].page = sheet[l].page
    PROVE  k \in Scope(sheet, page) <=> l \in Scope(sheet, page)
BY DEF Scope

(***************************************************************************)
(* Moving a balloon to any number, asked for or pulled into range, changes *)
(* the order of the numbers and nothing else: the numbers of a page stay   *)
(* distinct, families that were whole stay whole, and every child hangs    *)
(* off the balloon it hung off (moveBalloonNumber).                        *)
(***************************************************************************)
THEOREM MovesKeepFamilies ==
    ASSUME TypeOK, DistinctNow,
           NEW i \in DOMAIN sheet, NEW target \in Int, Move(i, target)
    PROVE  /\ TypeOK' /\ DistinctNow'
           /\ WholeNow => WholeNow'
           /\ \A child \in Subs(sheet) : Parents(sheet', child) = Parents(sheet, child)
<1> DEFINE scope == Scope(sheet, sheet[i].page)
           from  == sheet[i].number
<1>1. PICK to \in Nat \ {0} :
         /\ DOMAIN sheet' = DOMAIN sheet
         /\ \A k \in DOMAIN sheet :
               sheet'[k] = [sheet[k] EXCEPT !.number =
                  IF k \in scope THEN MovesTo(sheet[k].number, from, to)
                  ELSE sheet[k].number]
  BY MovedNumbers
<1>2. \A k \in DOMAIN sheet : sheet[k] \in Balloon /\ sheet[k].number \in Nat \ {0}
  BY SheetIs
<1>3. from \in Nat \ {0}
  BY <1>2
<1> HIDE DEF from
<1>4. \A k \in DOMAIN sheet :
         /\ sheet'[k].page = sheet[k].page /\ sheet'[k].sub = sheet[k].sub
         /\ sheet'[k].number = IF k \in scope THEN MovesTo(sheet[k].number, from, to)
                                              ELSE sheet[k].number
  BY <1>1, <1>2 DEF Balloon
<1>5. \A k \in DOMAIN sheet : sheet'[k] \in Balloon
  <2> SUFFICES ASSUME NEW k \in DOMAIN sheet PROVE sheet'[k] \in Balloon
    OBVIOUS
  <2> DEFINE n == IF k \in scope THEN MovesTo(sheet[k].number, from, to)
                                 ELSE sheet[k].number
  <2>1. n \in Nat \ {0}
    BY <1>2, <1>3, MovesOneToOne
  <2>2. sheet'[k] = [sheet[k] EXCEPT !.number = n]
    BY <1>1
  <2> HIDE DEF n
  <2> QED
    BY <1>2, <2>1, <2>2 DEF Balloon
<1>6. ASSUME NEW k \in DOMAIN sheet, NEW l \in DOMAIN sheet,
             sheet[k].page = sheet[l].page
      PROVE  sheet'[k].number = sheet'[l].number <=> sheet[k].number = sheet[l].number
  <2>1. k \in scope <=> l \in scope
    BY <1>6, PagesTogether
  <2>2. sheet[k].number \in Nat \ {0} /\ sheet[l].number \in Nat \ {0}
    BY <1>2
  <2>3. MovesTo(sheet[k].number, from, to) = MovesTo(sheet[l].number, from, to)
        => sheet[k].number = sheet[l].number
    BY <1>3, <2>2, MovesOneToOne
  <2> QED
    BY <1>4, <2>1, <2>3
<1> HIDE DEF scope
<1>7. /\ Distinct(sheet) => Distinct(sheet')
      /\ Whole(sheet) => Whole(sheet')
      /\ \A k \in DOMAIN sheet : Parents(sheet', k) = Parents(sheet, k)
  <2>1. Renames(sheet, sheet')
    BY <1>1, <1>4, <1>6 DEF Renames
  <2> QED
    BY <2>1, Renamed
<1>8. TypeOK'
  <2>1. drawn' = drawn /\ script' = script
    BY DEF Move
  <2> QED
    BY <1>1, <1>5, <2>1 DEF TypeOK, IsSheet
<1>9. DistinctNow' /\ (WholeNow => WholeNow')
  BY <1>7 DEF DistinctNow, WholeNow
<1> QED
  BY <1>7, <1>8, <1>9 DEF Subs

-----------------------------------------------------------------------------
(* Drawing, sub-numbering and restoring a balloon. *)

\* Balloons that only lose their top-level number leave the others distinct.
LEMMA StillDistinct ==
    ASSUME NEW s, NEW t, Distinct(s), Tops(t) \subseteq Tops(s),
           \A k \in Tops(t) : t[k].page = s[k].page /\ t[k].number = s[k].number
    PROVE  Distinct(t)
BY DEF Distinct

\* A place among siblings is a number.
LEMMA RankIs ==
    ASSUME NEW s, NEW i, NEW family, IsFiniteSet(family)
    PROVE  Rank(s, i, family) \in Nat
<1>1. IsFiniteSet({j \in family : Earlier(s, j, i)})
  BY FS_Subset
<1> QED
  BY <1>1, FS_CardinalityType DEF Rank

\* Closing up renumbers children, and nothing of it makes a balloon top-level.
LEMMA CloseUpKeeps ==
    ASSUME NEW s, NEW D, DOMAIN s = D, IsFiniteSet(D),
           \A k \in D : s[k] \in Balloon,
           NEW family \in SUBSET Subs(s)
    PROVE  LET t == CloseUp(s, family)
           IN  /\ DOMAIN t = D /\ Tops(t) = Tops(s)
               /\ \A k \in D : /\ t[k] \in Balloon
                               /\ t[k].page = s[k].page /\ t[k].number = s[k].number
<1> DEFINE t == CloseUp(s, family)
<1>1. family \subseteq D /\ IsFiniteSet(family)
  <2>1. family \subseteq D
    BY DEF Subs
  <2> QED
    BY <2>1, FS_Subset
<1>2. \A k : Rank(s, k, family) \in Nat
  BY <1>1, RankIs
<1>3. /\ DOMAIN t = D
      /\ \A k \in D : t[k] = IF k \in family
                             THEN [s[k] EXCEPT !.sub = Rank(s, k, family) + 1] ELSE s[k]
  BY DEF CloseUp
<1> HIDE DEF t
<1>4. ASSUME NEW k \in D
      PROVE  /\ t[k] \in Balloon
             /\ t[k].page = s[k].page /\ t[k].number = s[k].number
             /\ t[k].sub = 0 <=> s[k].sub = 0
  <2>1. CASE k \in family
    <3>1. s[k] \in Balloon /\ s[k].sub # 0
      BY <2>1 DEF Subs
    <3> DEFINE r == Rank(s, k, family) + 1
    <3>2. r \in Nat /\ r # 0
      BY <1>2
    <3>3. t[k] = [s[k] EXCEPT !.sub = r]
      BY <1>3, <2>1
    <3> HIDE DEF r
    <3> QED
      BY <3>1, <3>2, <3>3 DEF Balloon
  <2>2. CASE k \notin family
    BY <1>3, <2>2
  <2> QED
    BY <2>1, <2>2
<1>5. Tops(t) = Tops(s)
  BY <1>3, <1>4 DEF Tops
<1> QED
  BY <1>3, <1>4, <1>5 DEF t

LEMMA AddKeeps ==
    ASSUME TypeOK, NEW page \in Pages, NEW category \in Categories, Add(page, category)
    PROVE  TypeOK' /\ (DistinctNow => DistinctNow')
<1> DEFINE n == drawn + 1
           b == [page |-> page, number |-> NextNumber(sheet), sub |-> 0,
                 category |-> category]
<1>1. /\ DOMAIN sheet \subseteq 1..drawn /\ drawn \in Nat
      /\ \A i \in DOMAIN sheet : sheet[i] \in Balloon /\ sheet[i].number \in Nat \ {0}
  BY SheetIs
<1>2. /\ NextNumber(sheet) \in Nat \ {0}
      /\ \A i \in DOMAIN sheet : sheet[i].number < NextNumber(sheet)
  BY NextNumberIs
<1>3. b \in Balloon /\ b.sub = 0 /\ b.number = NextNumber(sheet) /\ b.page = page
  BY <1>2 DEF Balloon
<1>4. /\ drawn < MaxBalloons /\ drawn' = n /\ script' = script
      /\ sheet' = [i \in DOMAIN sheet \cup {n} |-> IF i \in DOMAIN sheet THEN sheet[i] ELSE b]
  BY DEF Add
<1> HIDE DEF b
<1>5. n \notin DOMAIN sheet /\ n \in Nat /\ 1..drawn \subseteq 1..n /\ n \in 1..n
  BY <1>1
<1>6. /\ DOMAIN sheet' = DOMAIN sheet \cup {n} /\ sheet'[n] = b
      /\ \A i \in DOMAIN sheet : sheet'[i] = sheet[i]
  BY <1>4, <1>5
<1>7. n \in 0..MaxBalloons
  BY <1>1, <1>4, NumberingAssumption
<1> HIDE DEF n
<1>8. TypeOK'
  <2>1. IsSheet(sheet)'
    BY <1>1, <1>3, <1>4, <1>5, <1>6 DEF IsSheet
  <2>2. (script = NotRunning \/ IsSheet(script.sheet))'
    BY <1>4, <1>5 DEF TypeOK, IsSheet
  <2> QED
    BY <1>4, <1>7, <2>1, <2>2 DEF TypeOK
<1>9. Tops(sheet') = Tops(sheet) \cup {n}
  BY <1>3, <1>6 DEF Tops
<1>10. \A i \in Tops(sheet) : /\ sheet'[i] = sheet[i]
                              /\ sheet'[i].number # sheet'[n].number
  BY <1>1, <1>2, <1>3, <1>6 DEF Tops
<1>11. ASSUME DistinctNow PROVE DistinctNow'
  <2> SUFFICES ASSUME NEW i \in Tops(sheet'), NEW j \in Tops(sheet'), i # j,
                      sheet'[i].page = sheet'[j].page
               PROVE  sheet'[i].number # sheet'[j].number
    BY DEF DistinctNow, Distinct
  <2>1. CASE i = n \/ j = n
    BY <1>9, <1>10, <2>1
  <2>2. CASE i # n /\ j # n
    BY <1>9, <1>10, <1>11, <2>2 DEF DistinctNow, Distinct
  <2> QED
    BY <2>1, <2>2
<1> QED
  BY <1>8, <1>11

LEMMA RestoreKeeps ==
    ASSUME TypeOK, NEW i \in DOMAIN sheet, RestoreNormalNumber(i)
    PROVE  TypeOK' /\ (DistinctNow => DistinctNow')
<1> DEFINE r == [sheet EXCEPT ![i].sub = 0, ![i].number = NextNumber(sheet)]
           family == Children(r, sheet[i].number, SamePage(sheet, i))
<1>1. /\ IsFiniteSet(DOMAIN sheet)
      /\ \A k \in DOMAIN sheet : sheet[k] \in Balloon /\ sheet[k].number \in Nat \ {0}
  BY SheetIs
<1>2. /\ NextNumber(sheet) \in Nat \ {0}
      /\ \A k \in DOMAIN sheet : sheet[k].number < NextNumber(sheet)
  BY NextNumberIs
<1>3. sheet' = CloseUp(r, family) /\ drawn' = drawn /\ script' = script
  BY DEF RestoreNormalNumber
<1>4. /\ DOMAIN r = DOMAIN sheet
      /\ r[i] = [sheet[i] EXCEPT !.sub = 0, !.number = NextNumber(sheet)]
      /\ \A k \in DOMAIN sheet : k # i => r[k] = sheet[k]
  OBVIOUS
<1>5. /\ r[i] \in Balloon /\ r[i].sub = 0 /\ r[i].number = NextNumber(sheet)
      /\ r[i].page = sheet[i].page
  BY <1>1, <1>2, <1>4 DEF Balloon
<1>6. family \in SUBSET Subs(r)
  BY DEF Children
<1> HIDE DEF r, family
<1>7. \A k \in DOMAIN sheet : r[k] \in Balloon
  BY <1>1, <1>4, <1>5
<1>8. /\ DOMAIN sheet' = DOMAIN sheet /\ Tops(sheet') = Tops(r)
      /\ \A k \in DOMAIN sheet : /\ sheet'[k] \in Balloon
                                 /\ sheet'[k].page = r[k].page
                                 /\ sheet'[k].number = r[k].number
  BY <1>1, <1>3, <1>4, <1>6, <1>7, CloseUpKeeps
<1>9. TypeOK'
  BY <1>3, <1>8 DEF TypeOK, IsSheet
<1>10. \A k \in Tops(r) : k \in DOMAIN sheet /\ (k # i => k \in Tops(sheet))
  BY <1>4 DEF Tops
<1>11. ASSUME DistinctNow PROVE Distinct(r)
  <2> SUFFICES ASSUME NEW k \in Tops(r), NEW l \in Tops(r), k # l, r[k].page = r[l].page
               PROVE  r[k].number # r[l].number
    BY DEF Distinct
  <2>0. \A j \in DOMAIN sheet : j # i => r[j].number # r[i].number
    <3> SUFFICES ASSUME NEW j \in DOMAIN sheet, j # i PROVE r[j].number # r[i].number
      OBVIOUS
    <3>1. r[j].number = sheet[j].number /\ r[i].number = NextNumber(sheet)
      BY <1>4, <1>5
    <3>2. /\ sheet[j].number \in Nat /\ NextNumber(sheet) \in Nat
          /\ sheet[j].number < NextNumber(sheet)
      BY <1>1, <1>2
    <3> QED
      BY <3>1, <3>2
  <2>1. CASE k = i
    BY <1>10, <2>0, <2>1
  <2>2. CASE l = i
    BY <1>10, <2>0, <2>2
  <2>3. CASE k # i /\ l # i
    BY <1>4, <1>10, <1>11, <2>3 DEF DistinctNow, Distinct
  <2> QED
    BY <2>1, <2>2, <2>3
<1>12. DistinctNow => Distinct(sheet')
  BY <1>8, <1>10, <1>11, StillDistinct
<1> QED
  BY <1>9, <1>12 DEF DistinctNow

\* Closing the gap a number leaves: no top-level balloon of the scope has it.
LEMMA GapCloses ==
    ASSUME NEW s, NEW number \in Nat \ {0}, NEW scope,
           \A k \in DOMAIN s : s[k] \in Balloon,
           \A k, l \in DOMAIN s : s[k].page = s[l].page => (k \in scope <=> l \in scope)
    PROVE  LET t == CloseNumberGap(s, number, scope)
           IN  /\ DOMAIN t = DOMAIN s /\ (Distinct(s) => Distinct(t))
               /\ \A k \in DOMAIN s : t[k] \in Balloon
<1>1. CASE \E k \in Tops(s) \cap scope : s[k].number = number
  BY <1>1 DEF CloseNumberGap
<1>2. CASE ~ \E k \in Tops(s) \cap scope : s[k].number = number
  <2> DEFINE t == ShiftAbove(s, number, scope)
  <2>1. CloseNumberGap(s, number, scope) = t
    BY <1>2 DEF CloseNumberGap
  <2>2. \A k \in DOMAIN s : /\ s[k] \in Balloon /\ s[k].number \in Nat \ {0}
    BY DEF Balloon
  <2>3. /\ DOMAIN t = DOMAIN s
        /\ \A k \in DOMAIN s :
              t[k] = IF k \in scope /\ s[k].number > number
                     THEN [s[k] EXCEPT !.number = s[k].number - 1] ELSE s[k]
    BY DEF ShiftAbove
  <2> HIDE DEF t
  <2>4. ASSUME NEW k \in DOMAIN s
        PROVE  /\ t[k] \in Balloon /\ t[k].page = s[k].page /\ t[k].sub = s[k].sub
               /\ t[k].number = IF k \in scope /\ s[k].number > number
                                THEN s[k].number - 1 ELSE s[k].number
    <3>1. CASE k \in scope /\ s[k].number > number
      <4>1. s[k].number - 1 \in Nat \ {0}
        BY <2>2, <3>1
      <4>2. t[k] = [s[k] EXCEPT !.number = s[k].number - 1]
        BY <2>3, <3>1
      <4> QED
        BY <2>2, <3>1, <4>1, <4>2 DEF Balloon
    <3>2. CASE ~(k \in scope /\ s[k].number > number)
      BY <2>2, <2>3, <3>2
    <3> QED
      BY <3>1, <3>2
  <2>5. Tops(t) = Tops(s) /\ Tops(s) \subseteq DOMAIN s
    BY <2>3, <2>4 DEF Tops
  <2>6. ASSUME Distinct(s) PROVE Distinct(t)
    <3> SUFFICES ASSUME NEW k \in Tops(s), NEW l \in Tops(s), k # l, t[k].page = t[l].page
                 PROVE  t[k].number # t[l].number
      BY <2>5 DEF Distinct
    <3>1. /\ k \in DOMAIN s /\ l \in DOMAIN s /\ s[k].page = s[l].page
          /\ s[k].number # s[l].number
      BY <2>4, <2>5, <2>6 DEF Distinct
    <3>2. k \in scope <=> l \in scope
      BY <3>1
    <3>3. k \in scope => s[k].number # number /\ s[l].number # number
      BY <1>2, <3>2
    <3> QED
      BY <2>2, <2>4, <3>1, <3>2, <3>3
  <2> QED
    BY <2>1, <2>3, <2>4, <2>6
<1> QED
  BY <1>1, <1>2

\* Of the sub-numbers of some balloons the next is one from 1.
LEMMA NextSubIs ==
    ASSUME TypeOK, NEW ids \in SUBSET DOMAIN sheet
    PROVE  Max({0} \cup {sheet[k].sub : k \in ids}) + 1 \in Nat \ {0}
<1> DEFINE f == [k \in ids |-> sheet[k].sub]
           N == {sheet[k].sub : k \in ids}
<1>1. IsFiniteSet(N)
  <2>1. f \in Surjection(ids, N)
    BY DEF Surjection
  <2>2. IsFiniteSet(ids)
    BY SheetIs, FS_Subset
  <2> QED
    BY <2>1, <2>2, FS_Surjection
<1>2. N \subseteq Nat
  BY SheetIs
<1> HIDE DEF N
<1>3. Max({0} \cup N) + 1 \in Nat \ {0}
  BY <1>1, <1>2, OneAbove
<1> QED
  BY <1>3 DEF N

LEMMA SubNumberKeeps ==
    ASSUME TypeOK, NEW child \in DOMAIN sheet, NEW parent \in DOMAIN sheet,
           SubNumber(child, parent)
    PROVE  TypeOK' /\ (DistinctNow => DistinctNow')
<1> DEFINE page     == SamePage(sheet, child)
           wasTop   == child \in Tops(sheet)
           old      == sheet[child].number
           target   == sheet[parent].number
           ownKids  == IF wasTop THEN Children(sheet, old, page) ELSE {}
           siblings == Children(sheet, target, page) \ {child}
           first    == Max({0} \cup {sheet[s].sub : s \in siblings}) + 1
           hung     == [i \in DOMAIN sheet |->
                          IF i = child THEN [sheet[i] EXCEPT !.number = target, !.sub = first]
                          ELSE IF i \in ownKids
                          THEN [sheet[i] EXCEPT !.number = target,
                                                !.sub = first + 1 + Rank(sheet, i, ownKids)]
                          ELSE sheet[i]]
           scope    == Scope(sheet, sheet[child].page)
           family   == Children(hung, old, page)
<1>1. /\ IsFiniteSet(DOMAIN sheet)
      /\ \A k \in DOMAIN sheet : sheet[k] \in Balloon /\ sheet[k].number \in Nat \ {0}
  BY SheetIs
<1>2. /\ sheet' = IF wasTop THEN CloseNumberGap(hung, old, scope) ELSE CloseUp(hung, family)
      /\ drawn' = drawn /\ script' = script
  BY DEF SubNumber
<1>3. first \in Nat \ {0}
  <2>1. siblings \in SUBSET DOMAIN sheet
    BY DEF Children, Subs
  <2> HIDE DEF siblings
  <2> QED
    BY <2>1, NextSubIs
<1>4. ownKids \subseteq Subs(sheet) /\ \A k : Rank(sheet, k, ownKids) \in Nat
  <2>1. ownKids \subseteq Subs(sheet) /\ ownKids \subseteq DOMAIN sheet
    BY DEF Children, Subs
  <2> HIDE DEF ownKids
  <2>2. IsFiniteSet(ownKids)
    BY <1>1, <2>1, FS_Subset
  <2> QED
    BY <2>1, <2>2, RankIs
<1>5. old \in Nat \ {0} /\ target \in Nat \ {0}
  BY <1>1
<1>6. family \in SUBSET Subs(hung)
  BY DEF Children
<1>7. (wasTop <=> child \in Tops(sheet)) /\ DOMAIN hung = DOMAIN sheet
  OBVIOUS
<1>8. \A k \in DOMAIN sheet :
         hung[k] = IF k = child THEN [sheet[k] EXCEPT !.number = target, !.sub = first]
                   ELSE IF k \in ownKids
                   THEN [sheet[k] EXCEPT !.number = target,
                                         !.sub = first + 1 + Rank(sheet, k, ownKids)]
                   ELSE sheet[k]
  OBVIOUS
<1>9. \A k, l \in DOMAIN sheet :
         sheet[k].page = sheet[l].page => (k \in scope <=> l \in scope)
  BY PagesTogether
<1> HIDE DEF hung, family, scope, ownKids, first, target, old, wasTop
\* Hanging it up makes no balloon top-level and renames none that stays so.
<1>10. ASSUME NEW k \in DOMAIN sheet
       PROVE  /\ hung[k] \in Balloon /\ hung[k].page = sheet[k].page
              /\ hung[k].sub = 0 => /\ sheet[k].sub = 0 /\ k # child
                                    /\ hung[k].number = sheet[k].number
  <2>1. CASE k = child
    <3>1. hung[k] = [sheet[k] EXCEPT !.number = target, !.sub = first]
      BY <1>8, <2>1
    <3> QED
      BY <1>1, <1>3, <1>5, <3>1 DEF Balloon
  <2>2. CASE k # child /\ k \in ownKids
    <3> DEFINE sub == first + 1 + Rank(sheet, k, ownKids)
    <3>1. sub \in Nat /\ sub # 0
      BY <1>3, <1>4
    <3>2. hung[k] = [sheet[k] EXCEPT !.number = target, !.sub = sub]
      BY <1>8, <2>2
    <3> HIDE DEF sub
    <3> QED
      BY <1>1, <1>5, <3>1, <3>2 DEF Balloon
  <2>3. CASE k # child /\ k \notin ownKids
    BY <1>1, <1>8, <2>3
  <2> QED
    BY <2>1, <2>2, <2>3
<1>11. Tops(hung) \subseteq Tops(sheet)
  BY <1>7, <1>10 DEF Tops
<1>12. DistinctNow => Distinct(hung)
  <2>1. \A k \in Tops(hung) : /\ hung[k].page = sheet[k].page
                              /\ hung[k].number = sheet[k].number
    BY <1>7, <1>10 DEF Tops
  <2> QED
    BY <1>11, <2>1, StillDistinct DEF DistinctNow
<1>13. /\ DOMAIN sheet' = DOMAIN sheet /\ (DistinctNow => Distinct(sheet'))
       /\ \A k \in DOMAIN sheet : sheet'[k] \in Balloon
  <2>1. CASE wasTop
    <3>1. sheet' = CloseNumberGap(hung, old, scope)
      BY <1>2, <2>1
    <3>2. \A k, l \in DOMAIN hung : hung[k].page = hung[l].page => (k \in scope <=> l \in scope)
      BY <1>7, <1>9, <1>10
    <3>3. \A k \in DOMAIN hung : hung[k] \in Balloon
      BY <1>7, <1>10
    <3> QED
      BY <1>5, <1>7, <1>12, <3>1, <3>2, <3>3, GapCloses
  <2>2. CASE ~wasTop
    <3>1. sheet' = CloseUp(hung, family)
      BY <1>2, <2>2
    <3>2. /\ DOMAIN sheet' = DOMAIN sheet /\ Tops(sheet') = Tops(hung)
          /\ \A k \in DOMAIN sheet : /\ sheet'[k] \in Balloon
                                     /\ sheet'[k].page = hung[k].page
                                     /\ sheet'[k].number = hung[k].number
      BY <1>1, <1>6, <1>7, <1>10, <3>1, CloseUpKeeps
    <3>3. Tops(hung) \subseteq DOMAIN sheet
      BY <1>7 DEF Tops
    <3> QED
      BY <1>12, <3>2, <3>3, StillDistinct
  <2> QED
    BY <2>1, <2>2
<1>14. TypeOK'
  BY <1>2, <1>13 DEF TypeOK, IsSheet
<1> QED
  BY <1>13, <1>14 DEF DistinctNow

-----------------------------------------------------------------------------
(* Closing the gaps that deleted numbers leave. *)

\* Of finitely many things one measures least.
LEMMA LeastExists ==
    ASSUME NEW T, IsFiniteSet(T), T # {}, NEW f, \A x \in T : f[x] \in Int
    PROVE  \E x \in T : \A y \in T : f[x] <= f[y]
<1> DEFINE S == {-f[x] : x \in T}
           h == [x \in T |-> -f[x]]
<1>1. IsFiniteSet(S)
  <2>1. h \in Surjection(T, S)
    BY DEF Surjection
  <2> HIDE DEF h, S
  <2> QED
    BY <2>1, FS_Surjection
<1>2. S \subseteq Int /\ S # {}
  OBVIOUS
<1>3. PICK m \in S : \A k \in S : m >= k
  <2> HIDE DEF S
  <2> QED
    BY <1>1, <1>2, GreatestExists
<1>4. PICK x \in T : m = -f[x]
  OBVIOUS
<1>5. \A y \in T : -f[x] >= -f[y]
  BY <1>3, <1>4
<1>6. \A y \in T : f[x] <= f[y]
  BY <1>5
<1> QED
  BY <1>6

\* One to one on each page, step after step.
LEMMA RenamesTwice ==
    ASSUME NEW r, NEW s, NEW t, Renames(r, s), Renames(s, t)
    PROVE  Renames(r, t)
BY DEF Renames

LEMMA RenamesItself == \A s : Renames(s, s)
BY DEF Renames

\* Shifting down what is above a number that nothing carries.
LEMMA ShiftRenames ==
    ASSUME NEW D, NEW s \in [D -> Balloon], NEW number \in Nat \ {0}, NEW scope,
           \A k, l \in D : s[k].page = s[l].page => (k \in scope <=> l \in scope),
           \A k \in D \cap scope : s[k].number # number
    PROVE  LET t == ShiftAbove(s, number, scope)
           IN  t \in [D -> Balloon] /\ Renames(s, t)
<1> DEFINE t == ShiftAbove(s, number, scope)
<1>1. \A k \in D : s[k] \in Balloon /\ s[k].number \in Nat \ {0}
  BY DEF Balloon
<1>2. t = [k \in D |-> IF k \in scope /\ s[k].number > number
                       THEN [s[k] EXCEPT !.number = s[k].number - 1] ELSE s[k]]
  BY DEF ShiftAbove
<1> HIDE DEF t
<1>3. ASSUME NEW k \in D
      PROVE  /\ t[k] \in Balloon /\ t[k].page = s[k].page /\ t[k].sub = s[k].sub
             /\ t[k].number = IF k \in scope /\ s[k].number > number
                              THEN s[k].number - 1 ELSE s[k].number
  <2>1. CASE k \in scope /\ s[k].number > number
    <3>1. s[k].number - 1 \in Nat \ {0}
      BY <1>1, <2>1
    <3>2. t[k] = [s[k] EXCEPT !.number = s[k].number - 1]
      BY <1>2, <2>1
    <3> QED
      BY <1>1, <2>1, <3>1, <3>2 DEF Balloon
  <2>2. CASE ~(k \in scope /\ s[k].number > number)
    BY <1>1, <1>2, <2>2
  <2> QED
    BY <2>1, <2>2
<1>4. t \in [D -> Balloon]
  <2>1. t = [k \in D |-> t[k]]
    BY <1>2
  <2> QED
    BY <1>3, <2>1
<1>5. ASSUME NEW k \in D, NEW l \in D, s[k].page = s[l].page
      PROVE  t[k].number = t[l].number <=> s[k].number = s[l].number
  <2>1. k \in scope <=> l \in scope
    BY <1>5
  <2>2. k \in scope => s[k].number # number
    OBVIOUS
  <2>3. l \in scope => s[l].number # number
    OBVIOUS
  <2>4. s[k].number \in Nat /\ s[l].number \in Nat
    BY <1>1
  <2>5. /\ t[k].number = IF k \in scope /\ s[k].number > number
                         THEN s[k].number - 1 ELSE s[k].number
        /\ t[l].number = IF l \in scope /\ s[l].number > number
                         THEN s[l].number - 1 ELSE s[l].number
    BY <1>3
  <2> QED
    BY <2>1, <2>2, <2>3, <2>4, <2>5
<1>6. Renames(s, t)
  <2>1. DOMAIN s = D /\ DOMAIN t = D
    BY <1>4
  <2> QED
    BY <1>3, <1>5, <2>1 DEF Renames
<1> QED
  BY <1>4, <1>6 DEF t

\* The gaps that a deletion leaves, and closing one of them: a number that
\* something still carries is left alone.
Gaps(removed) == {[number |-> sheet[r].number, page |-> sheet[r].page] :
                     r \in removed \cap Tops(sheet)}

Close(g, t) == IF \E k \in DOMAIN t \cap Scope(sheet, g.page) : t[k].number = g.number
               THEN t ELSE ShiftAbove(t, g.number, Scope(sheet, g.page))

ClosedSheets(D, kept) == {t \in [D -> Balloon] : Renames(kept, t)}

LEMMA GapsFinite ==
    ASSUME TypeOK, NEW removed
    PROVE  IsFiniteSet(Gaps(removed)) /\ \A g \in Gaps(removed) : g.number \in Nat \ {0}
<1>1. /\ Tops(sheet) \subseteq DOMAIN sheet /\ IsFiniteSet(DOMAIN sheet)
      /\ \A r \in DOMAIN sheet : sheet[r].number \in Nat \ {0}
  BY SheetIs DEF Tops
<1>2. IsFiniteSet(removed \cap Tops(sheet))
  BY <1>1, FS_Subset
<1> DEFINE f == [r \in removed \cap Tops(sheet) |->
                    [number |-> sheet[r].number, page |-> sheet[r].page]]
<1>3. f \in Surjection(removed \cap Tops(sheet), Gaps(removed))
  BY DEF Surjection, Gaps
<1>4. IsFiniteSet(Gaps(removed))
  <2> HIDE DEF f
  <2> QED
    BY <1>2, <1>3, FS_Surjection
<1> QED
  BY <1>1, <1>4 DEF Gaps

LEMMA LastGapIs ==
    ASSUME TypeOK, NEW removed, NEW T \in SUBSET Gaps(removed), T # {}
    PROVE  LastGap(T) \in T /\ \A h \in T : LastGap(T).number <= h.number
<1>1. IsFiniteSet(T) /\ \A g \in T : g.number \in Int
  BY GapsFinite, FS_Subset
<1> DEFINE f == [g \in T |-> g.number]
<1>2. \A g \in T : f[g] \in Int /\ f[g] = g.number
  BY <1>1
<1> HIDE DEF f
<1>3. \E g \in T : \A h \in T : f[g] <= f[h]
  BY <1>1, <1>2, LeastExists
<1>4. \E g \in T : \A h \in T : g.number <= h.number
  BY <1>2, <1>3
<1> QED
  BY <1>4 DEF LastGap

LEMMA CloseRenames ==
    ASSUME TypeOK, NEW removed, NEW D \in SUBSET DOMAIN sheet, NEW kept \in [D -> Balloon],
           \A k \in D : kept[k].page = sheet[k].page,
           NEW g \in Gaps(removed), NEW t \in ClosedSheets(D, kept)
    PROVE  Close(g, t) \in ClosedSheets(D, kept)
<1>1. t \in [D -> Balloon] /\ Renames(kept, t) /\ DOMAIN t = D
  BY DEF ClosedSheets
<1>2. CASE \E k \in DOMAIN t \cap Scope(sheet, g.page) : t[k].number = g.number
  BY <1>2 DEF Close
<1>3. CASE ~ \E k \in DOMAIN t \cap Scope(sheet, g.page) : t[k].number = g.number
  <2> DEFINE scope == Scope(sheet, g.page)
             u     == ShiftAbove(t, g.number, scope)
  <2>1. \A k, l \in D : t[k].page = t[l].page => (k \in scope <=> l \in scope)
    <3> SUFFICES ASSUME NEW k \in D, NEW l \in D, t[k].page = t[l].page
                 PROVE  k \in scope <=> l \in scope
      OBVIOUS
    <3>1. sheet[k].page = sheet[l].page
      BY <1>1 DEF Renames
    <3> QED
      BY <3>1, PagesTogether
  <2>2. g.number \in Nat \ {0}
    BY GapsFinite
  <2>3. \A k \in D \cap scope : t[k].number # g.number
    BY <1>1, <1>3
  <2>4. u \in [D -> Balloon] /\ Renames(t, u)
    <3> HIDE DEF scope
    <3> QED
      BY <1>1, <2>1, <2>2, <2>3, ShiftRenames
  <2>5. Renames(kept, u)
    <3> HIDE DEF u
    <3> QED
      BY <1>1, <2>4, RenamesTwice
  <2>6. Close(g, t) = u
    BY <1>3 DEF Close
  <2> HIDE DEF u
  <2> QED
    BY <2>4, <2>5, <2>6 DEF ClosedSheets
<1> QED
  BY <1>2, <1>3

\* What closing the last of some gaps carries over holds once all are closed.
LEMMA GapsFold ==
    ASSUME TypeOK, NEW removed, NEW D \in SUBSET DOMAIN sheet, NEW kept \in [D -> Balloon],
           \A k \in D : kept[k].page = sheet[k].page,
           NEW I \in [SUBSET Gaps(removed) -> SUBSET ClosedSheets(D, kept)], kept \in I[{}],
           \A T \in SUBSET Gaps(removed) : T # {} =>
              \A t \in I[T \ {LastGap(T)}] : Close(LastGap(T), t) \in I[T]
    PROVE  CloseGaps(sheet, kept, removed) \in I[Gaps(removed)]
<1> DEFINE gaps == Gaps(removed)
           A == ClosedSheets(D, kept)
           step == [x \in gaps \X A |-> Close(x[1], x[2])]
           pick == [T \in SUBSET gaps |-> LastGap(T)]
           F(f) == f = [T \in SUBSET gaps |->
                           IF T = {} THEN kept ELSE Close(LastGap(T), f[T \ {LastGap(T)}])]
           it   == CHOOSE f : F(f)
<1>1. CloseGaps(sheet, kept, removed) = it[gaps]
  BY DEF CloseGaps, MapThenFoldSet, Gaps, Close
<1>2. IsFiniteSet(gaps)
  BY GapsFinite
<1>3. kept \in A
  BY RenamesItself DEF ClosedSheets
<1>4. step \in [gaps \X A -> A]
  BY CloseRenames
<1>5. \A T \in SUBSET gaps : T # {} =>
         LastGap(T) \in T /\ LastGap(T) \in gaps /\ pick[T] = LastGap(T)
  BY LastGapIs
<1> HIDE DEF gaps, A
<1>6. Picks(pick, gaps)
  BY <1>5 DEF Picks
<1>7. PICK g \in [SUBSET gaps -> A] : FoldsAll(g, gaps, kept, step, pick)
  <2> HIDE DEF step, pick
  <2> QED
    BY <1>2, <1>3, <1>4, <1>6, FoldExists
<1>8. F(g)
  <2>1. ASSUME NEW T \in SUBSET gaps, T # {}
        PROVE  step[<<pick[T], g[T \ {pick[T]}]>>] = Close(LastGap(T), g[T \ {LastGap(T)}])
    BY <1>5, <2>1
  <2>2. \A T \in SUBSET gaps :
           g[T] = IF T = {} THEN kept ELSE Close(LastGap(T), g[T \ {LastGap(T)}])
    BY <1>7, <2>1 DEF FoldsAll
  <2> QED
    BY <2>2
<1>9. F(it)
  <2> HIDE DEF F
  <2> QED
    BY <1>8
<1> HIDE DEF it
<1>10. I \in [SUBSET gaps -> SUBSET A]
  BY DEF gaps, A
<1>11. it[{}] \in I[{}]
  BY <1>9
<1>12. Follows(it, gaps, A, step, pick)
  BY <1>5, <1>9 DEF Follows
<1>13. Carries(I, gaps, step, pick)
  <2> SUFFICES ASSUME NEW T \in SUBSET gaps, T # {}, NEW a \in I[T \ {LastGap(T)}]
               PROVE  step[<<pick[T], a>>] \in I[T]
    BY <1>5 DEF Carries
  <2>1. a \in A
    BY <1>10
  <2>2. step[<<pick[T], a>>] = Close(LastGap(T), a)
    BY <1>5, <2>1
  <2>3. Close(LastGap(T), a) \in I[T]
    BY DEF gaps
  <2> QED
    BY <2>2, <2>3
<1>14. \A T \in SUBSET gaps : it[T] \in I[T]
  <2> HIDE DEF step, pick
  <2> QED
    BY <1>2, <1>4, <1>6, <1>10, <1>11, <1>12, <1>13, FoldStays
<1> QED
  BY <1>1, <1>14 DEF gaps

\* Closing every gap gives other numbers to the same balloons.
LEMMA GapsClose ==
    ASSUME TypeOK, NEW removed, NEW D \in SUBSET DOMAIN sheet, NEW kept \in [D -> Balloon],
           \A k \in D : kept[k].page = sheet[k].page
    PROVE  LET t == CloseGaps(sheet, kept, removed)
           IN  t \in [D -> Balloon] /\ Renames(kept, t)
<1> DEFINE A == ClosedSheets(D, kept)
           I == [T \in SUBSET Gaps(removed) |-> A]
<1>1. I \in [SUBSET Gaps(removed) -> SUBSET A] /\ I[Gaps(removed)] = A
  OBVIOUS
<1>2. kept \in I[{}]
  BY RenamesItself DEF ClosedSheets
<1>3. ASSUME NEW T \in SUBSET Gaps(removed), T # {}, NEW t \in I[T \ {LastGap(T)}]
      PROVE  Close(LastGap(T), t) \in I[T]
  <2>1. LastGap(T) \in Gaps(removed) /\ t \in A
    BY <1>3, LastGapIs
  <2>2. Close(LastGap(T), t) \in A
    BY <2>1, CloseRenames
  <2> QED
    BY <2>2
<1> HIDE DEF I
<1>4. CloseGaps(sheet, kept, removed) \in I[Gaps(removed)]
  BY <1>1, <1>2, <1>3, GapsFold
<1> QED
  BY <1>1, <1>4 DEF ClosedSheets
-----------------------------------------------------------------------------
(* Places in a family. *)

\* A set without one of the members of another is smaller.
LEMMA FewerMembers ==
    ASSUME NEW B, IsFiniteSet(B), NEW A \in SUBSET B, NEW x \in B, x \notin A
    PROVE  /\ Cardinality(A) \in Nat /\ Cardinality(B) \in Nat
           /\ Cardinality(A) < Cardinality(B)
<1>1. IsFiniteSet(A) /\ Cardinality(A) <= Cardinality(B) /\ Cardinality(B) # Cardinality(A)
  BY FS_Subset
<1>2. Cardinality(A) \in Nat /\ Cardinality(B) \in Nat
  BY <1>1, FS_CardinalityType
<1> QED
  BY <1>1, <1>2

\* Of two children one is before the other, and not the other before it.
LEMMA EarlierOrders ==
    ASSUME NEW s, NEW i \in Int, NEW j \in Int, NEW k \in Int,
           s[i].sub \in Nat, s[j].sub \in Nat, s[k].sub \in Nat
    PROVE  /\ ~Earlier(s, i, i)
           /\ i # j => Earlier(s, i, j) \/ Earlier(s, j, i)
           /\ Earlier(s, k, i) /\ Earlier(s, i, j) => Earlier(s, k, j)
BY DEF Earlier

\* Members of a family take different places, all below their number.
LEMMA RanksDiffer ==
    ASSUME NEW s, NEW family, IsFiniteSet(family), family \subseteq Int,
           \A k \in family : s[k].sub \in Nat
    PROVE  /\ \A i \in family : Rank(s, i, family) \in 0..(Cardinality(family) - 1)
           /\ \A i, j \in family : i # j => Rank(s, i, family) # Rank(s, j, family)
<1> DEFINE Before(i) == {k \in family : Earlier(s, k, i)}
<1>1. ASSUME NEW i \in family
      PROVE  Rank(s, i, family) \in 0..(Cardinality(family) - 1)
  <2>1. Before(i) \in SUBSET family /\ i \notin Before(i)
    BY DEF Earlier
  <2>2. Rank(s, i, family) = Cardinality(Before(i))
    BY DEF Rank
  <2> HIDE DEF Before
  <2> DEFINE r == Cardinality(Before(i))  n == Cardinality(family)
  <2>3. r \in Nat /\ n \in Nat /\ r < n
    BY <2>1, FewerMembers
  <2> HIDE DEF r, n
  <2>4. r \in 0..(n - 1)
    BY <2>3
  <2> QED
    BY <2>2, <2>4 DEF r, n
<1>2. ASSUME NEW i \in family, NEW j \in family, Earlier(s, i, j)
      PROVE  Rank(s, i, family) # Rank(s, j, family)
  <2>1. \A k \in family : Earlier(s, k, i) => Earlier(s, k, j)
    BY <1>2, EarlierOrders
  <2>2. i \in Before(j) /\ i \notin Before(i) /\ Before(i) \in SUBSET Before(j)
    BY <1>2, <2>1, EarlierOrders
  <2>3. IsFiniteSet(Before(j))
    BY FS_Subset
  <2>4. /\ Rank(s, i, family) = Cardinality(Before(i))
        /\ Rank(s, j, family) = Cardinality(Before(j))
    BY DEF Rank
  <2> HIDE DEF Before
  <2>5. /\ Cardinality(Before(i)) \in Nat /\ Cardinality(Before(j)) \in Nat
        /\ Cardinality(Before(i)) < Cardinality(Before(j))
    BY <2>2, <2>3, FewerMembers
  <2> QED
    BY <2>4, <2>5
<1>3. \A i, j \in family : i # j => Earlier(s, i, j) \/ Earlier(s, j, i)
  BY EarlierOrders
<1> QED
  BY <1>1, <1>2, <1>3

\* They take them all.
LEMMA RanksAll ==
    ASSUME NEW s, NEW family, IsFiniteSet(family), family \subseteq Int,
           \A k \in family : s[k].sub \in Nat
    PROVE  {Rank(s, i, family) : i \in family} = 0..(Cardinality(family) - 1)
<1> DEFINE n == Cardinality(family)
           f == [i \in family |-> Rank(s, i, family)]
<1>1. n \in Nat
  BY FS_CardinalityType
<1>2. /\ \A i \in family : Rank(s, i, family) \in 0..(n - 1)
      /\ \A i, j \in family : i # j => Rank(s, i, family) # Rank(s, j, family)
  BY RanksDiffer
<1>3. f \in Injection(family, 0..(n - 1))
  BY <1>2 DEF Injection, IsInjective
<1>4. IsFiniteSet(0..(n - 1)) /\ Cardinality(0..(n - 1)) = n
  <2> HIDE DEF n
  <2>1. n - 1 \in Int
    BY <1>1
  <2>2. /\ IsFiniteSet(0..(n - 1))
        /\ Cardinality(0..(n - 1)) = IF 0 > n - 1 THEN 0 ELSE n - 1 - 0 + 1
    BY <2>1, FS_Interval
  <2> QED
    BY <1>1, <2>2
<1>5. f \in Surjection(family, 0..(n - 1))
  <2> HIDE DEF f
  <2> QED
    BY <1>3, <1>4, FS_Injection
<1>6. \A m \in 0..(n - 1) : \E i \in family : f[i] = m
  BY <1>5 DEF Surjection
<1> QED
  BY <1>2, <1>6
-----------------------------------------------------------------------------
(* Deleting the selected balloons. *)

\* The balloons of a part of the sheet, where they were and with the numbers
\* they had, hanging off another or not.
PartOf(t, K) ==
    /\ t \in [K -> Balloon]
    /\ \A k \in K : t[k].page = sheet[k].page /\ t[k].number = sheet[k].number
    /\ Subs(t) \subseteq Subs(sheet)

\* The children of a number, in the scope of a page.
Offspring(t, i) == Children(t, sheet[i].number, Scope(sheet, sheet[i].page))

\* A child of a deleted parent that nothing replaces.
Orphaned(kept, removed, i) ==
    \E p \in removed \cap Tops(sheet) :
        /\ i \in Children(kept, sheet[p].number, Scope(sheet, sheet[p].page))
        /\ \A k \in Tops(kept) \cap Scope(sheet, sheet[p].page) :
              sheet[k].number # sheet[p].number

LEMMA OffspringRanks ==
    ASSUME TypeOK, NEW K \in SUBSET DOMAIN sheet, NEW t, PartOf(t, K), NEW i \in K
    PROVE  LET family == Offspring(t, i)
           IN  /\ family \subseteq Subs(t) /\ IsFiniteSet(family) /\ family \subseteq Int
               /\ \A k \in family : t[k].sub \in Nat
               /\ Rank(t, i, family) \in Nat
<1> DEFINE family == Offspring(t, i)
<1>1. /\ DOMAIN sheet \subseteq 1..drawn /\ drawn \in Nat /\ IsFiniteSet(DOMAIN sheet)
  BY SheetIs
<1>2. DOMAIN t = K /\ \A k \in K : t[k].sub \in Nat
  BY DEF PartOf, Balloon
<1>3. family \subseteq Subs(t) /\ Subs(t) \subseteq K
  BY <1>2 DEF Offspring, Children, Subs
<1>4. IsFiniteSet(family)
  BY <1>1, <1>3, FS_Subset
<1> HIDE DEF family
<1>5. Rank(t, i, family) \in Nat
  BY <1>4, RankIs
<1> QED
  BY <1>1, <1>2, <1>3, <1>4, <1>5 DEF family

\* The first child of a deleted parent becomes its number's top-level balloon,
\* and no other does.
LEMMA PromoteKeeps ==
    ASSUME TypeOK, NEW removed
    PROVE  LET K    == DOMAIN sheet \ removed
               r    == Restrict(sheet, K)
               kept == Promote(sheet, r, removed)
           IN  /\ PartOf(r, K) /\ PartOf(kept, K) /\ (DistinctNow => Distinct(kept))
               /\ \A i \in K : kept[i] = IF Orphaned(r, removed, i)
                                         THEN [r[i] EXCEPT !.sub = Rank(r, i, Offspring(r, i))]
                                         ELSE r[i]
<1> DEFINE K    == DOMAIN sheet \ removed
           r    == Restrict(sheet, K)
           kept == Promote(sheet, r, removed)
           rank(i) == Rank(r, i, Offspring(r, i))
<1>1. \A k \in DOMAIN sheet : sheet[k] \in Balloon
  BY SheetIs
<1>2. r \in [K -> Balloon] /\ DOMAIN r = K /\ \A k \in K : r[k] = sheet[k]
  BY <1>1 DEF Restrict
<1>3. PartOf(r, K)
  BY <1>2 DEF PartOf, Subs
<1>4. kept = [i \in K |-> IF Orphaned(r, removed, i) THEN [r[i] EXCEPT !.sub = rank(i)]
                          ELSE r[i]]
  BY <1>2 DEF Promote, Orphaned, Offspring, Tops
<1> HIDE DEF kept, r, rank
<1>5. \A i \in K : rank(i) \in Nat
  BY <1>3, OffspringRanks DEF rank
<1>6. ASSUME NEW i \in K
      PROVE  /\ kept[i] \in Balloon
             /\ kept[i].page = r[i].page /\ kept[i].number = r[i].number
             /\ kept[i].sub = IF Orphaned(r, removed, i) THEN rank(i) ELSE r[i].sub
  <2>1. CASE Orphaned(r, removed, i)
    <3>1. kept[i] = [r[i] EXCEPT !.sub = rank(i)]
      BY <1>4, <2>1
    <3>2. r[i] \in Balloon /\ rank(i) \in Nat
      BY <1>2, <1>5
    <3> QED
      BY <2>1, <3>1, <3>2 DEF Balloon
  <2>2. CASE ~Orphaned(r, removed, i)
    BY <1>2, <1>4, <2>2
  <2> QED
    BY <2>1, <2>2
<1>7. \A i \in K : Orphaned(r, removed, i) =>
         /\ i \in Subs(r) /\ i \in Offspring(r, i)
         /\ \A k \in Tops(r) : sheet[k].page = sheet[i].page => sheet[k].number # sheet[i].number
  <2> SUFFICES ASSUME NEW i \in K, Orphaned(r, removed, i)
               PROVE  /\ i \in Subs(r) /\ i \in Offspring(r, i)
                      /\ \A k \in Tops(r) : sheet[k].page = sheet[i].page
                                            => sheet[k].number # sheet[i].number
    OBVIOUS
  <2>1. PICK p \in removed \cap Tops(sheet) :
           /\ i \in Children(r, sheet[p].number, Scope(sheet, sheet[p].page))
           /\ \A k \in Tops(r) \cap Scope(sheet, sheet[p].page) :
                 sheet[k].number # sheet[p].number
    BY DEF Orphaned
  <2>2. /\ i \in Subs(r) /\ i \in Scope(sheet, sheet[p].page)
        /\ sheet[i].number = sheet[p].number
    BY <1>2, <2>1 DEF Children
  <2>3. i \in Offspring(r, i)
    BY <1>2, <2>2 DEF Offspring, Children, Scope
  <2>4. \A k \in Tops(r) : k \in DOMAIN sheet
    BY <1>2 DEF Tops
  <2>5. \A k \in Tops(r) : sheet[k].page = sheet[i].page => k \in Scope(sheet, sheet[p].page)
    BY <2>2, <2>4, PagesTogether
  <2> QED
    BY <2>1, <2>2, <2>3, <2>5
<1>8. PartOf(kept, K)
  <2>1. kept \in [K -> Balloon] /\ DOMAIN kept = K
    BY <1>4, <1>6
  <2>2. \A k \in Subs(kept) : k \in Subs(sheet)
    <3> SUFFICES ASSUME NEW k \in Subs(kept) PROVE k \in Subs(sheet)
      OBVIOUS
    <3>1. k \in K /\ kept[k].sub # 0
      BY <2>1 DEF Subs
    <3>2. k \in Subs(r)
      BY <1>2, <1>6, <1>7, <3>1 DEF Subs
    <3> QED
      BY <1>3, <3>2 DEF PartOf
  <2> QED
    BY <1>2, <1>6, <2>1, <2>2 DEF PartOf
<1>9. ASSUME DistinctNow PROVE Distinct(kept)
  <2> SUFFICES ASSUME NEW i \in Tops(kept), NEW j \in Tops(kept), i # j,
                      kept[i].page = kept[j].page, kept[i].number = kept[j].number
               PROVE  FALSE
    BY DEF Distinct
  <2>1. /\ i \in K /\ j \in K /\ kept[i].sub = 0 /\ kept[j].sub = 0
    BY <1>4 DEF Tops
  <2>2. sheet[i].page = sheet[j].page /\ sheet[i].number = sheet[j].number
    BY <1>2, <1>6, <2>1
  <2>3. \A k \in {i, j} : ~Orphaned(r, removed, k) => k \in Tops(r)
    BY <1>2, <1>6, <2>1 DEF Tops
  <2>4. CASE Orphaned(r, removed, i) /\ Orphaned(r, removed, j)
    <3> DEFINE family == Offspring(r, i)
    <3>1. Offspring(r, j) = family
      BY <2>2 DEF Offspring
    <3>2. i \in family /\ j \in family
      BY <1>7, <2>1, <2>4, <3>1
    <3>3. /\ IsFiniteSet(family) /\ family \subseteq Int
          /\ \A k \in family : r[k].sub \in Nat
      BY <1>3, <2>1, OffspringRanks
    <3>4. Rank(r, i, family) = 0 /\ Rank(r, j, family) = 0
      BY <1>6, <2>1, <2>4, <3>1 DEF rank
    <3> HIDE DEF family
    <3> QED
      BY <3>2, <3>3, <3>4, RanksDiffer
  <2>5. CASE ~Orphaned(r, removed, i) /\ ~Orphaned(r, removed, j)
    <3>1. i \in Tops(sheet) /\ j \in Tops(sheet)
      BY <1>2, <2>1, <2>3, <2>5 DEF Tops
    <3> QED
      BY <1>9, <2>2, <3>1 DEF DistinctNow, Distinct
  <2>6. CASE Orphaned(r, removed, i) /\ ~Orphaned(r, removed, j)
    BY <1>7, <2>1, <2>2, <2>3, <2>6
  <2>7. CASE ~Orphaned(r, removed, i) /\ Orphaned(r, removed, j)
    BY <1>7, <2>1, <2>2, <2>3, <2>7
  <2> QED
    BY <2>4, <2>5, <2>6, <2>7
<1>10. \A i \in K : kept[i] = IF Orphaned(r, removed, i)
                              THEN [r[i] EXCEPT !.sub = Rank(r, i, Offspring(r, i))]
                              ELSE r[i]
  BY <1>4 DEF rank
<1> QED
  BY <1>3, <1>8, <1>9, <1>10 DEF kept, r

\* A child that lost a sibling.
Bereaved(kept, removed, i) ==
    \E c \in removed \cap Subs(sheet) :
        i \in Children(kept, sheet[c].number, Scope(sheet, sheet[c].page))

\* Siblings close up, and stay children.
LEMMA SiblingsKeep ==
    ASSUME TypeOK, NEW K \in SUBSET DOMAIN sheet, NEW kept, PartOf(kept, K), NEW removed
    PROVE  LET t == CloseSiblings(sheet, kept, removed)
           IN  /\ PartOf(t, K) /\ Tops(t) = Tops(kept) /\ (Distinct(kept) => Distinct(t))
               /\ \A i \in K :
                     t[i] = IF Bereaved(kept, removed, i)
                            THEN [kept[i] EXCEPT !.sub = Rank(kept, i, Offspring(kept, i)) + 1]
                            ELSE kept[i]
<1> DEFINE t == CloseSiblings(sheet, kept, removed)
           sub(i) == Rank(kept, i, Offspring(kept, i)) + 1
<1>1. /\ kept \in [K -> Balloon] /\ DOMAIN kept = K
      /\ \A k \in K : kept[k].page = sheet[k].page /\ kept[k].number = sheet[k].number
      /\ Subs(kept) \subseteq Subs(sheet)
  BY DEF PartOf
<1>2. t = [i \in K |-> IF Bereaved(kept, removed, i) THEN [kept[i] EXCEPT !.sub = sub(i)]
                       ELSE kept[i]]
  BY <1>1 DEF CloseSiblings, Bereaved, Offspring
<1>3. \A i \in K : sub(i) \in Nat /\ sub(i) # 0
  <2> SUFFICES ASSUME NEW i \in K PROVE sub(i) \in Nat /\ sub(i) # 0
    OBVIOUS
  <2>1. Rank(kept, i, Offspring(kept, i)) \in Nat
    BY OffspringRanks
  <2> QED
    BY <2>1
<1>4. \A i \in K : Bereaved(kept, removed, i) => kept[i].sub # 0
  BY DEF Bereaved, Children, Subs
<1> HIDE DEF t, sub
<1>5. ASSUME NEW i \in K
      PROVE  /\ t[i] \in Balloon
             /\ t[i].page = kept[i].page /\ t[i].number = kept[i].number
             /\ t[i].sub = 0 <=> kept[i].sub = 0
  <2>1. CASE Bereaved(kept, removed, i)
    <3>1. t[i] = [kept[i] EXCEPT !.sub = sub(i)]
      BY <1>2, <2>1
    <3>2. kept[i] \in Balloon /\ sub(i) \in Nat /\ sub(i) # 0 /\ kept[i].sub # 0
      BY <1>1, <1>3, <1>4, <2>1
    <3> QED
      BY <3>1, <3>2 DEF Balloon
  <2>2. CASE ~Bereaved(kept, removed, i)
    BY <1>1, <1>2, <2>2
  <2> QED
    BY <2>1, <2>2
<1>6. t \in [K -> Balloon] /\ DOMAIN t = K
  BY <1>2, <1>5
<1>7. Tops(t) = Tops(kept) /\ Subs(t) = Subs(kept)
  BY <1>1, <1>5, <1>6 DEF Tops, Subs
<1>8. PartOf(t, K)
  BY <1>1, <1>5, <1>6, <1>7 DEF PartOf
<1>9. Distinct(kept) => Distinct(t)
  <2>1. Tops(kept) \subseteq K
    BY <1>1 DEF Tops
  <2> QED
    BY <1>5, <1>7, <2>1, StillDistinct
<1>10. \A i \in K : t[i] = IF Bereaved(kept, removed, i)
                           THEN [kept[i] EXCEPT !.sub = Rank(kept, i, Offspring(kept, i)) + 1]
                           ELSE kept[i]
  BY <1>2 DEF sub
<1> QED
  BY <1>7, <1>8, <1>9, <1>10 DEF t

LEMMA DeleteKeeps ==
    ASSUME TypeOK, NEW removed \in SUBSET DOMAIN sheet, Delete(removed)
    PROVE  TypeOK' /\ (DistinctNow => DistinctNow')
<1> DEFINE K  == DOMAIN sheet \ removed
           t1 == Promote(sheet, Restrict(sheet, K), removed)
           t2 == CloseSiblings(sheet, t1, removed)
<1>1. K \in SUBSET DOMAIN sheet
  OBVIOUS
<1>2. PartOf(t1, K) /\ (DistinctNow => Distinct(t1))
  BY PromoteKeeps
<1>3. sheet' = CloseGaps(sheet, t2, removed) /\ drawn' = drawn /\ script' = script
  BY DEF Delete
<1> HIDE DEF t1, K
<1>4. PartOf(t2, K) /\ (DistinctNow => Distinct(t2))
  BY <1>1, <1>2, SiblingsKeep
<1> HIDE DEF t2
<1>5. t2 \in [K -> Balloon] /\ \A k \in K : t2[k].page = sheet[k].page
  BY <1>4 DEF PartOf
<1>6. sheet' \in [K -> Balloon] /\ Renames(t2, sheet')
  BY <1>1, <1>3, <1>5, GapsClose
<1>7. DistinctNow => Distinct(sheet')
  BY <1>4, <1>6, Renamed
<1>8. TypeOK'
  <2>1. DOMAIN sheet' = K /\ \A k \in K : sheet'[k] \in Balloon
    BY <1>6
  <2> QED
    BY <1>1, <1>3, <2>1 DEF TypeOK, IsSheet
<1> QED
  BY <1>7, <1>8 DEF DistinctNow

-----------------------------------------------------------------------------
(* Renumbering. *)

\* A visit gives the top-level balloons it is for numbers of their own, and their
\* children the number of a parent; it leaves the others alone.
Numbers(t, D, on, u) ==
    /\ u \in [D -> Balloon]
    /\ \A k \in D : /\ u[k].page = t[k].page /\ u[k].sub = t[k].sub
                    /\ u[k].category = t[k].category
                    /\ k \notin on => u[k] = t[k]
    /\ \A k, l \in on \cap Tops(t) : k # l => u[k].number # u[l].number
    /\ \A k \in on : (\E p \in on \cap Tops(t) : t[p].number = t[k].number)
          => \E p \in on \cap Tops(t) : t[p].number = t[k].number /\ u[k].number = u[p].number

\* A balloon for every place, and one for none twice.
Orders(order, S) ==
    /\ \A k \in S : order[k] \in Nat
    /\ \A k, l \in S : k # l => order[k] # order[l]

LEMMA VisitNumbers ==
    ASSUME NEW D, IsFiniteSet(D), NEW t, DOMAIN t = D, \A k \in D : t[k] \in Balloon,
           NEW on \in SUBSET D, NEW next \in Nat \ {0}, NEW order, Orders(order, Tops(t))
    PROVE  LET u    == ApplyNumbering(t, on, order, next)
               tops == on \cap Tops(t)
               then == next + Cardinality(tops)
           IN  /\ Numbers(t, D, on, u)
               /\ then \in Nat \ {0} /\ next <= then
               /\ \A k \in tops : next <= u[k].number /\ u[k].number < then
<1> DEFINE u       == ApplyNumbering(t, on, order, next)
           tops    == on \cap Tops(t)
           size    == Cardinality(tops)
           then    == next + size
           Before(i) == {j \in tops : order[j] < order[i]}
           place(i)  == next + Cardinality(Before(i))
           parents(i) == {p \in tops : t[p].number = t[i].number}
           last(i) == CHOOSE p \in parents(i) : \A q \in parents(i) : order[q] <= order[p]
<1>1. tops \subseteq D /\ IsFiniteSet(tops)
  <2>1. tops \subseteq D
    OBVIOUS
  <2> QED
    BY <2>1, FS_Subset
<1>2. size \in Nat /\ then \in Nat \ {0} /\ next <= then
  <2>1. size \in Nat
    BY <1>1, FS_CardinalityType
  <2> HIDE DEF size
  <2> QED
    BY <2>1
<1>o. /\ \A k \in tops : order[k] \in Nat
      /\ \A k, l \in tops : k # l => order[k] # order[l]
  BY DEF Orders
<1>3. ASSUME NEW i \in tops
      PROVE  place(i) \in Nat \ {0} /\ next <= place(i) /\ place(i) < then
  <2> DEFINE c == Cardinality(Before(i))
  <2>1. Before(i) \in SUBSET tops /\ i \notin Before(i)
    BY <1>o
  <2> HIDE DEF Before
  <2>2. c \in Nat /\ c < size
    <3> HIDE DEF tops
    <3> QED
      BY <1>1, <2>1, FewerMembers
  <2> HIDE DEF c, size
  <2> QED
    BY <1>2, <2>2 DEF c
<1>4. ASSUME NEW i \in tops, NEW j \in tops, order[i] < order[j]
      PROVE  place(i) # place(j)
  <2> DEFINE c == Cardinality(Before(i))  d == Cardinality(Before(j))
  <2>1. \A k \in tops : order[k] < order[i] => order[k] < order[j]
    BY <1>4, <1>o
  <2>2. Before(i) \in SUBSET Before(j) /\ i \in Before(j) /\ i \notin Before(i)
    BY <1>4, <1>o, <2>1
  <2>3. IsFiniteSet(Before(j))
    <3>1. Before(j) \subseteq tops
      OBVIOUS
    <3> HIDE DEF Before, tops
    <3> QED
      BY <1>1, <3>1, FS_Subset
  <2> HIDE DEF Before
  <2>4. c \in Nat /\ d \in Nat /\ c < d
    BY <2>2, <2>3, FewerMembers
  <2>5. place(i) = next + c /\ place(j) = next + d
    OBVIOUS
  <2> HIDE DEF c, d, place
  <2> QED
    BY <2>4, <2>5
<1>5. ASSUME NEW i \in tops, NEW j \in tops, i # j
      PROVE  place(i) # place(j)
  <2>1. order[i] \in Nat /\ order[j] \in Nat /\ order[i] # order[j]
    BY <1>o, <1>5
  <2>2. order[i] < order[j] \/ order[j] < order[i]
    BY <2>1
  <2> HIDE DEF place
  <2> QED
    BY <1>4, <2>2
<1>6. ASSUME NEW i \in D, parents(i) # {}
      PROVE  last(i) \in parents(i)
  <2> DEFINE f == [p \in parents(i) |-> -order[p]]
  <2>1. IsFiniteSet(parents(i))
    <3>1. parents(i) \subseteq tops
      OBVIOUS
    <3> HIDE DEF parents, tops
    <3> QED
      BY <1>1, <3>1, FS_Subset
  <2>2. \A p \in parents(i) : f[p] \in Int /\ f[p] = -order[p] /\ order[p] \in Nat
    BY <1>o
  <2> HIDE DEF f, parents
  <2>3. PICK p \in parents(i) : \A q \in parents(i) : f[p] <= f[q]
    BY <1>6, <2>1, <2>2, LeastExists
  <2>4. \A q \in parents(i) : order[q] <= order[p]
    BY <2>2, <2>3
  <2> QED
    BY <2>4
<1>7. u = [i \in D |->
             IF i \in tops THEN [t[i] EXCEPT !.number = place(i)]
             ELSE IF i \in on /\ parents(i) # {} THEN [t[i] EXCEPT !.number = place(last(i))]
             ELSE t[i]]
  BY DEF ApplyNumbering
<1>8. \A i \in D : parents(i) # {} => last(i) \in tops /\ t[last(i)].number = t[i].number
  BY <1>6
<1>p. \A i \in D : parents(i) # {} <=> \E p \in tops : t[p].number = t[i].number
  OBVIOUS
<1> HIDE DEF u, place, last, parents
<1>9. ASSUME NEW k \in D, NEW n \in Nat \ {0}, u[k] = [t[k] EXCEPT !.number = n]
      PROVE  /\ u[k] \in Balloon /\ u[k].number = n
             /\ u[k].page = t[k].page /\ u[k].sub = t[k].sub /\ u[k].category = t[k].category
  <2>1. t[k] \in Balloon
    OBVIOUS
  <2> QED
    BY <1>9, <2>1 DEF Balloon
<1>10. ASSUME NEW k \in tops
       PROVE  u[k] = [t[k] EXCEPT !.number = place(k)] /\ u[k].number = place(k)
  <2>1. k \in D /\ u[k] = [t[k] EXCEPT !.number = place(k)]
    BY <1>1, <1>7
  <2>2. place(k) \in Nat \ {0}
    BY <1>3
  <2> QED
    BY <1>9, <2>1, <2>2
<1>11. ASSUME NEW k \in on, k \notin tops, parents(k) # {}
       PROVE  u[k] = [t[k] EXCEPT !.number = place(last(k))] /\ u[k].number = place(last(k))
  <2>1. k \in D /\ u[k] = [t[k] EXCEPT !.number = place(last(k))]
    BY <1>7, <1>11
  <2>2. place(last(k)) \in Nat \ {0}
    BY <1>3, <1>8, <1>11
  <2> QED
    BY <1>9, <2>1, <2>2
<1>12. ASSUME NEW k \in D
       PROVE  /\ u[k] \in Balloon
              /\ u[k].page = t[k].page /\ u[k].sub = t[k].sub /\ u[k].category = t[k].category
              /\ k \notin on => u[k] = t[k]
  <2>1. CASE k \in tops
    <3>1. place(k) \in Nat \ {0}
      BY <1>3, <2>1
    <3> QED
      BY <1>9, <1>10, <2>1, <3>1
  <2>2. CASE k \in on /\ k \notin tops /\ parents(k) # {}
    <3>1. place(last(k)) \in Nat \ {0}
      BY <1>3, <1>8, <2>2
    <3> QED
      BY <1>9, <1>11, <2>2, <3>1
  <2>3. CASE k \notin tops /\ ~(k \in on /\ parents(k) # {})
    <3>1. u[k] = t[k]
      BY <1>7, <2>3
    <3> QED
      BY <3>1
  <2> QED
    BY <2>1, <2>2, <2>3
<1>13. u \in [D -> Balloon]
  BY <1>7, <1>12
<1>14. ASSUME NEW k \in on, \E p \in tops : t[p].number = t[k].number
       PROVE  \E p \in tops : t[p].number = t[k].number /\ u[k].number = u[p].number
  <2>1. CASE k \in tops
    BY <2>1
  <2>2. CASE k \notin tops
    <3>1. k \in D /\ parents(k) # {}
      BY <1>14, <1>p
    <3>2. last(k) \in tops /\ t[last(k)].number = t[k].number
      BY <1>8, <3>1
    <3>3. u[k].number = place(last(k)) /\ u[last(k)].number = place(last(k))
      BY <1>10, <1>11, <2>2, <3>1, <3>2
    <3> QED
      BY <3>2, <3>3
  <2> QED
    BY <2>1, <2>2
<1>15. \A k \in tops : next <= u[k].number /\ u[k].number < then
  BY <1>3, <1>10
<1>16. ASSUME NEW k \in tops, NEW l \in tops, k # l
       PROVE  u[k].number # u[l].number
  <2>1. u[k].number = place(k) /\ u[l].number = place(l)
    BY <1>10
  <2>2. place(k) # place(l)
    BY <1>5, <1>16
  <2> QED
    BY <2>1, <2>2
<1>17. Numbers(t, D, on, u)
  BY <1>12, <1>13, <1>14, <1>16 DEF Numbers
<1> QED
  BY <1>2, <1>15, <1>17 DEF u

\* The visits of a renumbering, and the one for a balloon on top level.
Visits == [group: Categories, page: Pages]
VisitOf(k) == [group |-> sheet[k].category, page |-> sheet[k].page]

\* What a visit finds: a sheet with other numbers, and the next number.
Alike(t) == \A k \in DOMAIN sheet :
    t[k].page = sheet[k].page /\ t[k].sub = sheet[k].sub /\ t[k].category = sheet[k].category
Sheets == [DOMAIN sheet -> Balloon] \cup {sheet}
Numberings == {a \in [sheet: Sheets, next: Nat \ {0}] : Alike(a.sheet)}

On(t, v) == {i \in DOMAIN sheet : sheet[i].page = v.page /\ GroupOf(sheet, t, i) = v.group}
Visited(v, a, order) ==
    [sheet |-> ApplyNumbering(a.sheet, On(a.sheet, v), order, a.next),
     next  |-> a.next + Cardinality(On(a.sheet, v) \cap Tops(a.sheet))]

\* The top-level balloons that some visits are for.
TopsOf(T) == {k \in Tops(sheet) : VisitOf(k) \in T}

\* Once the visits of T are made: the balloons they were for have different
\* numbers below the next, which counts them.  With balloons of one category only,
\* every child also keeps the number of its parent.
Done(T) ==
    {a \in Numberings :
        /\ a.next = Cardinality(TopsOf(T)) + 1
        /\ \A k \in Tops(sheet) : VisitOf(k) \in T => a.sheet[k].number < a.next
        /\ \A k, l \in Tops(sheet) : k # l /\ VisitOf(k) \in T /\ VisitOf(l) \in T
              => a.sheet[k].number # a.sheet[l].number
        /\ OfOneCategory(sheet) /\ DistinctNow /\ WholeNow => Renames(sheet, a.sheet)}

\* Each visit is for balloons of its own.
LEMMA TopsOnce ==
    ASSUME TypeOK, NEW T, NEW v \in T
    PROVE  LET on == {k \in Tops(sheet) : VisitOf(k) = v}
           IN  /\ Cardinality(TopsOf(T \ {v})) \in Nat /\ Cardinality(on) \in Nat
               /\ Cardinality(TopsOf(T)) = Cardinality(TopsOf(T \ {v})) + Cardinality(on)
<1> DEFINE on == {k \in Tops(sheet) : VisitOf(k) = v}
           A == TopsOf(T \ {v})
<1>1. IsFiniteSet(on) /\ IsFiniteSet(A)
  <2>1. on \subseteq DOMAIN sheet /\ A \subseteq DOMAIN sheet
    BY DEF Tops, TopsOf
  <2> QED
    BY <2>1, SheetIs, FS_Subset
<1>2. TopsOf(T) = A \cup on /\ A \cap on = {}
  BY DEF TopsOf
<1> HIDE DEF on, A
<1>3. Cardinality(A) \in Nat /\ Cardinality(on) \in Nat /\ Cardinality(A \cap on) = 0
  BY <1>1, <1>2, FS_CardinalityType, FS_EmptySet
<1>4. Cardinality(A \cup on) = Cardinality(A) + Cardinality(on) - Cardinality(A \cap on)
  BY <1>1, FS_Union
<1>5. Cardinality(TopsOf(T)) = Cardinality(A) + Cardinality(on)
  BY <1>2, <1>3, <1>4
<1> QED
  BY <1>3, <1>5 DEF on, A

LEMMA VisitsFinite == IsFiniteSet(Visits)
<1> DEFINE f == [x \in Categories \X Pages |-> [group |-> x[1], page |-> x[2]]]
<1>1. f \in Surjection(Categories \X Pages, Visits)
  <2>1. f \in [Categories \X Pages -> Visits]
    BY DEF Visits
  <2>2. ASSUME NEW v \in Visits PROVE \E x \in Categories \X Pages : f[x] = v
    <3>1. /\ v.group \in Categories /\ v.page \in Pages
          /\ v = [group |-> v.group, page |-> v.page]
      BY DEF Visits
    <3>2. <<v.group, v.page>> \in Categories \X Pages
      BY <3>1
    <3>3. f[<<v.group, v.page>>] = v
      BY <3>1, <3>2
    <3> QED
      BY <3>2, <3>3
  <2> HIDE DEF f
  <2> QED
    BY <2>1, <2>2 DEF Surjection
<1>2. IsFiniteSet(Categories \X Pages)
  BY NumberingAssumption, FS_Product
<1> HIDE DEF f
<1> QED
  BY <1>1, <1>2, FS_Surjection

\* Of some visits one is the last: the last page of the last group.
LEMMA LastVisitIs ==
    ASSUME NEW T \in SUBSET Visits, T # {}
    PROVE  LastVisit(T) \in T
<1>1. IsFiniteSet(T)
  BY VisitsFinite, FS_Subset
<1>2. \A v \in T : v.group \in Nat /\ v.page \in Nat
  BY NumberingAssumption DEF Visits
<1> DEFINE f == [v \in T |-> -v.group]  g == [v \in T |-> -v.page]
<1>3. \A v \in T : /\ f[v] \in Int /\ f[v] = -v.group
                   /\ g[v] \in Int /\ g[v] = -v.page
  BY <1>2
<1> HIDE DEF f, g
<1>4. PICK x \in T : \A u \in T : f[x] <= f[u]
  BY <1>1, <1>3, LeastExists
<1> DEFINE R == {u \in T : u.group = x.group}
<1>5. IsFiniteSet(R) /\ R # {} /\ R \subseteq T
  BY <1>1, FS_Subset
<1>6. PICK y \in R : \A u \in R : g[y] <= g[u]
  <2> HIDE DEF R
  <2> QED
    BY <1>3, <1>5, LeastExists
<1>7. ASSUME NEW u \in T
      PROVE  u.group < y.group \/ (u.group = y.group /\ u.page <= y.page)
  <2>1. u.group <= x.group /\ y.group = x.group
    BY <1>2, <1>3, <1>4
  <2>2. CASE u.group = x.group
    <3>1. g[y] <= g[u] /\ y \in T
      BY <1>6, <2>2
    <3> QED
      BY <1>2, <1>3, <2>1, <2>2, <3>1
  <2>3. CASE u.group # x.group
    BY <1>2, <2>1, <2>3
  <2> QED
    BY <2>2, <2>3
<1>8. y \in T
  OBVIOUS
<1> QED
  BY <1>7, <1>8 DEF LastVisit

LEMMA NumberingIs ==
    ASSUME TypeOK, NEW a \in Numberings
    PROVE  /\ a.sheet \in Sheets /\ a.next \in Nat \ {0} /\ Alike(a.sheet)
           /\ DOMAIN a.sheet = DOMAIN sheet
           /\ \A k \in DOMAIN sheet : a.sheet[k] \in Balloon
           /\ Tops(a.sheet) = Tops(sheet) /\ Subs(a.sheet) = Subs(sheet)
<1>1. a.sheet \in Sheets /\ a.next \in Nat \ {0} /\ Alike(a.sheet)
  BY DEF Numberings
<1>2. DOMAIN a.sheet = DOMAIN sheet /\ \A k \in DOMAIN sheet : a.sheet[k] \in Balloon
  BY <1>1, SheetIs DEF Sheets
<1> QED
  BY <1>1, <1>2 DEF Alike, Tops, Subs

\* What a visit is for: the balloons of its group on its page, and with one
\* category all those on its page or none.
LEMMA OnVisit ==
    ASSUME TypeOK, NEW a \in Numberings, NEW v \in Visits
    PROVE  /\ On(a.sheet, v) \in SUBSET DOMAIN sheet
           /\ On(a.sheet, v) \cap Tops(a.sheet) = {k \in Tops(sheet) : VisitOf(k) = v}
           /\ OfOneCategory(sheet) =>
                 \/ On(a.sheet, v) = {k \in DOMAIN sheet : sheet[k].page = v.page}
                 \/ On(a.sheet, v) = {}
<1> DEFINE t == a.sheet
<1>1. /\ Tops(t) = Tops(sheet) /\ Tops(sheet) \subseteq DOMAIN sheet
      /\ \A k \in DOMAIN sheet : t[k].category = sheet[k].category
  BY NumberingIs DEF Alike, Tops
<1>2. v.group \in Categories /\ v.page \in Pages /\ v = [group |-> v.group, page |-> v.page]
  BY DEF Visits
<1>3. \A k \in Tops(sheet) : GroupOf(sheet, t, k) = sheet[k].category
  BY <1>1 DEF GroupOf
<1>4. \A k \in Tops(sheet) : VisitOf(k) = v <=> sheet[k].category = v.group /\ sheet[k].page = v.page
  BY <1>2 DEF VisitOf
<1> HIDE DEF t
<1>5. On(t, v) \cap Tops(t) = {k \in Tops(sheet) : VisitOf(k) = v}
  BY <1>1, <1>3, <1>4 DEF On
<1>6. ASSUME NEW k \in DOMAIN sheet
      PROVE  \E x \in DOMAIN sheet : GroupOf(sheet, t, k) = sheet[x].category
  <2> DEFINE parents == {p \in Tops(sheet) : sheet[p].page = t[k].page
                                             /\ sheet[p].number = t[k].number}
  <2>1. CASE k \in Tops(t) \/ parents = {}
    <3>1. GroupOf(sheet, t, k) = t[k].category
      BY <2>1 DEF GroupOf
    <3> QED
      BY <1>1, <3>1
  <2>2. CASE ~(k \in Tops(t) \/ parents = {})
    <3>1. GroupOf(sheet, t, k) = sheet[Max(parents)].category
      BY <2>2 DEF GroupOf
    <3>2. parents \subseteq DOMAIN sheet
      BY <1>1
    <3>3. IsFiniteSet(parents) /\ parents \subseteq Int
      <4> HIDE DEF parents
      <4>1. DOMAIN sheet \subseteq 1..drawn /\ drawn \in Nat /\ IsFiniteSet(DOMAIN sheet)
        BY SheetIs
      <4> QED
        BY <3>2, <4>1, FS_Subset
    <3>4. Max(parents) \in parents
      <4> HIDE DEF parents
      <4> QED
        BY <2>2, <3>3, MaxIs
    <3> HIDE DEF parents
    <3> QED
      BY <3>1, <3>2, <3>4
  <2> QED
    BY <2>1, <2>2
<1>7. ASSUME OfOneCategory(sheet)
      PROVE  \/ On(t, v) = {k \in DOMAIN sheet : sheet[k].page = v.page}
             \/ On(t, v) = {}
  <2>1. CASE \A k \in DOMAIN sheet : GroupOf(sheet, t, k) = v.group
    BY <2>1 DEF On
  <2>2. CASE \E k \in DOMAIN sheet : GroupOf(sheet, t, k) # v.group
    <3>1. \A k, l \in DOMAIN sheet : GroupOf(sheet, t, k) = GroupOf(sheet, t, l)
      BY <1>6, <1>7 DEF OfOneCategory
    <3>2. \A k \in DOMAIN sheet : GroupOf(sheet, t, k) # v.group
      BY <2>2, <3>1
    <3> QED
      BY <3>2 DEF On
  <2> QED
    BY <2>1, <2>2
<1> QED
  BY <1>5, <1>7 DEF On, t

\* A visit for nobody leaves the numbers alone.
LEMMA EmptyVisit ==
    ASSUME NEW D, NEW t, DOMAIN t = D, NEW u, Numbers(t, D, {}, u)
    PROVE  Renames(t, u)
<1>1. DOMAIN u = D /\ \A k \in D : u[k] = t[k]
  BY DEF Numbers
<1> QED
  BY <1>1 DEF Renames

\* With one category a visit renames its page: a family goes as one.
LEMMA VisitRenames ==
    ASSUME NEW D, NEW t, DOMAIN t = D, Distinct(t), Whole(t),
           NEW page, NEW on, on = {k \in D : t[k].page = page},
           NEW u, Numbers(t, D, on, u)
    PROVE  Renames(t, u)
<1>1. ASSUME NEW k \in on
      PROVE  \E p \in on \cap Tops(t) : t[p].number = t[k].number /\ u[k].number = u[p].number
  <2>1. k \in D /\ t[k].page = page
    OBVIOUS
  <2>2. \E p \in Tops(t) : t[p].page = page /\ t[p].number = t[k].number
    <3>1. CASE k \in Subs(t)
      BY <2>1, <3>1 DEF Whole, Parents
    <3>2. CASE k \notin Subs(t)
      BY <2>1, <3>2 DEF Subs, Tops
    <3> QED
      BY <3>1, <3>2
  <2>3. \E p \in on \cap Tops(t) : t[p].number = t[k].number
    BY <2>2 DEF Tops
  <2> QED
    BY <2>3 DEF Numbers
<1>2. ASSUME NEW k \in D, NEW l \in D, t[k].page = t[l].page
      PROVE  u[k].number = u[l].number <=> t[k].number = t[l].number
  <2>1. CASE t[k].page # page
    <3>1. k \notin on /\ l \notin on
      BY <1>2, <2>1
    <3> QED
      BY <3>1 DEF Numbers
  <2>2. CASE t[k].page = page
    <3>1. k \in on /\ l \in on
      BY <1>2, <2>2
    <3>2. PICK p \in on \cap Tops(t) : t[p].number = t[k].number /\ u[k].number = u[p].number
      BY <1>1, <3>1
    <3>3. PICK q \in on \cap Tops(t) : t[q].number = t[l].number /\ u[l].number = u[q].number
      BY <1>1, <3>1
    <3>4. t[p].page = t[q].page
      OBVIOUS
    <3>5. t[p].number = t[q].number => p = q
      BY <3>4 DEF Distinct
    <3>6. u[p].number = u[q].number => p = q
      BY DEF Numbers
    <3> QED
      BY <3>2, <3>3, <3>5, <3>6
  <2> QED
    BY <2>1, <2>2
<1> QED
  BY <1>2 DEF Renames, Numbers

LEMMA VisitKeeps ==
    ASSUME TypeOK, NEW order \in Bijection(Tops(sheet), 1..Cardinality(Tops(sheet))),
           NEW v \in Visits, NEW a \in Numberings
    PROVE  /\ Visited(v, a, order) \in Numberings
           /\ \A T \in SUBSET Visits :
                 v \in T /\ a \in Done(T \ {v}) => Visited(v, a, order) \in Done(T)
<1> DEFINE D    == DOMAIN sheet
           t    == a.sheet
           on   == On(t, v)
           tops == on \cap Tops(t)
           u    == ApplyNumbering(t, on, order, a.next)
           then == a.next + Cardinality(tops)
           b    == Visited(v, a, order)
<1>1. /\ IsFiniteSet(D) /\ a.next \in Nat \ {0} /\ Alike(t) /\ DOMAIN t = D
      /\ \A k \in D : t[k] \in Balloon
      /\ Tops(t) = Tops(sheet) /\ Tops(sheet) \subseteq D
  BY SheetIs, NumberingIs DEF Tops
<1>2. /\ on \in SUBSET D /\ tops = {k \in Tops(sheet) : VisitOf(k) = v}
      /\ OfOneCategory(sheet) => on = {k \in D : sheet[k].page = v.page} \/ on = {}
  BY OnVisit
<1>3. Orders(order, Tops(t))
  <2>1. /\ order \in [Tops(sheet) -> 1..Cardinality(Tops(sheet))]
        /\ \A k, l \in Tops(sheet) : order[k] = order[l] => k = l
    BY DEF Bijection, Injection, IsInjective
  <2>2. \A m \in 1..Cardinality(Tops(sheet)) : m \in Nat
    <3>1. IsFiniteSet(Tops(sheet))
      BY <1>1, FS_Subset
    <3>2. Cardinality(Tops(sheet)) \in Nat
      BY <3>1, FS_CardinalityType
    <3> QED
      BY <3>2
  <2> QED
    BY <1>1, <2>1, <2>2 DEF Orders
<1>4. b = [sheet |-> u, next |-> then]
  BY DEF Visited
<1>c. then = a.next + Cardinality(tops)
  OBVIOUS
<1> HIDE DEF b, t, on
<1>n. /\ Numbers(t, D, on, u) /\ then \in Nat \ {0} /\ a.next <= then
      /\ \A k \in tops : a.next <= u[k].number /\ u[k].number < then
  <2> DEFINE n == a.next
  <2>1. IsFiniteSet(D) /\ DOMAIN t = D /\ n \in Nat \ {0} /\ on \in SUBSET D
    BY <1>1, <1>2
  <2>2. \A k \in D : t[k] \in Balloon
    BY <1>1
  <2> HIDE DEF D, n
  <2> QED
    BY <1>3, <2>1, <2>2, VisitNumbers DEF n
<1>5. /\ u \in [D -> Balloon] /\ then \in Nat \ {0} /\ a.next <= then
      /\ \A k \in D : /\ u[k].page = t[k].page /\ u[k].sub = t[k].sub
                      /\ u[k].category = t[k].category
                      /\ k \notin on => u[k] = t[k]
      /\ \A k \in tops : a.next <= u[k].number /\ u[k].number < then
      /\ \A k, l \in tops : k # l => u[k].number # u[l].number
  <2> HIDE DEF u, then
  <2> QED
    BY <1>n DEF Numbers
<1> HIDE DEF u, then
<1>6. b.sheet = u /\ b.next = then
  BY <1>4
<1>7. b \in Numberings
  <2>1. Alike(u)
    BY <1>1, <1>5 DEF Alike
  <2>2. u \in Sheets
    BY <1>5 DEF Sheets
  <2> QED
    BY <1>4, <1>5, <1>6, <2>1, <2>2 DEF Numberings
<1>8. ASSUME NEW T \in SUBSET Visits, v \in T, a \in Done(T \ {v})
      PROVE  b \in Done(T)
  <2>1. /\ a.next = Cardinality(TopsOf(T \ {v})) + 1
        /\ \A k \in Tops(sheet) : VisitOf(k) \in T \ {v} => t[k].number < a.next
        /\ \A k, l \in Tops(sheet) :
              k # l /\ VisitOf(k) \in T \ {v} /\ VisitOf(l) \in T \ {v}
              => t[k].number # t[l].number
        /\ OfOneCategory(sheet) /\ DistinctNow /\ WholeNow => Renames(sheet, t)
    BY <1>8 DEF Done, t
  <2>c. then = Cardinality(TopsOf(T)) + 1
    <3> DEFINE on1 == {k \in Tops(sheet) : VisitOf(k) = v}
    <3>1. tops = on1
      BY <1>2
    <3>2. /\ Cardinality(TopsOf(T \ {v})) \in Nat /\ Cardinality(on1) \in Nat
          /\ Cardinality(TopsOf(T)) = Cardinality(TopsOf(T \ {v})) + Cardinality(on1)
      BY <1>8, TopsOnce
    <3> HIDE DEF on1
    <3>3. then = a.next + Cardinality(on1)
      BY <1>c, <3>1
    <3> QED
      BY <2>1, <3>2, <3>3
  <2>2. \A k \in Tops(sheet) : k \in D /\ t[k].number \in Nat /\ u[k].number \in Nat
    BY <1>1, <1>5 DEF Balloon
  <2>3. \A k \in Tops(sheet) : VisitOf(k) \in T /\ k \notin tops =>
           VisitOf(k) \in T \ {v} /\ u[k].number = t[k].number
    BY <1>1, <1>2, <1>5
  <2>4. ASSUME NEW k \in Tops(sheet), VisitOf(k) \in T
        PROVE  u[k].number < then
    <3>1. CASE k \in tops
      BY <1>5, <3>1
    <3>2. CASE k \notin tops
      <4>1. u[k].number = t[k].number /\ t[k].number < a.next
        BY <2>1, <2>3, <2>4, <3>2
      <4> QED
        BY <1>1, <1>5, <2>2, <4>1
    <3> QED
      BY <3>1, <3>2
  <2>5. ASSUME NEW k \in tops, NEW l \in Tops(sheet), VisitOf(l) \in T, l \notin tops
        PROVE  u[k].number # u[l].number
    <3>1. u[l].number = t[l].number /\ t[l].number < a.next
      BY <2>1, <2>3, <2>5
    <3>2. a.next <= u[k].number /\ k \in Tops(sheet)
      BY <1>1, <1>5
    <3> QED
      BY <1>1, <2>2, <3>1, <3>2
  <2>6. ASSUME NEW k \in Tops(sheet), NEW l \in Tops(sheet), k # l,
               VisitOf(k) \in T, VisitOf(l) \in T
        PROVE  u[k].number # u[l].number
    <3>1. CASE k \in tops /\ l \in tops
      BY <1>5, <2>6, <3>1
    <3>2. CASE k \in tops /\ l \notin tops
      BY <2>5, <2>6, <3>2
    <3>3. CASE k \notin tops /\ l \in tops
      BY <2>5, <2>6, <3>3
    <3>4. CASE k \notin tops /\ l \notin tops
      BY <2>1, <2>3, <2>6, <3>4
    <3> QED
      BY <3>1, <3>2, <3>3, <3>4
  <2>7. ASSUME OfOneCategory(sheet), DistinctNow, WholeNow
        PROVE  Renames(sheet, u)
    <3>1. Renames(sheet, t)
      BY <2>1, <2>7
    <3>2. Distinct(t) /\ Whole(t)
      BY <2>7, <3>1, Renamed DEF DistinctNow, WholeNow
    <3>3. on = {k \in D : t[k].page = v.page} \/ on = {}
      BY <1>1, <1>2, <2>7 DEF Alike
    <3>4. DOMAIN t = D
      BY <1>1
    <3>5. Renames(t, u)
      <4> DEFINE page == v.page
      <4> HIDE DEF D, page, u
      <4>1. on = {k \in D : t[k].page = page} \/ on = {}
        BY <3>3 DEF page
      <4>2. CASE on = {}
        BY <1>n, <3>4, <4>2, EmptyVisit
      <4>3. CASE on = {k \in D : t[k].page = page}
        BY <1>n, <3>2, <3>4, <4>3, VisitRenames
      <4> QED
        BY <4>1, <4>2, <4>3
    <3> QED
      BY <3>1, <3>5, RenamesTwice
  <2> QED
    BY <1>6, <1>7, <2>4, <2>6, <2>7, <2>c DEF Done
<1> QED
  BY <1>7, <1>8 DEF b

LEMMA RenumberKeeps ==
    ASSUME TypeOK,
           NEW order \in Bijection(Tops(sheet), 1..Cardinality(Tops(sheet))), Renumber(order)
    PROVE  /\ TypeOK' /\ DistinctNow' /\ Through(sheet')
           /\ OfOneCategory(sheet) /\ DistinctNow /\ WholeNow => Renames(sheet, sheet')
<1> DEFINE number(v, done) ==
               LET on == {i \in DOMAIN sheet : sheet[i].page = v.page
                                               /\ GroupOf(sheet, done.sheet, i) = v.group}
               IN  [sheet |-> ApplyNumbering(done.sheet, on, order, done.next),
                    next  |-> done.next + Cardinality(on \cap Tops(done.sheet))]
           base == [sheet |-> sheet, next |-> 1]
           step == [x \in Visits \X Numberings |-> Visited(x[1], x[2], order)]
           pick == [T \in SUBSET Visits |-> LastVisit(T)]
           I    == [T \in SUBSET Visits |-> Done(T)]
           F(f) == f = [T \in SUBSET Visits |->
                           IF T = {} THEN base ELSE number(LastVisit(T), f[T \ {LastVisit(T)}])]
           it   == CHOOSE f : F(f)
<1>1. sheet' = it[Visits].sheet /\ drawn' = drawn /\ script' = script
  BY DEF Renumber, MapThenFoldSet, Visits
<1>2. \A v, a : number(v, a) = Visited(v, a, order)
  BY DEF Visited, On
<1> HIDE DEF number
<1>3. base \in Numberings /\ base \in Done({})
  <2>1. base.sheet = sheet /\ base.next = 1
    OBVIOUS
  <2>2. base \in Numberings
    BY <2>1 DEF Numberings, Sheets, Alike
  <2>3. Cardinality(TopsOf({})) = 0
    <3>1. TopsOf({}) = {}
      BY DEF TopsOf
    <3> QED
      BY <3>1, FS_EmptySet
  <2> HIDE DEF base
  <2> QED
    BY <2>1, <2>2, <2>3, RenamesItself DEF Done
<1>4. step \in [Visits \X Numberings -> Numberings]
  BY VisitKeeps
<1>5. \A T \in SUBSET Visits : T # {} =>
         LastVisit(T) \in T /\ LastVisit(T) \in Visits /\ pick[T] = LastVisit(T)
  BY LastVisitIs
<1>6. Picks(pick, Visits)
  BY <1>5 DEF Picks
<1>7. IsFiniteSet(Visits)
  BY VisitsFinite
<1> HIDE DEF base
<1>8. PICK g \in [SUBSET Visits -> Numberings] : FoldsAll(g, Visits, base, step, pick)
  <2> HIDE DEF step, pick
  <2> QED
    BY <1>3, <1>4, <1>6, <1>7, FoldExists
<1>9. F(g)
  <2>1. ASSUME NEW T \in SUBSET Visits, T # {}
        PROVE  step[<<pick[T], g[T \ {pick[T]}]>>] = number(LastVisit(T), g[T \ {LastVisit(T)}])
    BY <1>2, <1>5, <2>1
  <2>2. \A T \in SUBSET Visits :
           g[T] = IF T = {} THEN base ELSE number(LastVisit(T), g[T \ {LastVisit(T)}])
    BY <1>8, <2>1 DEF FoldsAll
  <2> QED
    BY <2>2
<1>10. F(it)
  <2> HIDE DEF F
  <2> QED
    BY <1>9
<1> HIDE DEF it
<1>11. it[Visits] \in Done(Visits)
  <2>1. I \in [SUBSET Visits -> SUBSET Numberings]
    BY DEF Done
  <2>2. it[{}] \in I[{}]
    BY <1>3, <1>10
  <2>3. Follows(it, Visits, Numberings, step, pick)
    BY <1>2, <1>5, <1>10 DEF Follows
  <2>4. Carries(I, Visits, step, pick)
    <3> SUFFICES ASSUME NEW T \in SUBSET Visits, T # {},
                        NEW a \in Done(T \ {LastVisit(T)})
                 PROVE  step[<<pick[T], a>>] \in Done(T)
      BY <1>5 DEF Carries
    <3>1. a \in Numberings /\ LastVisit(T) \in T /\ LastVisit(T) \in Visits
      BY <1>5 DEF Done
    <3>2. Visited(LastVisit(T), a, order) \in Done(T)
      BY <3>1, VisitKeeps
    <3>3. step[<<pick[T], a>>] = Visited(LastVisit(T), a, order)
      BY <1>5, <3>1
    <3> QED
      BY <3>2, <3>3
  <2>5. I[Visits] = Done(Visits)
    OBVIOUS
  <2> HIDE DEF I, step, pick
  <2>6. \A T \in SUBSET Visits : it[T] \in I[T]
    BY <1>4, <1>6, <1>7, <2>1, <2>2, <2>3, <2>4, FoldStays
  <2> QED
    BY <2>5, <2>6
<1>12. PICK a \in Done(Visits) : sheet' = a.sheet
  BY <1>1, <1>11
<1>13. a \in Numberings
  BY DEF Done
<1>14. /\ DOMAIN sheet' = DOMAIN sheet /\ Tops(sheet') = Tops(sheet)
       /\ \A k \in DOMAIN sheet : sheet'[k] \in Balloon
  BY <1>12, <1>13, NumberingIs
<1>15. TypeOK'
  BY <1>1, <1>14 DEF TypeOK, IsSheet
<1>16. \A k \in Tops(sheet) : VisitOf(k) \in Visits
  BY SheetIs DEF Tops, VisitOf, Visits
<1>17. DistinctNow'
  BY <1>12, <1>14, <1>16 DEF Done, DistinctNow, Distinct
<1>18. OfOneCategory(sheet) /\ DistinctNow /\ WholeNow => Renames(sheet, sheet')
  BY <1>12 DEF Done
<1>19. Through(sheet')
  <2> DEFINE ids == Tops(sheet)
  <2>1. ids \subseteq DOMAIN sheet /\ IsFiniteSet(ids)
    <3>1. ids \subseteq DOMAIN sheet
      BY DEF Tops
    <3> HIDE DEF ids
    <3> QED
      BY <3>1, SheetIs, FS_Subset
  <2>2. TopsOf(Visits) = ids
    BY <1>16 DEF TopsOf
  <2>3. /\ \A k \in ids : sheet'[k].number < a.next
        /\ \A k, l \in ids : k # l => sheet'[k].number # sheet'[l].number
        /\ a.next = Cardinality(ids) + 1
    BY <1>12, <1>16, <2>2 DEF Done
  <2>4. Tops(sheet') = ids
    BY <1>14
  <2>5. \A k \in ids : sheet'[k].number \in Nat \ {0}
    BY <1>14, <2>1 DEF Balloon
  <2> HIDE DEF ids
  <2>6. Cardinality(ids) \in Nat
    BY <2>1, FS_CardinalityType
  <2>7. \A k \in ids : sheet'[k].number \in 1..Cardinality(ids)
    BY <2>3, <2>5, <2>6
  <2>8. Injects(sheet', ids)
    BY <2>3 DEF Injects
  <2>9. Numbered(sheet', ids)
    BY <2>1, <2>7, <2>8, NumberedAll
  <2> QED
    BY <2>4, <2>9 DEF Through
<1> QED
  BY <1>15, <1>17, <1>18, <1>19

-----------------------------------------------------------------------------
(* The script that numbers drawings through. *)

LEMMA HighestIs ==
    ASSUME NEW s, IsFiniteSet(DOMAIN s), \A i \in DOMAIN s : s[i].number \in Nat, NEW page
    PROVE  HighestOn(s, page) \in Nat
<1> DEFINE ids == {i \in DOMAIN s : s[i].page = page}
           N   == {s[i].number : i \in ids}
           f   == [i \in ids |-> s[i].number]
<1>1. IsFiniteSet(ids)
  BY FS_Subset
<1>2. f \in Surjection(ids, N)
  BY DEF Surjection
<1>3. N \in SUBSET Nat
  OBVIOUS
<1>4. HighestOn(s, page) = Max({0} \cup N)
  BY DEF HighestOn
<1> HIDE DEF N, f, ids
<1>5. IsFiniteSet(N)
  BY <1>1, <1>2, FS_Surjection
<1>6. IsFiniteSet({0} \cup N)
  BY <1>5, FS_Singleton, FS_Union, Zenon
<1> DEFINE M == {0} \cup N
<1>7. M \subseteq Nat /\ M \subseteq Int /\ M # {} /\ IsFiniteSet(M)
  BY <1>3, <1>6
<1> HIDE DEF M
<1>8. Max(M) \in M
  BY <1>7, MaxIs
<1> QED
  BY <1>4, <1>7, <1>8 DEF M

\* How far a page is shifted: what the highest numbers of the pages before it
\* carry over, one by one.
Before(page) == {q \in Pages : q < page}

LEMMA OffsetFold ==
    ASSUME NEW s, IsFiniteSet(DOMAIN s), \A i \in DOMAIN s : s[i].number \in Nat, NEW page,
           NEW I \in [SUBSET Before(page) -> SUBSET Nat], 0 \in I[{}],
           \A T \in SUBSET Before(page) : \A q \in T :
              \A a \in I[T \ {q}] : HighestOn(s, q) + a \in I[T]
    PROVE  Offset(s, page) \in I[Before(page)]
<1> DEFINE S    == Before(page)
           step == [x \in S \X Nat |-> HighestOn(s, x[1]) + x[2]]
           one(T) == CHOOSE x \in T : TRUE
           pick == [T \in SUBSET S |-> one(T)]
           F(f) == f = [T \in SUBSET S |->
                           IF T = {} THEN 0 ELSE HighestOn(s, one(T)) + f[T \ {one(T)}]]
           it   == CHOOSE f : F(f)
<1>1. Offset(s, page) = it[S]
  BY DEF Offset, MapThenSumSet, MapThenFoldSet, Before
<1>2. IsFiniteSet(S)
  BY NumberingAssumption, FS_Subset DEF Before
<1>3. \A q : HighestOn(s, q) \in Nat
  BY HighestIs
<1>4. step \in [S \X Nat -> Nat]
  BY <1>3
<1>5. \A T \in SUBSET S : T # {} => one(T) \in T /\ one(T) \in S /\ pick[T] = one(T)
  OBVIOUS
<1> HIDE DEF one
<1>6. Picks(pick, S)
  BY <1>5 DEF Picks
<1>7. PICK g \in [SUBSET S -> Nat] : FoldsAll(g, S, 0, step, pick)
  <2> HIDE DEF step, pick, S
  <2> QED
    BY <1>2, <1>4, <1>6, FoldExists
<1>8. F(g)
  <2>1. \A T \in SUBSET S :
           g[T] = IF T = {} THEN 0 ELSE HighestOn(s, one(T)) + g[T \ {one(T)}]
    BY <1>5, <1>7 DEF FoldsAll
  <2> QED
    BY <2>1
<1>9. F(it)
  <2> HIDE DEF F
  <2> QED
    BY <1>8
<1> HIDE DEF it
<1>10. it[S] \in I[S]
  <2>1. I \in [SUBSET S -> SUBSET Nat]
    OBVIOUS
  <2>2. it[{}] \in I[{}]
    BY <1>9
  <2>3. Follows(it, S, Nat, step, pick)
    BY <1>5, <1>9 DEF Follows
  <2>4. Carries(I, S, step, pick)
    <3>1. ASSUME NEW T \in SUBSET S, T # {}, NEW a \in I[T \ {one(T)}]
          PROVE  step[<<pick[T], a>>] \in I[T]
      <4>1. one(T) \in T /\ pick[T] = one(T) /\ one(T) \in S
        BY <1>5, <3>1
      <4>2. a \in Nat /\ HighestOn(s, one(T)) + a \in I[T]
        BY <3>1, <4>1
      <4>3. step[<<one(T), a>>] = HighestOn(s, one(T)) + a
        BY <4>1, <4>2
      <4> HIDE DEF step, pick
      <4> QED
        BY <4>1, <4>2, <4>3
    <3>2. \A T \in SUBSET S : T # {} => pick[T] = one(T)
      BY <1>5
    <3> HIDE DEF step, pick, S
    <3> QED
      BY <3>1, <3>2 DEF Carries
  <2> HIDE DEF step, pick, S
  <2>5. \A T \in SUBSET S : it[T] \in I[T]
    BY <1>2, <1>4, <1>6, <2>1, <2>2, <2>3, <2>4, FoldStays
  <2> QED
    BY <2>5
<1> QED
  BY <1>1, <1>10

\* It is a number.
LEMMA OffsetIs ==
    ASSUME NEW s, IsFiniteSet(DOMAIN s), \A i \in DOMAIN s : s[i].number \in Nat, NEW page
    PROVE  Offset(s, page) \in Nat
<1> DEFINE I == [T \in SUBSET Before(page) |-> Nat]
<1>1. I \in [SUBSET Before(page) -> SUBSET Nat] /\ I[Before(page)] = Nat /\ 0 \in I[{}]
  OBVIOUS
<1>2. \A T \in SUBSET Before(page) : \A q \in T :
         \A a \in I[T \ {q}] : HighestOn(s, q) + a \in I[T]
  <2>1. \A q : HighestOn(s, q) \in Nat
    BY HighestIs
  <2> QED
    BY <2>1
<1> HIDE DEF I
<1> QED
  BY <1>1, <1>2, OffsetFold

\* Nothing was edited since the script read the sheet.
ScriptFresh == script # NotRunning => script.sheet = sheet

LEMMA ScriptIs == ASSUME TypeOK, script # NotRunning PROVE IsSheet(script.sheet)
BY DEF TypeOK

LEMMA ScriptWrites ==
    ASSUME TypeOK, ScriptWrite
    PROVE  /\ TypeOK'
           /\ ScriptFresh =>
                 /\ Renames(sheet, sheet')
                 /\ \A k \in DOMAIN sheet :
                       sheet'[k].number = sheet[k].number + Offset(sheet, sheet[k].page)
<1> DEFINE s == script.sheet
           offset(i) == Offset(s, s[i].page)
           hit(i) == i \in DOMAIN s /\ BalloonNo(sheet[i]) = BalloonNo(s[i])
<1>1. /\ IsSheet(s) /\ script # NotRunning
      /\ drawn' = drawn /\ script' = NotRunning
      /\ sheet' = [i \in DOMAIN sheet |->
                      IF hit(i) THEN [sheet[i] EXCEPT !.number = sheet[i].number + offset(i)]
                      ELSE sheet[i]]
  BY DEF ScriptWrite, TypeOK
<1>2. \A k \in DOMAIN sheet : sheet[k] \in Balloon /\ sheet[k].number \in Nat \ {0}
  BY SheetIs
<1>3. \A i : offset(i) \in Nat
  <2>1. DOMAIN s \subseteq 1..drawn /\ drawn \in Nat /\ \A i \in DOMAIN s : s[i].number \in Nat
    BY <1>1, SheetIs DEF IsSheet, Balloon
  <2>2. IsFiniteSet(DOMAIN s)
    <3>1. IsFiniteSet(1..drawn)
      BY <2>1, FS_Interval
    <3> HIDE DEF s
    <3> QED
      BY <2>1, <3>1, FS_Subset
  <2> HIDE DEF s
  <2> QED
    BY <2>1, <2>2, OffsetIs
<1> HIDE DEF s, offset, hit
<1>4. ASSUME NEW k \in DOMAIN sheet
      PROVE  /\ sheet'[k] \in Balloon
             /\ sheet'[k].page = sheet[k].page /\ sheet'[k].sub = sheet[k].sub
             /\ hit(k) => sheet'[k].number = sheet[k].number + offset(k)
  <2>1. CASE hit(k)
    <3> DEFINE n == sheet[k].number + offset(k)
    <3>1. n \in Nat \ {0}
      BY <1>2, <1>3
    <3>2. sheet'[k] = [sheet[k] EXCEPT !.number = n]
      BY <1>1, <2>1
    <3>3. n = sheet[k].number + offset(k)
      OBVIOUS
    <3> HIDE DEF n
    <3> QED
      BY <1>2, <3>1, <3>2, <3>3 DEF Balloon
  <2>2. CASE ~hit(k)
    BY <1>1, <1>2, <2>2
  <2> QED
    BY <2>1, <2>2
<1>5. TypeOK'
  BY <1>1, <1>4 DEF TypeOK, IsSheet
<1>6. ASSUME ScriptFresh
      PROVE  /\ Renames(sheet, sheet')
             /\ \A k \in DOMAIN sheet :
                   sheet'[k].number = sheet[k].number + Offset(sheet, sheet[k].page)
  <2>1. s = sheet
    BY <1>1, <1>6 DEF ScriptFresh, s
  <2>2. \A k \in DOMAIN sheet : hit(k)
    BY <2>1 DEF hit
  <2>3. ASSUME NEW k \in DOMAIN sheet, NEW l \in DOMAIN sheet, sheet[k].page = sheet[l].page
        PROVE  sheet'[k].number = sheet'[l].number <=> sheet[k].number = sheet[l].number
    <3>1. offset(k) = offset(l)
      BY <2>1, <2>3 DEF offset
    <3>2. /\ sheet'[k].number = sheet[k].number + offset(k)
          /\ sheet'[l].number = sheet[l].number + offset(k)
      BY <1>4, <2>2, <3>1
    <3>3. sheet[k].number \in Nat /\ sheet[l].number \in Nat /\ offset(k) \in Nat
      BY <1>2, <1>3
    <3> QED
      BY <3>2, <3>3
  <2>4. DOMAIN sheet' = DOMAIN sheet
    BY <1>1
  <2>5. Renames(sheet, sheet')
    BY <1>4, <2>3, <2>4 DEF Renames
  <2>6. \A k \in DOMAIN sheet :
           sheet'[k].number = sheet[k].number + Offset(sheet, sheet[k].page)
    BY <1>4, <2>1, <2>2 DEF offset
  <2> QED
    BY <2>5, <2>6
<1> QED
  BY <1>5, <1>6
-----------------------------------------------------------------------------
(* A drawing that recognition has numbered. *)

LEMMA RecognitionIs ==
    ASSUME Init
    PROVE  TypeOK /\ DistinctNow /\ WholeNow /\ ScriptFresh
<1>1. PICK k \in 0..Recognised, start \in Starts :
         \E pageOf \in [1..k -> Pages], categoryOf \in [1..k -> Categories] :
            sheet = Recognition(k, pageOf, categoryOf, start) /\ drawn = k
  BY DEF Init
<1>2. PICK pageOf \in [1..k -> Pages], categoryOf \in [1..k -> Categories] :
         sheet = Recognition(k, pageOf, categoryOf, start) /\ drawn = k
  BY <1>1
<1> DEFINE before(i) == {j \in 1..k : \/ pageOf[j] = pageOf[i] /\ j <= i
                                      \/ start = "through" /\ pageOf[j] < pageOf[i]}
           number(i) == Cardinality(before(i))
<1>3. sheet = [i \in 1..k |-> [page |-> pageOf[i], sub |-> 0, category |-> categoryOf[i],
                               number |-> number(i)]]
  BY <1>2 DEF Recognition
<1> HIDE DEF before, number
<1>4. k \in Nat /\ k <= MaxBalloons /\ \A i \in 1..k : pageOf[i] \in Nat
  <2>1. k \in Nat /\ k <= MaxBalloons
    BY <1>1, NumberingAssumption
  <2>2. \A i \in 1..k : pageOf[i] \in Pages
    BY <1>2
  <2> QED
    BY <2>1, <2>2, NumberingAssumption
<1> USE DEF before, number
<1>5. \A i \in 1..k : IsFiniteSet(before(i)) /\ i \in before(i)
  <2>1. IsFiniteSet(1..k)
    BY <1>4, FS_Interval
  <2> QED
    BY <1>4, <2>1, FS_Subset
<1>6. ASSUME NEW i \in 1..k PROVE number(i) \in Nat \ {0}
  <2> HIDE DEF before
  <2>1. before(i) # {} /\ IsFiniteSet(before(i))
    BY <1>5
  <2>2. number(i) \in Nat /\ number(i) # 0
    BY <2>1, FS_CardinalityType, FS_EmptySet
  <2> HIDE DEF number
  <2> QED
    BY <2>2
<1>7. ASSUME NEW i \in 1..k, NEW j \in 1..k, pageOf[i] = pageOf[j], i < j
      PROVE  number(i) # number(j)
  <2>1. before(i) \in SUBSET before(j) /\ j \in before(j) /\ j \notin before(i)
    BY <1>4, <1>7
  <2>2. IsFiniteSet(before(j))
    BY <1>5
  <2> HIDE DEF before
  <2>3. Cardinality(before(i)) \in Nat /\ Cardinality(before(j)) \in Nat
        /\ Cardinality(before(i)) < Cardinality(before(j))
    BY <2>1, <2>2, FewerMembers
  <2> QED
    BY <2>3
<1> HIDE DEF number
<1>8. DOMAIN sheet = 1..k
  BY <1>3
<1>9. \A i \in 1..k : /\ sheet[i] \in Balloon /\ sheet[i].page = pageOf[i]
                      /\ sheet[i].sub = 0 /\ sheet[i].number = number(i)
  BY <1>3, <1>6 DEF Balloon
<1>10. Tops(sheet) = 1..k /\ Subs(sheet) = {}
  BY <1>8, <1>9 DEF Tops, Subs
<1>11. script = NotRunning /\ drawn = k
  BY <1>2 DEF Init
<1>12. TypeOK
  BY <1>4, <1>8, <1>9, <1>11 DEF TypeOK, IsSheet
<1>13. DistinctNow
  <2> SUFFICES ASSUME NEW i \in 1..k, NEW j \in 1..k, i # j, pageOf[i] = pageOf[j]
               PROVE  number(i) # number(j)
    BY <1>9, <1>10 DEF DistinctNow, Distinct
  <2>1. i < j \/ j < i
    BY <1>4
  <2> QED
    BY <1>7, <2>1
<1>14. WholeNow
  <2>1. \A p \in Tops(sheet) : Children(sheet, sheet[p].number, SamePage(sheet, p)) = {}
    BY <1>10 DEF Children
  <2>2. Cardinality({}) = 0
    BY FS_EmptySet
  <2>3. ASSUME NEW p \in Tops(sheet)
        PROVE  LET family == Children(sheet, sheet[p].number, SamePage(sheet, p))
               IN  {sheet[i].sub : i \in family} = 1..Cardinality(family)
    <3> DEFINE family == Children(sheet, sheet[p].number, SamePage(sheet, p))
    <3>1. family = {}
      BY <2>1
    <3> HIDE DEF family
    <3>2. {sheet[i].sub : i \in family} = {} /\ 1..Cardinality(family) = {}
      BY <2>2, <3>1
    <3>3. {sheet[i].sub : i \in family} = 1..Cardinality(family)
      BY <3>2
    <3> QED
      BY <3>3 DEF family
  <2> QED
    BY <1>10, <2>3 DEF WholeNow, Whole
<1> QED
  BY <1>11, <1>12, <1>13, <1>14 DEF ScriptFresh

-----------------------------------------------------------------------------
(* The numbers of a page stay distinct. *)

\* The script runs over a drawing that nobody edits meanwhile.
NoEditsDuringScript == ~EditsDuringScript

LEMMA PlacingKeeps ==
    ASSUME TypeOK, Placing
    PROVE  /\ TypeOK' /\ script' = script
           /\ DistinctNow => DistinctNow'
<1>1. CASE \E page \in Pages, category \in Categories : Add(page, category)
  BY <1>1, AddKeeps DEF Add
<1>2. CASE \E removed \in SUBSET DOMAIN sheet : Delete(removed)
  BY <1>2, DeleteKeeps DEF Delete
<1>3. CASE \E i \in DOMAIN sheet, target \in 0..(MaxNumber + 1) : Move(i, target)
  <2>1. PICK i \in DOMAIN sheet, target \in 0..(MaxNumber + 1) : Move(i, target)
    BY <1>3
  <2>2. target \in Int
    BY NumberingAssumption
  <2> QED
    BY <2>1, <2>2, MoveTyped, MovesKeepFamilies DEF Move
<1>4. CASE \E i \in DOMAIN sheet : RestoreNormalNumber(i)
  BY <1>4, RestoreKeeps DEF RestoreNormalNumber
<1> QED
  BY <1>1, <1>2, <1>3, <1>4 DEF Placing

\* One field of one balloon is set.
LEMMA FieldSet ==
    ASSUME TypeOK, NEW i \in DOMAIN sheet, NEW b \in Balloon,
           sheet' = [sheet EXCEPT ![i] = b], UNCHANGED <<drawn, script>>
    PROVE  TypeOK'
BY DEF TypeOK, IsSheet

\* Balloons are left as they are, or taken away.
LEMMA OnlyRemoved ==
    ASSUME TypeOK, NEW K \in SUBSET DOMAIN sheet,
           sheet' = Restrict(sheet, K), UNCHANGED <<drawn, script>>
    PROVE  TypeOK' /\ (DistinctNow => DistinctNow')
<1>1. DOMAIN sheet' = K /\ \A k \in K : sheet'[k] = sheet[k]
  BY DEF Restrict
<1>2. TypeOK'
  BY <1>1 DEF TypeOK, IsSheet
<1>3. Tops(sheet') \subseteq Tops(sheet)
  BY <1>1 DEF Tops
<1>4. \A k \in Tops(sheet') : sheet'[k] = sheet[k]
  BY <1>1 DEF Tops
<1> QED
  BY <1>2, <1>3, <1>4, StillDistinct DEF DistinctNow

LEMMA ByHandKeeps ==
    ASSUME TypeOK, ByHand
    PROVE  /\ TypeOK' /\ script' = script
           /\ DistinctNow /\ ~DistinctNow' => Typing
<1>1. CASE Typing
  <2>1. PICK i \in DOMAIN sheet, n \in 0..MaxSub : TypeSubNumber(i, n)
    BY <1>1 DEF Typing
  <2> DEFINE b == [sheet[i] EXCEPT !.sub = n]
  <2>2. b \in Balloon /\ sheet' = [sheet EXCEPT ![i] = b]
    BY <2>1, SheetIs, NumberingAssumption DEF TypeSubNumber, Balloon
  <2>3. UNCHANGED <<drawn, script>>
    BY <2>1 DEF TypeSubNumber
  <2> HIDE DEF b
  <2> QED
    BY <1>1, <2>2, <2>3, FieldSet
<1>2. CASE \E doomed \in SUBSET DOMAIN sheet : FilterRemove(doomed)
  <2>1. PICK doomed \in SUBSET DOMAIN sheet : FilterRemove(doomed)
    BY <1>2
  <2>2. DOMAIN sheet \ doomed \in SUBSET DOMAIN sheet
    OBVIOUS
  <2> QED
    BY <2>1, <2>2, OnlyRemoved DEF FilterRemove
<1>3. CASE \E cleared \in {{page} : page \in Pages} \cup {Pages} : ClearPage(cleared)
  <2>1. PICK cleared : ClearPage(cleared)
    BY <1>3
  <2>2. {i \in DOMAIN sheet : sheet[i].page \notin cleared} \in SUBSET DOMAIN sheet
    OBVIOUS
  <2> QED
    BY <2>1, <2>2, OnlyRemoved DEF ClearPage
<1>4. CASE \E i \in DOMAIN sheet, category \in Categories : SetCategory(i, category)
  <2>1. PICK i \in DOMAIN sheet, category \in Categories : SetCategory(i, category)
    BY <1>4
  <2> DEFINE b == [sheet[i] EXCEPT !.category = category]
  <2>2. b \in Balloon /\ sheet' = [sheet EXCEPT ![i] = b]
    BY <2>1, SheetIs DEF SetCategory, Balloon
  <2>3. b.sub = sheet[i].sub /\ b.page = sheet[i].page /\ b.number = sheet[i].number
    BY SheetIs DEF Balloon
  <2>4. UNCHANGED <<drawn, script>>
    BY <2>1 DEF SetCategory
  <2> HIDE DEF b
  <2>5. \A k \in DOMAIN sheet : /\ sheet'[k].sub = sheet[k].sub
                                /\ sheet'[k].page = sheet[k].page
                                /\ sheet'[k].number = sheet[k].number
    BY <2>2, <2>3
  <2>6. Renames(sheet, sheet')
    BY <2>2, <2>5 DEF Renames
  <2> QED
    BY <2>2, <2>4, <2>6, FieldSet, Renamed DEF DistinctNow
<1> QED
  BY <1>1, <1>2, <1>3, <1>4 DEF ByHand

LEMMA EditsKeep ==
    ASSUME TypeOK, Edit
    PROVE  /\ TypeOK' /\ script' = script
           /\ DistinctNow /\ ~DistinctNow' => Typing
<1>1. CASE Placing
  BY <1>1, PlacingKeeps
<1>2. CASE Hanging
  BY <1>2, SubNumberKeeps DEF Hanging, SubNumber
<1>3. CASE Renumbering
  BY <1>3, RenumberKeeps DEF Renumbering, Renumber
<1>4. CASE ByHand
  BY <1>4, ByHandKeeps
<1> QED
  BY <1>1, <1>2, <1>3, <1>4 DEF Edit

LEMMA ScriptReads ==
    ASSUME TypeOK, ScriptRead
    PROVE  /\ TypeOK' /\ ScriptFresh'
           /\ sheet' = sheet
BY DEF TypeOK, ScriptRead, ScriptFresh, IsSheet

(***************************************************************************)
(* A sheet only ever holds balloons that were drawn, with numbers from 1   *)
(* and sub-numbers from 0, and so does the sheet the script has read:      *)
(* closing gaps, moving and clamping never leave a number below 1.         *)
(***************************************************************************)
THEOREM NumberingTypeCorrect == Spec => []TypeOK
<1>1. Init => TypeOK
  BY RecognitionIs
<1>2. TypeOK /\ [Next]_vars => TypeOK'
  <2> SUFFICES ASSUME TypeOK, [Next]_vars PROVE TypeOK'
    OBVIOUS
  <2>1. CASE Edit
    BY <2>1, EditsKeep
  <2>2. CASE ScriptRead
    BY <2>2, ScriptReads
  <2>3. CASE ScriptWrite
    BY <2>3, ScriptWrites
  <2>4. CASE UNCHANGED vars
    BY <2>4 DEF vars, TypeOK, IsSheet
  <2> QED
    BY <2>1, <2>2, <2>3, <2>4 DEF Next, Scripted
<1> QED
  BY <1>1, <1>2, PTL DEF Spec

\* The sheet the script writes to is the one it read.
FreshInv == TypeOK /\ ScriptFresh

LEMMA FreshInvariance ==
    ASSUME NoEditsDuringScript PROVE Spec => []FreshInv
<1>1. Init => FreshInv
  BY RecognitionIs DEF FreshInv
<1>2. FreshInv /\ [Next]_vars => FreshInv'
  <2> SUFFICES ASSUME FreshInv, [Next]_vars PROVE FreshInv'
    OBVIOUS
  <2>1. CASE Edit /\ script = NotRunning
    BY <2>1, EditsKeep DEF FreshInv, ScriptFresh
  <2>2. CASE ScriptRead
    BY <2>2, ScriptReads DEF FreshInv
  <2>3. CASE ScriptWrite
    <3>1. TypeOK'
      BY <2>3, ScriptWrites DEF FreshInv
    <3>2. ScriptFresh'
      BY <2>3 DEF ScriptWrite, ScriptFresh
    <3> QED
      BY <3>1, <3>2 DEF FreshInv
  <2>4. CASE UNCHANGED vars
    BY <2>4 DEF vars, FreshInv, TypeOK, IsSheet, ScriptFresh
  <2> QED
    BY <2>1, <2>2, <2>3, <2>4 DEF Next, Scripted, NoEditsDuringScript
<1> QED
  BY <1>1, <1>2, PTL DEF Spec

\* The script's read and write keep numbers, and families, apart.
LEMMA ScriptKeeps ==
    ASSUME FreshInv, Scripted \/ UNCHANGED vars
    PROVE  Renames(sheet, sheet')
BY ScriptReads, ScriptWrites, RenamesItself DEF FreshInv, Scripted, vars

(***************************************************************************)
(* Only a typed sub-number gives two top-level balloons of a page one      *)
(* number: no drawing, delete, move, hanging, renumbering by any           *)
(* categories, removal or write of the script does, for any pages,         *)
(* categories and number of balloons, and whatever gaps, orphans and holes *)
(* the sheet has.                                                          *)
(***************************************************************************)
THEOREM NumbersStayDistinct ==
    ASSUME NoEditsDuringScript PROVE Spec => NumbersDistinct
<1>1. FreshInv /\ [Next]_vars => [Distinct(sheet) /\ ~Distinct(sheet') => Typing]_vars
  <2> SUFFICES ASSUME FreshInv, Next, Distinct(sheet), ~Distinct(sheet') PROVE Typing
    OBVIOUS
  <2>1. CASE Edit
    BY <2>1, EditsKeep DEF FreshInv, DistinctNow
  <2>2. CASE Scripted
    BY <2>2, ScriptKeeps, Renamed
  <2> QED
    BY <2>1, <2>2 DEF Next
<1> QED
  BY <1>1, FreshInvariance, PTL DEF Spec, NumbersDistinct

-----------------------------------------------------------------------------
(* Families stay whole. *)

Kids(s, page, n) == {i \in Subs(s) : s[i].page = page /\ s[i].number = n}

Counted(s, page, n) ==
    {s[i].sub : i \in Kids(s, page, n)} = 1..Cardinality(Kids(s, page, n))

LEMMA NoKids ==
    ASSUME NEW s, NEW page, NEW n, Kids(s, page, n) = {}
    PROVE  Counted(s, page, n)
<1> DEFINE kids == Kids(s, page, n)
<1>1. kids = {} /\ Cardinality({}) = 0
  BY FS_EmptySet
<1> HIDE DEF kids
<1>2. {s[i].sub : i \in kids} = {} /\ 1..Cardinality(kids) = {}
  BY <1>1
<1>3. {s[i].sub : i \in kids} = 1..Cardinality(kids)
  BY <1>2
<1> QED
  BY <1>3 DEF kids, Counted

\* Every place of a family is taken.
LEMMA RanksReach ==
    ASSUME NEW s, NEW family, IsFiniteSet(family), family \subseteq Int,
           \A k \in family : s[k].sub \in Nat
    PROVE  \A m \in 0..(Cardinality(family) - 1) : \E i \in family : Rank(s, i, family) = m
<1>1. {Rank(s, i, family) : i \in family} = 0..(Cardinality(family) - 1)
  BY RanksAll
<1> QED
  BY <1>1

\* Whole families are those of every page and number, with or without children.
LEMMA WholeCounts ==
    ASSUME NEW s, Whole(s), NEW page, NEW n
    PROVE  Counted(s, page, n)
<1>1. CASE Kids(s, page, n) = {}
  BY <1>1, NoKids
<1>2. CASE Kids(s, page, n) # {}
  <2>1. PICK i \in Subs(s) : s[i].page = page /\ s[i].number = n
    BY <1>2 DEF Kids
  <2>2. PICK p \in Tops(s) : s[p].page = page /\ s[p].number = n
    BY <2>1 DEF Whole, Parents
  <2>3. Children(s, s[p].number, SamePage(s, p)) = Kids(s, page, n)
    BY <2>2 DEF Children, SamePage, Kids, Subs
  <2> QED
    BY <2>3 DEF Whole, Counted
<1> QED
  BY <1>1, <1>2

LEMMA CountsWhole ==
    ASSUME NEW s, \A i \in Subs(s) : Parents(s, i) # {},
           \A page, n : Counted(s, page, n)
    PROVE  Whole(s)
<1>1. ASSUME NEW p \in Tops(s)
      PROVE  Children(s, s[p].number, SamePage(s, p)) = Kids(s, s[p].page, s[p].number)
  BY DEF Children, SamePage, Kids, Subs
<1> QED
  BY <1>1 DEF Whole, Counted

\* A family nothing happened to.
LEMMA SameFamily ==
    ASSUME NEW s, NEW t, NEW page, NEW n, Counted(s, page, n),
           Kids(t, page, n) = Kids(s, page, n),
           \A i \in Kids(s, page, n) : t[i].sub = s[i].sub
    PROVE  Counted(t, page, n)
<1> DEFINE kids == Kids(s, page, n)
<1>1. {s[i].sub : i \in kids} = 1..Cardinality(kids) /\ Kids(t, page, n) = kids
  BY DEF Counted
<1>2. \A i \in kids : t[i].sub = s[i].sub
  OBVIOUS
<1> HIDE DEF kids
<1>3. {t[i].sub : i \in kids} = 1..Cardinality(kids)
  BY <1>1, <1>2
<1> QED
  BY <1>1, <1>3 DEF Counted

\* A family numbered by its order counts 1, 2, ...
LEMMA RanksCount ==
    ASSUME NEW s, NEW family, IsFiniteSet(family), family \subseteq Int,
           \A k \in family : s[k].sub \in Nat
    PROVE  /\ {Rank(s, i, family) + 1 : i \in family} = 1..Cardinality(family)
           /\ \A i \in family : Rank(s, i, family) + 1 \in 1..Cardinality(family)
           /\ \A m \in 1..Cardinality(family) : \E i \in family : Rank(s, i, family) + 1 = m
<1> DEFINE n == Cardinality(family)
           rank(i) == Rank(s, i, family)
<1>1. n \in Nat
  BY FS_CardinalityType
<1>2. {rank(i) : i \in family} = 0..(n - 1)
  BY RanksAll
<1> HIDE DEF n, rank
<1>3. \A i \in family : rank(i) \in 0..(n - 1)
  BY <1>2
<1>4. \A m \in 1..n : \E i \in family : rank(i) + 1 = m
  <2> SUFFICES ASSUME NEW m \in 1..n PROVE \E i \in family : rank(i) + 1 = m
    OBVIOUS
  <2>1. m - 1 \in 0..(n - 1)
    BY <1>1
  <2>2. PICK i \in family : rank(i) = m - 1
    BY <1>2, <2>1
  <2> QED
    BY <2>2
<1>5. \A i \in family : rank(i) + 1 \in 1..n
  BY <1>1, <1>3
<1>6. {rank(i) + 1 : i \in family} = 1..n
  BY <1>4, <1>5
<1> QED
  BY <1>4, <1>5, <1>6 DEF n, rank

\* What closing up does to the children.
LEMMA CloseUpCounts ==
    ASSUME NEW s, NEW D, DOMAIN s = D, IsFiniteSet(D), D \subseteq Int,
           \A k \in D : s[k] \in Balloon,
           NEW family \in SUBSET Subs(s)
    PROVE  LET t == CloseUp(s, family)
           IN  /\ Subs(t) = Subs(s)
               /\ \A k \in Subs(s) : k \notin family => t[k].sub = s[k].sub
               /\ {t[k].sub : k \in family} = 1..Cardinality(family)
<1> DEFINE t == CloseUp(s, family)
           rank(k) == Rank(s, k, family)
<1>1. /\ family \subseteq D /\ IsFiniteSet(family) /\ family \subseteq Int
      /\ Subs(s) \subseteq D
  <2>1. Subs(s) \subseteq D
    BY DEF Subs
  <2> QED
    BY <2>1, FS_Subset
<1>2. \A k \in family : s[k].sub \in Nat
  BY <1>1 DEF Balloon
<1>3. \A k : rank(k) \in Nat
  BY <1>1, RankIs
<1>4. DOMAIN t = D /\ \A k \in D : t[k] = IF k \in family THEN [s[k] EXCEPT !.sub = rank(k) + 1]
                                          ELSE s[k]
  BY DEF CloseUp
<1>5. {rank(k) + 1 : k \in family} = 1..Cardinality(family)
  BY <1>1, <1>2, RanksCount
<1> HIDE DEF t, rank
<1>6. \A k \in family : t[k].sub = rank(k) + 1 /\ rank(k) + 1 # 0
  <2> SUFFICES ASSUME NEW k \in family PROVE t[k].sub = rank(k) + 1 /\ rank(k) + 1 # 0
    OBVIOUS
  <2>1. rank(k) + 1 # 0
    BY <1>3
  <2>2. k \in D /\ s[k] \in Balloon /\ t[k] = [s[k] EXCEPT !.sub = rank(k) + 1]
    BY <1>1, <1>4
  <2> QED
    BY <2>1, <2>2 DEF Balloon
<1>7. \A k \in D : k \notin family => t[k] = s[k]
  BY <1>4
<1>8. Subs(t) = Subs(s)
  <2>1. \A k \in family : k \in D /\ s[k].sub # 0
    BY DEF Subs
  <2> QED
    BY <1>4, <1>6, <1>7, <2>1 DEF Subs
<1>9. {t[k].sub : k \in family} = 1..Cardinality(family)
  BY <1>5, <1>6
<1> QED
  BY <1>1, <1>7, <1>8, <1>9 DEF t

\* A child that stays one with its parent still there stays with it.
KeepsParents ==
    \A i \in Subs(sheet) \cap DOMAIN sheet' :
        i \in Subs(sheet') /\ Parents(sheet, i) \subseteq DOMAIN sheet'
           => Parents(sheet', i) = Parents(sheet, i)

LEMMA AddWhole ==
    ASSUME TypeOK, WholeNow, NEW page \in Pages, NEW category \in Categories,
           Add(page, category)
    PROVE  WholeNow' /\ KeepsParents
<1> DEFINE n == drawn + 1
<1>1. /\ DOMAIN sheet \subseteq 1..drawn /\ drawn \in Nat
      /\ \A i \in DOMAIN sheet : sheet[i].number \in Nat \ {0}
  BY SheetIs
<1>2. /\ NextNumber(sheet) \in Nat \ {0}
      /\ \A i \in DOMAIN sheet : sheet[i].number < NextNumber(sheet)
  BY NextNumberIs
<1>3. n \notin DOMAIN sheet
  BY <1>1
<1>4. /\ DOMAIN sheet' = DOMAIN sheet \cup {n}
      /\ sheet'[n].sub = 0 /\ sheet'[n].number = NextNumber(sheet)
      /\ \A i \in DOMAIN sheet : sheet'[i] = sheet[i]
  BY <1>3 DEF Add
<1> HIDE DEF n
<1>5. Subs(sheet') = Subs(sheet) /\ Tops(sheet') = Tops(sheet) \cup {n}
  BY <1>3, <1>4 DEF Subs, Tops
<1>6. \A i \in Subs(sheet) : sheet'[i] = sheet[i] /\ sheet[i].number # sheet'[n].number
  BY <1>1, <1>2, <1>4 DEF Subs
<1>7. \A i \in Subs(sheet) : Parents(sheet', i) = Parents(sheet, i)
  BY <1>3, <1>4, <1>5, <1>6 DEF Parents, Tops
<1>8. ASSUME NEW pg, NEW m PROVE Counted(sheet', pg, m)
  <2>1. Kids(sheet', pg, m) = Kids(sheet, pg, m)
    BY <1>5, <1>6 DEF Kids
  <2>2. \A i \in Kids(sheet, pg, m) : sheet'[i].sub = sheet[i].sub
    BY <1>6 DEF Kids
  <2>3. Counted(sheet, pg, m)
    BY WholeCounts DEF WholeNow
  <2> QED
    BY <2>1, <2>2, <2>3, SameFamily
<1>9. \A i \in Subs(sheet') : Parents(sheet', i) # {}
  BY <1>5, <1>7 DEF WholeNow, Whole
<1> QED
  BY <1>7, <1>8, <1>9, CountsWhole DEF WholeNow, KeepsParents

LEMMA RestoreWhole ==
    ASSUME TypeOK, WholeNow, NEW i \in DOMAIN sheet, RestoreNormalNumber(i)
    PROVE  WholeNow' /\ KeepsParents
<1> DEFINE next == NextNumber(sheet)
           r == [sheet EXCEPT ![i].sub = 0, ![i].number = next]
           family == Children(r, sheet[i].number, SamePage(sheet, i))
<1>1. /\ IsFiniteSet(DOMAIN sheet) /\ DOMAIN sheet \subseteq Int
      /\ \A k \in DOMAIN sheet : sheet[k] \in Balloon /\ sheet[k].number \in Nat \ {0}
  BY SheetIs
<1>2. next \in Nat \ {0} /\ \A k \in DOMAIN sheet : sheet[k].number < next
  BY NextNumberIs
<1>3. sheet' = CloseUp(r, family) /\ i \in Subs(sheet)
  BY DEF RestoreNormalNumber
<1>4. /\ DOMAIN r = DOMAIN sheet
      /\ r[i] = [sheet[i] EXCEPT !.sub = 0, !.number = next]
      /\ \A k \in DOMAIN sheet : k # i => r[k] = sheet[k]
  OBVIOUS
<1> HIDE DEF next
<1>5. /\ r[i] \in Balloon /\ r[i].sub = 0 /\ r[i].number = next
      /\ r[i].page = sheet[i].page
  BY <1>1, <1>2, <1>4 DEF Balloon
<1> HIDE DEF r
<1>6. Subs(r) = Subs(sheet) \ {i} /\ Tops(r) = Tops(sheet) \cup {i} /\ i \notin Tops(sheet)
  BY <1>3, <1>4, <1>5 DEF Subs, Tops
<1>7. family = Kids(sheet, sheet[i].page, sheet[i].number) \ {i}
  BY <1>4, <1>6 DEF Children, SamePage, Kids, Subs
<1>8. family \in SUBSET Subs(r)
  BY DEF Children
<1>9. \A k \in DOMAIN sheet : r[k] \in Balloon
  BY <1>1, <1>4, <1>5
<1> HIDE DEF family
<1>10. /\ DOMAIN sheet' = DOMAIN sheet /\ Tops(sheet') = Tops(r)
       /\ \A k \in DOMAIN sheet : /\ sheet'[k].page = r[k].page
                                  /\ sheet'[k].number = r[k].number
  BY <1>1, <1>3, <1>4, <1>8, <1>9, CloseUpKeeps
<1>11. /\ Subs(sheet') = Subs(r)
       /\ \A k \in Subs(r) : k \notin family => sheet'[k].sub = r[k].sub
       /\ {sheet'[k].sub : k \in family} = 1..Cardinality(family)
  BY <1>1, <1>3, <1>4, <1>8, <1>9, CloseUpCounts
<1>12. \A k \in Subs(sheet') : /\ k \in Subs(sheet) /\ k # i /\ k \in DOMAIN sheet
                               /\ sheet'[k].page = sheet[k].page
                               /\ sheet'[k].number = sheet[k].number
  BY <1>4, <1>6, <1>10, <1>11 DEF Subs
<1>13. \A k \in DOMAIN sheet : sheet[k].number # next
  BY <1>1, <1>2
<1>14. \A k \in Subs(sheet') : Parents(sheet', k) = Parents(sheet, k)
  <2>1. \A p \in Tops(sheet) : /\ p # i /\ p \in DOMAIN sheet
                               /\ sheet'[p].page = sheet[p].page
                               /\ sheet'[p].number = sheet[p].number
    BY <1>4, <1>6, <1>10 DEF Tops
  <2>2. sheet'[i].number = next
    BY <1>5, <1>10
  <2>3. Tops(sheet') = Tops(sheet) \cup {i}
    BY <1>6, <1>10
  <2> QED
    BY <1>6, <1>12, <1>13, <2>1, <2>2, <2>3 DEF Parents
<1>15. ASSUME NEW page, NEW n PROVE Counted(sheet', page, n)
  <2>1. CASE page = sheet[i].page /\ n = sheet[i].number
    <3>1. Kids(sheet', page, n) = family
      BY <1>6, <1>7, <1>11, <1>12, <2>1 DEF Kids
    <3> QED
      BY <1>11, <3>1 DEF Counted
  <2>2. CASE ~(page = sheet[i].page /\ n = sheet[i].number)
    <3>1. Kids(sheet', page, n) = Kids(sheet, page, n)
      BY <1>6, <1>11, <1>12, <2>2 DEF Kids
    <3>2. \A k \in Kids(sheet, page, n) : sheet'[k].sub = sheet[k].sub
      <4>1. \A k \in Kids(sheet, page, n) :
               k # i /\ k \in Subs(r) /\ k \notin family /\ k \in DOMAIN sheet
        BY <1>6, <1>7, <2>2 DEF Kids, Subs
      <4> QED
        BY <1>4, <1>11, <4>1
    <3>3. Counted(sheet, page, n)
      BY WholeCounts DEF WholeNow
    <3> QED
      BY <3>1, <3>2, <3>3, SameFamily
  <2> QED
    BY <2>1, <2>2
<1>16. \A k \in Subs(sheet') : Parents(sheet', k) # {}
  BY <1>12, <1>14 DEF WholeNow, Whole
<1> QED
  BY <1>14, <1>15, <1>16, CountsWhole DEF WholeNow, KeepsParents

LEMMA LastCount == ASSUME NEW m \in Nat PROVE Max({0} \cup 1..m) = m
<1>1. {0} \cup 1..m = 0..m /\ 0..m \subseteq Int /\ m \in 0..m
  OBVIOUS
<1>2. IsFiniteSet(0..m)
  BY FS_Interval
<1>3. Max(0..m) \in 0..m /\ \A k \in 0..m : Max(0..m) >= k
  BY <1>1, <1>2, MaxIs
<1>4. Max(0..m) = m
  BY <1>1, <1>3
<1> QED
  BY <1>1, <1>4

\* Two parts that count on from each other count together.
LEMMA CountsOn ==
    ASSUME NEW A, IsFiniteSet(A), NEW B, IsFiniteSet(B), A \cap B = {}, NEW f,
           {f[k] : k \in A} = 1..Cardinality(A),
           {f[k] : k \in B} = (Cardinality(A) + 1)..(Cardinality(A) + Cardinality(B))
    PROVE  {f[k] : k \in A \cup B} = 1..Cardinality(A \cup B)
<1> DEFINE a == Cardinality(A)
           b == Cardinality(B)
<1>1. a \in Nat /\ b \in Nat
  BY FS_CardinalityType
<1>2. Cardinality(A \cup B) = a + b
  <2>1. Cardinality(A \cup B) = a + b - Cardinality({})
    BY FS_Union
  <2>2. Cardinality({}) = 0
    BY FS_EmptySet
  <2> HIDE DEF a, b
  <2> QED
    BY <1>1, <2>1, <2>2
<1>3. {f[k] : k \in A} = 1..a /\ {f[k] : k \in B} = (a + 1)..(a + b)
  OBVIOUS
<1> HIDE DEF a, b
<1>4. {f[k] : k \in A \cup B} = {f[k] : k \in A} \cup {f[k] : k \in B}
  OBVIOUS
<1>5. 1..a \cup (a + 1)..(a + b) = 1..(a + b)
  BY <1>1
<1> QED
  BY <1>2, <1>3, <1>4, <1>5

\* A top-level balloon and its children, hung behind those of another number.
LEMMA FamilyHangs ==
    ASSUME TypeOK, DistinctNow, WholeNow,
           NEW child \in Tops(sheet), NEW parent \in SamePage(sheet, child),
           SubNumber(child, parent)
    PROVE  WholeNow'
<1> DEFINE page     == SamePage(sheet, child)
           pg       == sheet[child].page
           old      == sheet[child].number
           target   == sheet[parent].number
           ownKids  == Children(sheet, old, page)
           siblings == Children(sheet, target, page) \ {child}
           first    == Max({0} \cup {sheet[s].sub : s \in siblings}) + 1
           rank(i)  == Rank(sheet, i, ownKids)
           hung     == [i \in DOMAIN sheet |->
                          IF i = child THEN [sheet[i] EXCEPT !.number = target, !.sub = first]
                          ELSE IF i \in ownKids
                          THEN [sheet[i] EXCEPT !.number = target,
                                                !.sub = first + 1 + rank(i)]
                          ELSE sheet[i]]
           scope    == Scope(sheet, pg)
           m        == Cardinality(siblings)
           c        == Cardinality(ownKids)
<1>1. /\ IsFiniteSet(DOMAIN sheet) /\ DOMAIN sheet \subseteq Int
      /\ child \in DOMAIN sheet /\ parent \in DOMAIN sheet
      /\ \A k \in DOMAIN sheet : /\ sheet[k] \in Balloon /\ sheet[k].number \in Nat \ {0}
                                 /\ sheet[k].sub \in Nat
  BY SheetIs DEF Tops, SamePage
<1>2. sheet' = CloseNumberGap(hung, old, scope) /\ target # old
  BY DEF SubNumber
<1>3. /\ ownKids = Kids(sheet, pg, old) /\ siblings = Kids(sheet, pg, target)
      /\ sheet[child].sub = 0 /\ sheet[parent].page = pg
  BY <1>1 DEF Children, SamePage, Kids, Subs, Tops
<1>4. old \in Nat \ {0} /\ target \in Nat \ {0}
  BY <1>1
<1>5. /\ ownKids \subseteq Subs(sheet) /\ ownKids \subseteq DOMAIN sheet /\ child \notin ownKids
      /\ siblings \subseteq Subs(sheet) /\ siblings \subseteq DOMAIN sheet
      /\ child \notin siblings /\ siblings \cap ownKids = {}
  BY <1>2, <1>3 DEF Kids, Subs
<1>6. /\ DOMAIN hung = DOMAIN sheet
      /\ hung[child] = [sheet[child] EXCEPT !.number = target, !.sub = first]
      /\ \A i \in ownKids : hung[i] = [sheet[i] EXCEPT !.number = target, !.sub = first + 1 + rank(i)]
      /\ \A i \in DOMAIN sheet : i # child /\ i \notin ownKids => hung[i] = sheet[i]
  BY <1>1, <1>5
<1>7. \A k, l \in DOMAIN sheet :
         sheet[k].page = sheet[l].page => (k \in scope <=> l \in scope)
  BY PagesTogether
<1>8. \A k \in DOMAIN sheet : sheet[k].page = pg => k \in scope
  BY DEF Scope
<1> HIDE DEF hung, scope, ownKids, siblings, first, m, c, rank, old, target, page, pg
<1>9. /\ IsFiniteSet(ownKids) /\ IsFiniteSet(siblings)
      /\ ownKids \subseteq Int /\ m \in Nat /\ c \in Nat
  <2>1. IsFiniteSet(ownKids) /\ IsFiniteSet(siblings)
    BY <1>1, <1>5, FS_Subset
  <2> QED
    BY <1>1, <1>5, <2>1, FS_CardinalityType DEF m, c
<1>10. {sheet[s].sub : s \in siblings} = 1..m
  <2>1. Counted(sheet, pg, target)
    BY WholeCounts DEF WholeNow
  <2> QED
    BY <1>3, <2>1 DEF Counted, m
<1>11. first = m + 1
  BY <1>9, <1>10, LastCount DEF first
<1>12. {rank(i) : i \in ownKids} = 0..(c - 1)
  BY <1>1, <1>5, <1>9, RanksAll DEF rank, c
<1>13. \A i \in ownKids : rank(i) \in Nat /\ rank(i) < c
  BY <1>9, <1>12
\* Behind the children that were there.
<1>14. /\ hung[child].page = pg /\ hung[child].number = target /\ hung[child].sub = m + 1
       /\ hung[child] \in Balloon
  <2>1. first \in Nat /\ first = m + 1
    BY <1>9, <1>11
  <2>2. sheet[child] \in Balloon /\ sheet[child].page = pg
    BY <1>1 DEF pg
  <2>3. hung[child] = [sheet[child] EXCEPT !.number = target, !.sub = first]
    BY <1>6
  <2>4. hung[child] \in Balloon /\ hung[child].page = pg /\ hung[child].number = target
        /\ hung[child].sub = first
    BY <1>4, <2>1, <2>2, <2>3 DEF Balloon
  <2> QED
    BY <2>1, <2>4
<1>15. ASSUME NEW i \in ownKids
       PROVE  /\ hung[i].page = pg /\ hung[i].number = target
              /\ hung[i].sub = m + 2 + rank(i) /\ hung[i] \in Balloon
  <2> DEFINE sub == first + 1 + rank(i)
  <2>1. hung[i] = [sheet[i] EXCEPT !.number = target, !.sub = sub] /\ sheet[i] \in Balloon
    BY <1>1, <1>5, <1>6
  <2>2. sub = m + 2 + rank(i) /\ sub \in Nat
    BY <1>9, <1>11, <1>13
  <2>3. sheet[i].page = pg
    BY <1>3 DEF Kids
  <2> HIDE DEF sub
  <2> QED
    BY <1>4, <2>1, <2>2, <2>3 DEF Balloon
<1>16. /\ Subs(hung) = Subs(sheet) \cup {child} /\ Tops(hung) = Tops(sheet) \ {child}
  <2>1. \A i \in ownKids : hung[i].sub # 0 /\ sheet[i].sub # 0 /\ i \in DOMAIN sheet
    BY <1>5, <1>9, <1>13, <1>15 DEF Subs
  <2>2. hung[child].sub # 0
    BY <1>9, <1>14
  <2> QED
    BY <1>1, <1>3, <1>6, <2>1, <2>2 DEF Subs, Tops
<1>17. hung \in [DOMAIN sheet -> Balloon]
  <2>1. \A i \in DOMAIN sheet : hung[i] \in Balloon
    BY <1>1, <1>6, <1>14, <1>15
  <2>2. hung = [i \in DOMAIN hung |-> hung[i]]
    BY DEF hung
  <2> QED
    BY <1>6, <2>1, <2>2
<1>18. \A i \in DOMAIN sheet : hung[i].page = sheet[i].page
  BY <1>1, <1>3, <1>6, <1>14, <1>15 DEF Kids, pg
<1> DEFINE rest == {child} \cup ownKids
<1>19. Kids(hung, pg, target) = siblings \cup rest
  <2>1. \A i \in siblings \cup rest : i \in Kids(hung, pg, target)
    BY <1>3, <1>5, <1>6, <1>14, <1>15, <1>16 DEF Kids
  <2>2. \A i \in Kids(hung, pg, target) : i \in siblings \cup rest
    BY <1>1, <1>3, <1>6, <1>16 DEF Kids, Subs
  <2> QED
    BY <2>1, <2>2
<1>20. {hung[i].sub : i \in rest} = (m + 1)..(m + (c + 1))
  <2>1. ASSUME NEW i \in rest PROVE hung[i].sub \in (m + 1)..(m + (c + 1))
    <3>1. CASE i = child
      BY <1>9, <1>14, <3>1
    <3>2. CASE i \in ownKids
      <4>1. hung[i].sub = m + 2 + rank(i) /\ rank(i) \in Nat /\ rank(i) < c
        BY <1>13, <1>15, <3>2
      <4> QED
        BY <1>9, <4>1
    <3> QED
      BY <3>1, <3>2
  <2>2. ASSUME NEW n \in (m + 1)..(m + (c + 1))
        PROVE  \E i \in rest : hung[i].sub = n
    <3>1. CASE n = m + 1
      BY <1>14, <3>1
    <3>2. CASE n # m + 1
      <4>1. n - m - 2 \in 0..(c - 1)
        BY <1>9, <3>2
      <4>2. PICK i \in ownKids : rank(i) = n - m - 2
        BY <1>12, <4>1
      <4>3. hung[i].sub = n
        BY <1>9, <1>15, <4>2
      <4> QED
        BY <4>3
    <3> QED
      BY <3>1, <3>2
  <2> HIDE DEF rest
  <2> QED
    BY <2>1, <2>2
<1>21. IsFiniteSet(rest) /\ Cardinality(rest) = c + 1
  BY <1>5, <1>9, FS_AddElement DEF c
<1>22. siblings \cap rest = {}
  BY <1>5
<1>23. \A i \in siblings : hung[i].sub = sheet[i].sub
  BY <1>5, <1>6
<1>24. Counted(hung, pg, target)
  <2> DEFINE f == [i \in siblings \cup rest |-> hung[i].sub]
  <2> HIDE DEF rest
  <2>1. {f[i] : i \in siblings} = 1..Cardinality(siblings)
    BY <1>10, <1>23 DEF m
  <2>2. {f[i] : i \in rest} = (Cardinality(siblings) + 1)..(Cardinality(siblings) + Cardinality(rest))
    BY <1>20, <1>21 DEF m
  <2>3. {f[i] : i \in siblings \cup rest} = {hung[i].sub : i \in siblings \cup rest}
    OBVIOUS
  <2> HIDE DEF f
  <2>4. {f[i] : i \in siblings \cup rest} = 1..Cardinality(siblings \cup rest)
    BY <1>9, <1>21, <1>22, <2>1, <2>2, CountsOn
  <2> QED
    BY <1>19, <2>3, <2>4 DEF Counted
<1>25. ASSUME NEW q, NEW n PROVE Counted(hung, q, n)
  <2>1. CASE q = pg /\ n = target
    BY <1>24, <2>1
  <2>2. CASE q = pg /\ n = old
    <3>1. Kids(hung, q, n) = {}
      BY <1>1, <1>2, <1>3, <1>6, <1>14, <1>15, <1>16, <2>2 DEF Kids, Subs
    <3> QED
      BY <3>1, NoKids
  <2>3. CASE ~(q = pg /\ n = target) /\ ~(q = pg /\ n = old)
    <3>1. \A i \in Kids(sheet, q, n) : hung[i] = sheet[i] /\ i \in DOMAIN sheet
      BY <1>3, <1>6, <2>3 DEF Kids, Subs
    <3>2. \A i \in Kids(hung, q, n) : hung[i] = sheet[i] /\ i \in Subs(sheet)
      BY <1>1, <1>6, <1>14, <1>15, <1>16, <2>3 DEF Kids, Subs
    <3>3. Kids(hung, q, n) = Kids(sheet, q, n)
      BY <1>16, <3>1, <3>2 DEF Kids
    <3>4. Counted(sheet, q, n)
      BY WholeCounts DEF WholeNow
    <3> QED
      BY <3>1, <3>3, <3>4, SameFamily
  <2> QED
    BY <2>1, <2>2, <2>3
<1>26. ASSUME NEW i \in Subs(hung) PROVE Parents(hung, i) # {}
  <2>1. \A p \in Tops(sheet) : p # child =>
           /\ p \in Tops(hung) /\ hung[p].page = sheet[p].page
           /\ hung[p].number = sheet[p].number
    BY <1>3, <1>5, <1>6, <1>16 DEF Tops, Subs
  <2>2. CASE i \in rest
    <3>1. PICK p \in Tops(sheet) : sheet[p].page = pg /\ sheet[p].number = target
      <4>1. CASE parent \in Tops(sheet)
        BY <1>3, <4>1 DEF target
      <4>2. CASE parent \notin Tops(sheet)
        <5>1. parent \in Subs(sheet)
          BY <1>1, <4>2 DEF Tops, Subs
        <5> QED
          BY <1>3, <5>1 DEF WholeNow, Whole, Parents, target
      <4> QED
        BY <4>1, <4>2
    <3>2. p # child
      BY <1>2, <3>1 DEF old
    <3>3. hung[i].page = pg /\ hung[i].number = target
      BY <1>14, <1>15, <2>2
    <3> QED
      BY <2>1, <3>1, <3>2, <3>3 DEF Parents
  <2>3. CASE i \notin rest
    <3>1. i \in Subs(sheet) /\ hung[i] = sheet[i]
      BY <1>6, <1>16, <2>3 DEF Subs
    <3>2. PICK p \in Tops(sheet) : sheet[p].page = sheet[i].page /\ sheet[p].number = sheet[i].number
      BY <3>1 DEF WholeNow, Whole, Parents
    <3>3. p # child
      BY <1>3, <2>3, <3>1, <3>2 DEF Kids, pg, old
    <3> QED
      BY <2>1, <3>1, <3>2, <3>3 DEF Parents
  <2> QED
    BY <2>2, <2>3
<1>27. Whole(hung)
  BY <1>25, <1>26, CountsWhole
\* The number it had is closed up if nothing of the scope has it any more.
<1>28. CASE \E k \in Tops(hung) \cap scope : hung[k].number = old
  BY <1>2, <1>27, <1>28 DEF CloseNumberGap, WholeNow
<1>29. CASE ~ \E k \in Tops(hung) \cap scope : hung[k].number = old
  <2>1. sheet' = ShiftAbove(hung, old, scope)
    BY <1>2, <1>29 DEF CloseNumberGap
  <2>2. \A k, l \in DOMAIN sheet : hung[k].page = hung[l].page => (k \in scope <=> l \in scope)
    BY <1>7, <1>18
  <2>3. ASSUME NEW k \in DOMAIN sheet \cap scope PROVE hung[k].number # old
    <3>1. CASE k \in Tops(hung)
      BY <1>29, <3>1
    <3>2. CASE k \notin Tops(hung)
      <4>1. k \in Subs(hung)
        BY <1>6, <3>2 DEF Subs, Tops
      <4>2. PICK p \in Tops(hung) : hung[p].page = hung[k].page /\ hung[p].number = hung[k].number
        BY <1>26, <4>1 DEF Parents
      <4>3. p \in DOMAIN sheet /\ p \in scope
        BY <1>6, <2>2, <4>2 DEF Tops
      <4> QED
        BY <1>29, <4>2, <4>3
    <3> QED
      BY <3>1, <3>2
  <2>4. Renames(hung, sheet')
    BY <1>4, <1>17, <2>1, <2>2, <2>3, ShiftRenames
  <2> QED
    BY <1>27, <2>4, Renamed DEF WholeNow
<1> QED
  BY <1>28, <1>29

\* A child, hung behind those of a number; the siblings it leaves close up.
LEMMA ChildHangs ==
    ASSUME TypeOK, WholeNow,
           NEW child \in DOMAIN sheet, child \notin Tops(sheet),
           NEW parent \in SamePage(sheet, child), SubNumber(child, parent)
    PROVE  WholeNow'
<1> DEFINE page     == SamePage(sheet, child)
           pg       == sheet[child].page
           old      == sheet[child].number
           target   == sheet[parent].number
           siblings == Children(sheet, target, page) \ {child}
           first    == Max({0} \cup {sheet[s].sub : s \in siblings}) + 1
           hung     == [i \in DOMAIN sheet |->
                          IF i = child THEN [sheet[i] EXCEPT !.number = target, !.sub = first]
                          ELSE sheet[i]]
           family   == Children(hung, old, page)
           m        == Cardinality(siblings)
<1>1. /\ IsFiniteSet(DOMAIN sheet) /\ DOMAIN sheet \subseteq Int
      /\ parent \in DOMAIN sheet
      /\ \A k \in DOMAIN sheet : /\ sheet[k] \in Balloon /\ sheet[k].number \in Nat \ {0}
                                 /\ sheet[k].sub \in Nat
  BY SheetIs DEF SamePage
<1>2. sheet' = CloseUp(hung, family)
  BY DEF SubNumber
<1>3. /\ siblings = Kids(sheet, pg, target) \ {child}
      /\ sheet[child].sub # 0 /\ sheet[parent].page = pg
  BY <1>1 DEF Children, SamePage, Kids, Subs, Tops
<1>4. target \in Nat \ {0}
  BY <1>1
<1>5. siblings \in SUBSET DOMAIN sheet /\ child \notin siblings
  BY DEF Children, Subs
<1>6. /\ DOMAIN hung = DOMAIN sheet
      /\ hung[child] = [sheet[child] EXCEPT !.number = target, !.sub = first]
      /\ \A i \in DOMAIN sheet : i # child => hung[i] = sheet[i]
  OBVIOUS
<1>7. first \in Nat \ {0}
  <2> HIDE DEF siblings
  <2> QED
    BY <1>5, NextSubIs
<1>8. family \in SUBSET Subs(hung)
  BY DEF Children
<1> HIDE DEF hung, siblings, first, m
<1>9. /\ hung[child].page = pg /\ hung[child].number = target /\ hung[child].sub = first
      /\ hung[child] \in Balloon
  <2>1. sheet[child] \in Balloon
    BY <1>1
  <2> QED
    BY <1>4, <1>6, <1>7, <2>1 DEF Balloon
<1>10. /\ Subs(hung) = Subs(sheet) /\ Tops(hung) = Tops(sheet)
       /\ child \in Subs(sheet)
  BY <1>1, <1>3, <1>6, <1>7, <1>9 DEF Subs, Tops
<1>11. \A k \in DOMAIN hung : hung[k] \in Balloon /\ hung[k].page = sheet[k].page
  BY <1>1, <1>6, <1>9
<1>12. family = Kids(hung, pg, old)
  BY <1>6, <1>11 DEF Children, SamePage, Kids, Subs
<1> HIDE DEF family, page, pg, old, target
<1>13. /\ DOMAIN sheet' = DOMAIN sheet /\ Tops(sheet') = Tops(hung)
       /\ \A k \in DOMAIN sheet : /\ sheet'[k].page = hung[k].page
                                  /\ sheet'[k].number = hung[k].number
  BY <1>1, <1>2, <1>6, <1>8, <1>11, CloseUpKeeps
<1>14. /\ Subs(sheet') = Subs(hung)
       /\ \A k \in Subs(hung) : k \notin family => sheet'[k].sub = hung[k].sub
       /\ {sheet'[k].sub : k \in family} = 1..Cardinality(family)
  BY <1>1, <1>2, <1>6, <1>8, <1>11, CloseUpCounts
<1>15. \A q, n : Kids(sheet', q, n) = Kids(hung, q, n)
  BY <1>6, <1>13, <1>14 DEF Kids, Subs
<1>16. ASSUME NEW q, NEW n PROVE Counted(sheet', q, n)
  <2>1. CASE q = pg /\ n = old
    BY <1>12, <1>14, <1>15, <2>1 DEF Counted
  <2>2. CASE q = pg /\ n = target /\ target # old
    <3>1. siblings = Kids(sheet, pg, target)
      BY <1>3, <2>2 DEF Kids, old
    <3>2. {sheet[s].sub : s \in siblings} = 1..m
      <4>1. Counted(sheet, pg, target)
        BY WholeCounts DEF WholeNow
      <4> QED
        BY <3>1, <4>1 DEF Counted, m
    <3>3. IsFiniteSet(siblings) /\ m \in Nat
      <4>1. IsFiniteSet(siblings)
        BY <1>1, <1>5, FS_Subset
      <4> QED
        BY <4>1, FS_CardinalityType DEF m
    <3>4. first = m + 1
      BY <3>2, <3>3, LastCount DEF first
    <3>5. Kids(hung, pg, target) = siblings \cup {child}
      <4>1. \A i \in Subs(sheet) : i # child => hung[i] = sheet[i]
        BY <1>6 DEF Subs
      <4>2. \A i \in siblings \cup {child} : i \in Kids(hung, pg, target)
        BY <1>3, <1>9, <1>10, <4>1 DEF Kids
      <4>3. \A i \in Kids(hung, pg, target) : i \in siblings \cup {child}
        BY <1>3, <1>10, <4>1 DEF Kids
      <4> QED
        BY <4>2, <4>3
    <3>6. \A i \in siblings \cup {child} : i \notin family
      BY <1>12, <2>2, <3>5 DEF Kids
    <3>7. /\ \A i \in siblings : sheet'[i].sub = sheet[i].sub
          /\ sheet'[child].sub = m + 1
      <4>1. \A i \in siblings : i \in Subs(hung) /\ hung[i] = sheet[i]
        BY <1>3, <1>5, <1>6, <1>10 DEF Kids
      <4> QED
        BY <1>9, <1>10, <1>14, <3>4, <3>6, <4>1
    <3> DEFINE f == [i \in siblings \cup {child} |-> sheet'[i].sub]
    <3>8. {f[i] : i \in siblings} = 1..Cardinality(siblings)
      BY <3>2, <3>7 DEF m
    <3>9. IsFiniteSet({child}) /\ Cardinality({child}) = 1
      BY FS_Singleton
    <3>10. {f[i] : i \in {child}} = (m + 1)..(m + 1)
      <4>1. {f[i] : i \in {child}} = {m + 1}
        BY <3>7
      <4> QED
        BY <3>3, <4>1
    <3>11. {f[i] : i \in siblings \cup {child}} = {sheet'[i].sub : i \in siblings \cup {child}}
      OBVIOUS
    <3> HIDE DEF f
    <3>12. {f[i] : i \in siblings \cup {child}} = 1..Cardinality(siblings \cup {child})
      BY <1>5, <3>3, <3>8, <3>9, <3>10, CountsOn DEF m
    <3> QED
      BY <1>15, <2>2, <3>5, <3>11, <3>12 DEF Counted
  <2>3. CASE ~(q = pg /\ n = target) /\ ~(q = pg /\ n = old)
    <3>1. \A i \in Subs(sheet) : i # child => hung[i] = sheet[i]
      BY <1>6 DEF Subs
    <3>2. Kids(sheet', q, n) = Kids(sheet, q, n)
      BY <1>9, <1>10, <1>15, <2>3, <3>1 DEF Kids, pg, old
    <3>3. \A i \in Kids(sheet, q, n) : sheet'[i].sub = sheet[i].sub
      <4>1. \A i \in Kids(sheet, q, n) : i # child /\ i \in Subs(hung) /\ i \in Kids(hung, q, n)
        <5>1. Kids(sheet, q, n) = Kids(hung, q, n)
          BY <1>15, <3>2
        <5>2. \A i \in Kids(hung, q, n) : i # child /\ i \in Subs(hung)
          BY <1>9, <2>3 DEF Kids
        <5> QED
          BY <5>1, <5>2
      <4>2. \A i \in Kids(hung, q, n) : i \notin family
        BY <1>12, <2>3 DEF Kids
      <4> QED
        BY <1>10, <1>14, <3>1, <4>1, <4>2
    <3>4. Counted(sheet, q, n)
      BY WholeCounts DEF WholeNow
    <3> QED
      BY <3>2, <3>3, <3>4, SameFamily
  <2> QED
    BY <2>1, <2>2, <2>3
<1>17. ASSUME NEW i \in Subs(sheet') PROVE Parents(sheet', i) # {}
  <2>1. \A p \in Tops(sheet) :
           /\ p \in Tops(sheet') /\ sheet'[p].page = sheet[p].page
           /\ sheet'[p].number = sheet[p].number
    <3>1. \A p \in Tops(sheet) : p \in DOMAIN sheet /\ p # child
      BY DEF Tops
    <3> QED
      BY <1>6, <1>10, <1>13, <3>1
  <2>2. CASE i = child
    <3>1. PICK p \in Tops(sheet) : sheet[p].page = pg /\ sheet[p].number = target
      <4>1. CASE parent \in Tops(sheet)
        BY <1>3, <4>1 DEF target
      <4>2. CASE parent \notin Tops(sheet)
        <5>1. parent \in Subs(sheet)
          BY <1>1, <4>2 DEF Tops, Subs
        <5> QED
          BY <1>3, <5>1 DEF WholeNow, Whole, Parents, target
      <4> QED
        BY <4>1, <4>2
    <3>2. sheet'[i].page = pg /\ sheet'[i].number = target
      BY <1>9, <1>13, <2>2
    <3> QED
      BY <2>1, <3>1, <3>2 DEF Parents
  <2>3. CASE i # child
    <3>1. i \in Subs(sheet) /\ i \in DOMAIN sheet
      BY <1>10, <1>14 DEF Subs
    <3>2. sheet'[i].page = sheet[i].page /\ sheet'[i].number = sheet[i].number
      BY <1>6, <1>13, <2>3, <3>1
    <3>3. PICK p \in Tops(sheet) : sheet[p].page = sheet[i].page /\ sheet[p].number = sheet[i].number
      BY <3>1 DEF WholeNow, Whole, Parents
    <3> QED
      BY <2>1, <3>2, <3>3 DEF Parents
  <2> QED
    BY <2>2, <2>3
<1> QED
  BY <1>16, <1>17, CountsWhole DEF WholeNow

LEMMA SubNumberWhole ==
    ASSUME TypeOK, DistinctNow, WholeNow,
           NEW child \in DOMAIN sheet, NEW parent \in DOMAIN sheet,
           SubNumber(child, parent)
    PROVE  WholeNow'
<1>1. parent \in SamePage(sheet, child)
  BY DEF SubNumber
<1> QED
  BY <1>1, FamilyHangs, ChildHangs

\* A family lies on one page, also where gaps are closed through all pages.
LEMMA OffspringIs ==
    ASSUME TypeOK, WholeNow, NEW K \in SUBSET DOMAIN sheet, NEW t, PartOf(t, K),
           NEW i \in DOMAIN sheet
    PROVE  Offspring(t, i) = Kids(t, sheet[i].page, sheet[i].number)
<1>1. /\ DOMAIN t = K /\ Subs(t) \subseteq Subs(sheet) /\ Subs(t) \subseteq K
      /\ \A k \in K : t[k].page = sheet[k].page /\ t[k].number = sheet[k].number
  BY DEF PartOf, Subs
<1>2. \E q \in Tops(sheet) : sheet[q].page = sheet[i].page /\ sheet[q].number = sheet[i].number
  BY DEF WholeNow, Whole, Parents, Tops, Subs
<1>3. ASSUME NEW k \in Offspring(t, i) PROVE k \in Kids(t, sheet[i].page, sheet[i].number)
  <2>1. /\ k \in Subs(t) /\ k \in Subs(sheet) /\ k \in Scope(sheet, sheet[i].page)
        /\ sheet[k].number = sheet[i].number
    BY <1>1, <1>3 DEF Offspring, Children
  <2>2. sheet[k].page = sheet[i].page
    <3>1. CASE Continuous(sheet)
      <4>1. PICK p \in Tops(sheet) : sheet[p].page = sheet[k].page
                                     /\ sheet[p].number = sheet[k].number
        BY <2>1 DEF WholeNow, Whole, Parents
      <4> QED
        BY <1>2, <2>1, <3>1, <4>1 DEF Continuous
    <3>2. CASE ~Continuous(sheet)
      BY <2>1, <3>2 DEF Scope
    <3> QED
      BY <3>1, <3>2
  <2> QED
    BY <1>1, <2>1, <2>2 DEF Kids
<1>4. ASSUME NEW k \in Kids(t, sheet[i].page, sheet[i].number) PROVE k \in Offspring(t, i)
  BY <1>1, <1>4 DEF Kids, Offspring, Children, Scope
<1> QED
  BY <1>3, <1>4

\* The top-level balloon of a page's number is deleted; so is one of its children.
Lost(removed, page, n) ==
    \E p \in removed \cap Tops(sheet) : sheet[p].page = page /\ sheet[p].number = n
Thinned(removed, page, n) ==
    \E c \in removed \cap Subs(sheet) : sheet[c].page = page /\ sheet[c].number = n

LEMMA OrphanedIs ==
    ASSUME TypeOK, DistinctNow, WholeNow, NEW removed,
           NEW r, r = Restrict(sheet, DOMAIN sheet \ removed), PartOf(r, DOMAIN sheet \ removed),
           NEW i \in DOMAIN sheet \ removed
    PROVE  Orphaned(r, removed, i) <=>
              i \in Subs(r) /\ Lost(removed, sheet[i].page, sheet[i].number)
<1> DEFINE K == DOMAIN sheet \ removed
<1>1. /\ DOMAIN r = K /\ \A k \in K : r[k] = sheet[k]
      /\ Tops(r) \subseteq Tops(sheet) /\ Tops(r) \subseteq K
  BY DEF Restrict, Tops
<1>2. ASSUME NEW p \in removed \cap Tops(sheet)
      PROVE  /\ Children(r, sheet[p].number, Scope(sheet, sheet[p].page))
                = Kids(r, sheet[p].page, sheet[p].number)
             /\ \A k \in Tops(r) \cap Scope(sheet, sheet[p].page) :
                   sheet[k].number # sheet[p].number
  <2>1. p \in DOMAIN sheet /\ p \in Tops(sheet) /\ p \in removed
    BY DEF Tops
  <2>2. Offspring(r, p) = Kids(r, sheet[p].page, sheet[p].number)
    BY <2>1, OffspringIs
  <2>3. ASSUME NEW k \in Tops(r), k \in Scope(sheet, sheet[p].page),
               sheet[k].number = sheet[p].number
        PROVE  FALSE
    <3>1. k \in Tops(sheet) /\ k # p
      BY <1>1, <2>1
    <3>2. sheet[k].page = sheet[p].page
      BY <2>1, <2>3, <3>1 DEF Scope, Continuous
    <3> QED
      BY <2>1, <2>3, <3>1, <3>2 DEF DistinctNow, Distinct
  <2> QED
    BY <2>2, <2>3 DEF Offspring
<1>3. \A p \in removed \cap Tops(sheet) :
         i \in Kids(r, sheet[p].page, sheet[p].number) <=>
            i \in Subs(r) /\ sheet[p].page = sheet[i].page /\ sheet[p].number = sheet[i].number
  BY <1>1 DEF Kids
<1> HIDE DEF K
<1> QED
  BY <1>2, <1>3 DEF Orphaned, Lost

LEMMA BereavedIs ==
    ASSUME TypeOK, WholeNow, NEW removed, NEW K \in SUBSET DOMAIN sheet,
           NEW kept, PartOf(kept, K), NEW i \in K
    PROVE  Bereaved(kept, removed, i) <=>
              i \in Subs(kept) /\ Thinned(removed, sheet[i].page, sheet[i].number)
<1>1. ASSUME NEW c \in removed \cap Subs(sheet)
      PROVE  Children(kept, sheet[c].number, Scope(sheet, sheet[c].page))
             = Kids(kept, sheet[c].page, sheet[c].number)
  <2>1. c \in DOMAIN sheet
    BY DEF Subs
  <2> QED
    BY <2>1, OffspringIs DEF Offspring
<1>2. kept[i].page = sheet[i].page /\ kept[i].number = sheet[i].number
  BY DEF PartOf
<1>3. \A c \in removed \cap Subs(sheet) :
         i \in Kids(kept, sheet[c].page, sheet[c].number) <=>
            i \in Subs(kept) /\ sheet[c].page = sheet[i].page /\ sheet[c].number = sheet[i].number
  BY <1>2 DEF Kids
<1> QED
  BY <1>1, <1>3 DEF Bereaved, Thinned

\* The first child of a lost parent is promoted and the others close up; the
\* children of a parent that is left are as they were.
Promoted(removed, r, kept, page, n) ==
    /\ Lost(removed, page, n) =>
          /\ Counted(kept, page, n)
          /\ Kids(r, page, n) # {} =>
                \E p \in Tops(kept) : kept[p].page = page /\ kept[p].number = n
    /\ ~Lost(removed, page, n) =>
          /\ Kids(kept, page, n) = Kids(sheet, page, n) \ removed
          /\ \A i \in Kids(kept, page, n) : kept[i].sub = sheet[i].sub

LEMMA PromoteCounts ==
    ASSUME TypeOK, DistinctNow, WholeNow, NEW removed,
           NEW r, r = Restrict(sheet, DOMAIN sheet \ removed),
           NEW kept, kept = Promote(sheet, r, removed), NEW page, NEW n
    PROVE  Promoted(removed, r, kept, page, n)
<1> DEFINE K == DOMAIN sheet \ removed
           F == Kids(r, page, n)
           c == Cardinality(F)
           rank(i) == Rank(r, i, F)
<1>1. /\ PartOf(r, K) /\ PartOf(kept, K)
      /\ \A i \in K : kept[i] = IF Orphaned(r, removed, i)
                                THEN [r[i] EXCEPT !.sub = Rank(r, i, Offspring(r, i))]
                                ELSE r[i]
  BY PromoteKeeps
<1>2. /\ DOMAIN r = K /\ DOMAIN kept = K /\ K \in SUBSET DOMAIN sheet
      /\ \A i \in K : /\ r[i] = sheet[i] /\ r[i] \in Balloon
                      /\ kept[i].page = sheet[i].page /\ kept[i].number = sheet[i].number
  BY <1>1 DEF PartOf, Restrict
<1>3. \A i \in K : Orphaned(r, removed, i) <=>
                      i \in Subs(r) /\ Lost(removed, sheet[i].page, sheet[i].number)
  BY <1>1, OrphanedIs
<1>4. F \subseteq K /\ F = Kids(sheet, page, n) \ removed
  BY <1>2 DEF Kids, Subs
<1>5. \A i \in F : /\ i \in K /\ i \in Subs(r) /\ r[i] = sheet[i]
                   /\ sheet[i].page = page /\ sheet[i].number = n
  BY <1>2, <1>4 DEF Kids
<1>8. \A i : i \in F <=> /\ i \in K /\ sheet[i].sub # 0
                         /\ sheet[i].page = page /\ sheet[i].number = n
  BY <1>2, <1>4 DEF Kids, Subs
<1>9. \A i : i \in Kids(kept, page, n) <=> /\ i \in K /\ kept[i].sub # 0
                                           /\ sheet[i].page = page /\ sheet[i].number = n
  BY <1>2 DEF Kids, Subs
<1>10. ASSUME NEW i \in F PROVE Offspring(r, i) = F
  <2>1. i \in DOMAIN sheet /\ sheet[i].page = page /\ sheet[i].number = n
    BY <1>5
  <2>2. Offspring(r, i) = Kids(r, sheet[i].page, sheet[i].number)
    <3> HIDE DEF K
    <3> QED
      BY <1>1, <1>2, <2>1, OffspringIs
  <2> QED
    BY <2>1, <2>2
<1>11. {rank(i) : i \in F} = {Rank(r, i, F) : i \in F}
  OBVIOUS
<1> HIDE DEF K, F
<1>6. ASSUME ~Lost(removed, page, n)
      PROVE  /\ Kids(kept, page, n) = F
             /\ \A i \in Kids(kept, page, n) : kept[i].sub = sheet[i].sub
  <2>1. \A i \in K : sheet[i].page = page /\ sheet[i].number = n => kept[i] = sheet[i]
    BY <1>1, <1>2, <1>3, <1>6
  <2> QED
    BY <1>8, <1>9, <2>1
<1>7. ASSUME Lost(removed, page, n)
      PROVE  /\ Counted(kept, page, n)
             /\ F # {} => \E p \in Tops(kept) : kept[p].page = page /\ kept[p].number = n
  <2>1. IsFiniteSet(F) /\ F \subseteq Int /\ \A k \in F : r[k].sub \in Nat
    <3>1. IsFiniteSet(DOMAIN sheet) /\ DOMAIN sheet \subseteq Int
      BY SheetIs
    <3>2. IsFiniteSet(F)
      BY <1>2, <1>4, <3>1, FS_Subset
    <3> QED
      BY <1>2, <1>4, <3>1, <3>2 DEF Balloon
  <2>2. ASSUME NEW i \in F PROVE kept[i].sub = rank(i)
    <3>1. Orphaned(r, removed, i) /\ i \in K
      BY <1>3, <1>5, <1>7
    <3>2. Offspring(r, i) = F
      BY <1>10
    <3>3. kept[i] = [r[i] EXCEPT !.sub = rank(i)]
      BY <1>1, <3>1, <3>2
    <3> HIDE DEF rank
    <3> QED
      BY <1>2, <3>1, <3>3 DEF Balloon
  <2>3. /\ {rank(i) : i \in F} = 0..(c - 1)
        /\ \A i, j \in F : i # j => rank(i) # rank(j)
    <3>1. /\ \A m \in 0..(c - 1) : \E i \in F : Rank(r, i, F) = m
          /\ \A i \in F : Rank(r, i, F) \in 0..(c - 1)
      <4>1. \A m \in 0..(Cardinality(F) - 1) : \E i \in F : Rank(r, i, F) = m
        BY <2>1, RanksReach
      <4>2. \A i \in F : Rank(r, i, F) \in 0..(Cardinality(F) - 1)
        BY <2>1, RanksDiffer
      <4>3. c = Cardinality(F)
        OBVIOUS
      <4> HIDE DEF c
      <4> QED
        BY <4>1, <4>2, <4>3
    <3>2. \A i, j \in F : i # j => Rank(r, i, F) # Rank(r, j, F)
      BY <2>1, RanksDiffer
    <3> QED
      BY <3>1, <3>2
  <2>4. c \in Nat /\ IsFiniteSet(F)
    BY <2>1, FS_CardinalityType
  <2> HIDE DEF rank
  <2>5. Kids(kept, page, n) = {i \in F : rank(i) # 0}
    <3>1. \A i \in Kids(kept, page, n) : i \in F
      <4>1. \A i \in K : i \notin Subs(r) => kept[i] = sheet[i]
        BY <1>1, <1>2, <1>3
      <4>2. \A i \in K : i \in Subs(r) => sheet[i].sub # 0
        BY <1>2 DEF Subs
      <4> QED
        BY <1>8, <1>9, <4>1, <4>2
    <3>2. \A i \in F : i \in Kids(kept, page, n) <=> rank(i) # 0
      BY <1>8, <1>9, <2>2
    <3> QED
      BY <3>1, <3>2
  <2>6. CASE F = {}
    BY <2>5, <2>6, NoKids
  <2>7. CASE F # {}
    <3>1. c # 0
      BY <2>1, <2>7, FS_EmptySet
    <3> HIDE DEF c, F
    <3>2. 0 \in 0..(c - 1)
      BY <2>4, <3>1
    <3>3. PICK p \in F : rank(p) = 0
      BY <2>3, <3>2
    <3>4. Kids(kept, page, n) = F \ {p}
      BY <2>3, <2>5, <3>3
    <3>5. Cardinality(F \ {p}) = c - 1
      BY <2>4, <3>3, FS_RemoveElement DEF c
    <3>6. {kept[i].sub : i \in F \ {p}} = 1..(c - 1)
      <4>1. \A i \in F \ {p} : kept[i].sub = rank(i) /\ rank(i) \in 0..(c - 1) /\ rank(i) # 0
        BY <2>2, <2>3, <3>3
      <4>2. ASSUME NEW i \in F \ {p} PROVE kept[i].sub \in 1..(c - 1)
        <5>1. kept[i].sub = rank(i) /\ rank(i) \in 0..(c - 1) /\ rank(i) # 0
          BY <4>1
        <5> QED
          BY <2>4, <5>1
      <4>3. \A m \in 1..(c - 1) : \E i \in F \ {p} : kept[i].sub = m
        <5> SUFFICES ASSUME NEW m \in 1..(c - 1) PROVE \E i \in F \ {p} : kept[i].sub = m
          OBVIOUS
        <5>1. m \in 0..(c - 1) /\ m # 0
          BY <2>4
        <5>2. PICK i \in F : rank(i) = m
          BY <2>3, <5>1
        <5> QED
          BY <2>2, <3>3, <5>1, <5>2
      <4> QED
        BY <4>2, <4>3
    <3>7. Counted(kept, page, n)
      BY <3>4, <3>5, <3>6 DEF Counted
    <3>8. p \in Tops(kept) /\ kept[p].page = page /\ kept[p].number = n
      BY <1>2, <1>5, <2>2, <3>3 DEF Tops
    <3> QED
      BY <3>7, <3>8
  <2> QED
    BY <2>6, <2>7
<1> QED
  BY <1>4, <1>6, <1>7 DEF K, F, Promoted

\* A family that loses a child closes up, wherever it lost it.
LEMMA SiblingsCount ==
    ASSUME TypeOK, DistinctNow, WholeNow, NEW removed,
           NEW r, r = Restrict(sheet, DOMAIN sheet \ removed),
           NEW kept, kept = Promote(sheet, r, removed),
           NEW t, t = CloseSiblings(sheet, kept, removed), NEW page, NEW n
    PROVE  Counted(t, page, n)
<1> DEFINE K == DOMAIN sheet \ removed
           F == Kids(kept, page, n)
<1>1. PartOf(r, K) /\ PartOf(kept, K) /\ K \in SUBSET DOMAIN sheet
  BY PromoteKeeps
<1>2. /\ PartOf(t, K) /\ Tops(t) = Tops(kept)
      /\ \A i \in K :
            t[i] = IF Bereaved(kept, removed, i)
                   THEN [kept[i] EXCEPT !.sub = Rank(kept, i, Offspring(kept, i)) + 1]
                   ELSE kept[i]
  <2> HIDE DEF K
  <2> QED
    BY <1>1, SiblingsKeep
<1>3. /\ DOMAIN kept = K /\ DOMAIN t = K
      /\ \A i \in K : /\ kept[i] \in Balloon
                      /\ kept[i].page = sheet[i].page /\ kept[i].number = sheet[i].number
                      /\ t[i].page = sheet[i].page /\ t[i].number = sheet[i].number
  BY <1>1, <1>2 DEF PartOf
<1>4. /\ Lost(removed, page, n) => Counted(kept, page, n)
      /\ ~Lost(removed, page, n) =>
            /\ Kids(kept, page, n) = Kids(sheet, page, n) \ removed
            /\ \A i \in Kids(kept, page, n) : kept[i].sub = sheet[i].sub
  <2>1. Promoted(removed, r, kept, page, n)
    BY PromoteCounts
  <2> QED
    BY <2>1 DEF Promoted
<1> HIDE DEF K
<1>5. \A i \in K : Bereaved(kept, removed, i) <=>
                      i \in Subs(kept) /\ Thinned(removed, sheet[i].page, sheet[i].number)
  BY <1>1, BereavedIs
<1>6. Subs(t) = Subs(kept)
  <2>1. \A i \in K : t[i].sub = 0 <=> kept[i].sub = 0
    <3>1. \A i \in K : i \in Tops(t) <=> i \in Tops(kept)
      BY <1>2
    <3> QED
      BY <1>3, <3>1 DEF Tops
  <2> QED
    BY <1>3, <2>1 DEF Subs
<1>7. Kids(t, page, n) = F
  <2>1. \A i \in Subs(kept) : kept[i].page = t[i].page /\ kept[i].number = t[i].number
    BY <1>3 DEF Subs
  <2> QED
    BY <1>6, <2>1 DEF Kids
<1>8. \A i \in F : i \in K /\ i \in Subs(kept) /\ sheet[i].page = page /\ sheet[i].number = n
  BY <1>3 DEF Kids, Subs
<1>9. ASSUME NEW i \in F PROVE Offspring(kept, i) = F
  <2>1. i \in DOMAIN sheet /\ sheet[i].page = page /\ sheet[i].number = n
    BY <1>1, <1>8
  <2>2. Offspring(kept, i) = Kids(kept, sheet[i].page, sheet[i].number)
    BY <1>1, <2>1, OffspringIs
  <2> QED
    BY <2>1, <2>2
<1> HIDE DEF F
<1>10. CASE Thinned(removed, page, n)
  <2>1. IsFiniteSet(F) /\ F \subseteq Int /\ \A k \in F : kept[k].sub \in Nat
    <3>1. IsFiniteSet(DOMAIN sheet) /\ DOMAIN sheet \subseteq Int
      BY SheetIs
    <3>2. F \subseteq DOMAIN sheet
      BY <1>1, <1>8
    <3>3. IsFiniteSet(F)
      BY <3>1, <3>2, FS_Subset
    <3>4. \A k \in F : kept[k].sub \in Nat
      BY <1>3, <1>8 DEF Balloon
    <3> QED
      BY <3>1, <3>2, <3>3, <3>4
  <2>2. /\ \A i \in F : Rank(kept, i, F) + 1 \in 1..Cardinality(F)
        /\ \A m \in 1..Cardinality(F) : \E i \in F : Rank(kept, i, F) + 1 = m
    BY <2>1, RanksCount
  <2>3. ASSUME NEW i \in F PROVE t[i].sub = Rank(kept, i, F) + 1
    <3> DEFINE sub == Rank(kept, i, F) + 1
    <3>1. t[i] = [kept[i] EXCEPT !.sub = sub]
      BY <1>2, <1>5, <1>8, <1>9, <1>10
    <3>2. kept[i] \in Balloon
      BY <1>3, <1>8
    <3> HIDE DEF sub
    <3>3. t[i].sub = sub
      BY <3>1, <3>2 DEF Balloon
    <3> QED
      BY <3>3 DEF sub
  <2>4. {t[i].sub : i \in F} = 1..Cardinality(F)
    BY <2>2, <2>3
  <2> QED
    BY <1>7, <2>4 DEF Counted
<1>11. CASE ~Thinned(removed, page, n)
  <2>1. \A i \in F : t[i] = kept[i]
    <3>1. \A i \in F : ~Bereaved(kept, removed, i)
      BY <1>5, <1>8, <1>11
    <3> QED
      BY <1>2, <1>8, <3>1
  <2>2. CASE Lost(removed, page, n)
    BY <1>4, <1>7, <2>1, <2>2, SameFamily DEF F
  <2>3. CASE ~Lost(removed, page, n)
    <3>1. Kids(sheet, page, n) \ removed = Kids(sheet, page, n)
      BY <1>11 DEF Kids, Thinned
    <3>2. F = Kids(sheet, page, n) /\ \A i \in F : t[i].sub = sheet[i].sub
      BY <1>4, <2>1, <2>3, <3>1 DEF F
    <3>3. Counted(sheet, page, n)
      BY WholeCounts DEF WholeNow
    <3> QED
      BY <1>7, <3>2, <3>3, SameFamily
  <2> QED
    BY <2>2, <2>3
<1> QED
  BY <1>10, <1>11

\* The sheet once the deleted are taken off, before gaps are closed.
BeforeGaps(removed) ==
    CloseSiblings(sheet, Promote(sheet, Restrict(sheet, DOMAIN sheet \ removed), removed), removed)

LEMMA BeforeGapsIs ==
    ASSUME TypeOK, DistinctNow, WholeNow, NEW removed \in SUBSET DOMAIN sheet
    PROVE  LET t == BeforeGaps(removed)
           IN  /\ PartOf(t, DOMAIN sheet \ removed) /\ Distinct(t) /\ Whole(t)
               /\ \A p \in Tops(sheet) : p \notin removed => p \in Tops(t)
<1> DEFINE K  == DOMAIN sheet \ removed
           r  == Restrict(sheet, DOMAIN sheet \ removed)
           t1 == Promote(sheet, r, removed)
           t2 == CloseSiblings(sheet, t1, removed)
<1>1. /\ PartOf(r, K) /\ PartOf(t1, K) /\ Distinct(t1) /\ K \in SUBSET DOMAIN sheet
      /\ \A i \in K : t1[i] = IF Orphaned(r, removed, i)
                              THEN [r[i] EXCEPT !.sub = Rank(r, i, Offspring(r, i))]
                              ELSE r[i]
  BY PromoteKeeps
<1>2. BeforeGaps(removed) = t2
  BY DEF BeforeGaps
<1>3. \A page, n : Counted(t2, page, n)
  BY SiblingsCount
<1>4. ASSUME NEW page, NEW n, Lost(removed, page, n), Kids(r, page, n) # {}
      PROVE  \E p \in Tops(t1) : t1[p].page = page /\ t1[p].number = n
  <2>1. r = Restrict(sheet, DOMAIN sheet \ removed) /\ t1 = Promote(sheet, r, removed)
    OBVIOUS
  <2> HIDE DEF r, t1
  <2>2. Promoted(removed, r, t1, page, n)
    BY <2>1, PromoteCounts
  <2> QED
    BY <1>4, <2>2 DEF Promoted
<1>5. \A i \in K : r[i] = sheet[i] /\ DOMAIN r = K
  BY DEF Restrict
<1>6. \A i \in K : Orphaned(r, removed, i) <=>
                      i \in Subs(r) /\ Lost(removed, sheet[i].page, sheet[i].number)
  BY <1>1, OrphanedIs
<1> HIDE DEF r, t1, t2
<1>7. PartOf(t2, K) /\ Tops(t2) = Tops(t1) /\ Distinct(t2)
  <2> HIDE DEF K
  <2> QED
    BY <1>1, SiblingsKeep DEF t2
<1>8. /\ DOMAIN t1 = K /\ DOMAIN t2 = K
      /\ \A i \in K : /\ t1[i].page = sheet[i].page /\ t1[i].number = sheet[i].number
                      /\ t2[i].page = sheet[i].page /\ t2[i].number = sheet[i].number
      /\ \A i \in Subs(t2) : i \in K /\ i \in Subs(sheet)
      /\ \A p \in Tops(t1) : p \in K
  BY <1>1, <1>7 DEF PartOf, Subs, Tops
\* A parent that is left stays top-level.
<1>9. \A p \in Tops(sheet) : p \notin removed => p \in Tops(t1)
  <2> SUFFICES ASSUME NEW p \in Tops(sheet), p \notin removed PROVE p \in Tops(t1)
    OBVIOUS
  <2>1. p \in K /\ sheet[p].sub = 0
    BY DEF Tops
  <2>2. ~Orphaned(r, removed, p)
    BY <1>5, <1>6, <2>1 DEF Subs
  <2>3. t1[p] = sheet[p]
    BY <1>1, <1>5, <2>1, <2>2
  <2> QED
    BY <1>8, <2>1, <2>3 DEF Tops
<1>10. ASSUME NEW i \in Subs(t2) PROVE Parents(t2, i) # {}
  <2>1. i \in Subs(sheet) /\ i \in K
    BY <1>8
  <2>2. PICK p \in Tops(sheet) : sheet[p].page = sheet[i].page /\ sheet[p].number = sheet[i].number
    BY <2>1 DEF WholeNow, Whole, Parents
  <2>3. PICK q \in Tops(t1) : t1[q].page = sheet[i].page /\ t1[q].number = sheet[i].number
    <3>1. CASE p \in removed
      <4>1. Lost(removed, sheet[i].page, sheet[i].number)
        BY <2>2, <3>1 DEF Lost
      <4>2. i \in Kids(r, sheet[i].page, sheet[i].number)
        BY <1>5, <2>1 DEF Kids, Subs
      <4> QED
        BY <1>4, <4>1, <4>2
    <3>2. CASE p \notin removed
      <4>1. p \in Tops(t1) /\ p \in K
        BY <1>8, <1>9, <3>2
      <4> QED
        BY <1>8, <2>2, <4>1
    <3> QED
      BY <3>1, <3>2
  <2>4. q \in Tops(t2) /\ q \in K
    BY <1>7, <1>8
  <2> QED
    BY <1>8, <2>1, <2>3, <2>4 DEF Parents
<1>11. Whole(t2)
  BY <1>3, <1>10, CountsWhole
<1> QED
  BY <1>2, <1>7, <1>9, <1>11

LEMMA DeleteWhole ==
    ASSUME TypeOK, DistinctNow, WholeNow,
           NEW removed \in SUBSET DOMAIN sheet, Delete(removed)
    PROVE  WholeNow' /\ KeepsParents
<1> DEFINE K == DOMAIN sheet \ removed
           t == BeforeGaps(removed)
<1>1. sheet' = CloseGaps(sheet, t, removed)
  BY DEF Delete, BeforeGaps
<1> HIDE DEF t
<1>2. /\ PartOf(t, K) /\ Distinct(t) /\ Whole(t) /\ K \in SUBSET DOMAIN sheet
      /\ \A p \in Tops(sheet) : p \notin removed => p \in Tops(t)
  BY BeforeGapsIs DEF t
<1>3. /\ t \in [K -> Balloon] /\ DOMAIN t = K
      /\ \A k \in K : t[k].page = sheet[k].page /\ t[k].number = sheet[k].number
  BY <1>2 DEF PartOf
<1>4. sheet' \in [K -> Balloon] /\ Renames(t, sheet')
  <2> HIDE DEF K
  <2> QED
    BY <1>1, <1>2, <1>3, GapsClose
<1>5. WholeNow'
  BY <1>2, <1>4, Renamed DEF WholeNow
<1>6. ASSUME NEW i \in Subs(sheet), i \in K, Parents(sheet, i) \subseteq K
      PROVE  Parents(sheet', i) = Parents(sheet, i)
  <2>1. Parents(sheet', i) = Parents(t, i)
    BY <1>3, <1>4, <1>6, Renamed
  <2>2. PICK p \in Tops(sheet) : sheet[p].page = sheet[i].page /\ sheet[p].number = sheet[i].number
    BY DEF WholeNow, Whole, Parents
  <2>3. p \in K /\ p \in Tops(t)
    <3>1. p \in K
      BY <1>6, <2>2 DEF Parents
    <3> QED
      BY <1>2, <3>1
  <2>4. Parents(sheet, i) = {p}
    BY <2>2 DEF Parents, DistinctNow, Distinct
  <2>5. Parents(t, i) = {p}
    <3>1. p \in Parents(t, i)
      BY <1>3, <1>6, <2>2, <2>3 DEF Parents
    <3>2. \A q \in Parents(t, i) : q = p
      BY <1>2, <2>3, <3>1 DEF Parents, Distinct
    <3> QED
      BY <3>1, <3>2
  <2> QED
    BY <2>1, <2>4, <2>5
<1>7. DOMAIN sheet' = K
  BY <1>4
<1> QED
  BY <1>5, <1>6, <1>7 DEF KeepsParents

\* Other numbers leave families as they are.
LEMMA RenamedFamilies ==
    ASSUME WholeNow, Renames(sheet, sheet')
    PROVE  WholeNow' /\ KeepsParents
BY Renamed DEF WholeNow, KeepsParents, Subs

LEMMA PlacingKeepsFamilies ==
    ASSUME TypeOK, DistinctNow, WholeNow, Placing
    PROVE  WholeNow' /\ KeepsParents
<1>1. CASE \E page \in Pages, category \in Categories : Add(page, category)
  BY <1>1, AddWhole
<1>2. CASE \E removed \in SUBSET DOMAIN sheet : Delete(removed)
  BY <1>2, DeleteWhole
<1>3. CASE \E i \in DOMAIN sheet, target \in 0..(MaxNumber + 1) : Move(i, target)
  <2>1. PICK i \in DOMAIN sheet, target \in 0..(MaxNumber + 1) : Move(i, target)
    BY <1>3
  <2>2. target \in Int
    BY NumberingAssumption
  <2> QED
    BY <2>1, <2>2, MovesKeepFamilies DEF KeepsParents
<1>4. CASE \E i \in DOMAIN sheet : RestoreNormalNumber(i)
  BY <1>4, RestoreWhole
<1> QED
  BY <1>1, <1>2, <1>3, <1>4 DEF Placing

LEMMA NumberingKeepsFamilies ==
    ASSUME FreshInv, InOrder(sheet), Numbering
    PROVE  WholeNow' /\ (Hanging \/ KeepsParents)
<1>1. TypeOK /\ DistinctNow /\ WholeNow
  BY DEF FreshInv, InOrder, DistinctNow, WholeNow
<1>2. CASE Placing
  BY <1>1, <1>2, PlacingKeepsFamilies
<1>3. CASE Hanging
  BY <1>1, <1>3, SubNumberWhole DEF Hanging
<1>4. CASE Scripted
  BY <1>1, <1>4, ScriptKeeps, RenamedFamilies
<1>5. CASE OfOneCategory(sheet) /\ Renumbering
  BY <1>1, <1>5, RenumberKeeps, RenamedFamilies DEF Renumbering
<1> QED
  BY <1>2, <1>3, <1>4, <1>5 DEF Numbering

(***************************************************************************)
(* On a sheet with distinct numbers and whole families, however it came to *)
(* be, every child hangs off a balloon of its page and every family counts *)
(* 1, 2, ... without holes after whatever mixture of parents and children  *)
(* is deleted, hung elsewhere, given a number of its own, moved, numbered  *)
(* through or, being of one number category, renumbered.                   *)
(***************************************************************************)
THEOREM FamiliesStayWhole ==
    ASSUME NoEditsDuringScript PROVE Spec => FamiliesWhole
<1>1. FreshInv /\ [Next]_vars => [InOrder(sheet) /\ ~Whole(sheet') => ~Numbering]_vars
  BY NumberingKeepsFamilies DEF WholeNow
<1> QED
  BY <1>1, FreshInvariance, PTL DEF Spec, FamiliesWhole

(***************************************************************************)
(* On such a sheet a child stays with its parent through every one of      *)
(* these changes but a hanging: deleting others, closing gaps, moving,     *)
(* renumbering and the script's write never pull it away.                  *)
(***************************************************************************)
THEOREM ChildrenStayWithParents ==
    ASSUME NoEditsDuringScript PROVE Spec => FamiliesStay
<1>1. FreshInv /\ [Next]_vars =>
         [InOrder(sheet) /\ (\E i \in DOMAIN sheet : PulledAway(i)) => Hanging \/ ~Numbering]_vars
  <2>1. KeepsParents => ~(\E i \in DOMAIN sheet : PulledAway(i))
    BY DEF KeepsParents, PulledAway, Subs
  <2> QED
    BY <2>1, NumberingKeepsFamilies
<1> QED
  BY <1>1, FreshInvariance, PTL DEF Spec, FamiliesStay

-----------------------------------------------------------------------------
(* Numbers stay 1, 2, ...: through the drawing, or on each page. *)

\* A change made on a page renumbers its zone: the drawing, or the page.
Zone(Z) == \/ Continuous(sheet) /\ Z = DOMAIN sheet
           \/ ~Continuous(sheet) /\ \E page \in Pages :
                 Z = {k \in DOMAIN sheet : sheet[k].page = page}

LEMMA ZoneIs ==
    ASSUME NEW Z, Zone(Z)
    PROVE  /\ Z \subseteq DOMAIN sheet
           /\ \A i \in DOMAIN sheet : i \in Z => Scope(sheet, sheet[i].page) = Z
           /\ \A i \in DOMAIN sheet : i \notin Z => Scope(sheet, sheet[i].page) \cap Z = {}
           /\ \A k, l \in DOMAIN sheet : sheet[k].page = sheet[l].page => (k \in Z <=> l \in Z)
BY DEF Zone, Scope

\* In a zone a number is on one page.
LEMMA OneHome ==
    ASSUME WholeNow, NEW Z, Zone(Z), NEW i \in Z, NEW j \in Z,
           sheet[i].number = sheet[j].number
    PROVE  sheet[i].page = sheet[j].page
<1>1. ASSUME NEW k \in DOMAIN sheet
      PROVE  \E p \in Tops(sheet) : sheet[p].page = sheet[k].page
                                    /\ sheet[p].number = sheet[k].number
  BY DEF WholeNow, Whole, Parents, Tops, Subs
<1>2. i \in DOMAIN sheet /\ j \in DOMAIN sheet
  BY ZoneIs
<1>3. CASE Continuous(sheet)
  BY <1>1, <1>2, <1>3 DEF Continuous
<1>4. CASE ~Continuous(sheet)
  BY <1>4 DEF Zone
<1> QED
  BY <1>3, <1>4

NumberedIn(s, Z) == Numbered(s, Tops(s) \cap Z)

\* What is numbered in every zone stays so.
KeepsNumbered ==
    /\ DOMAIN sheet' \subseteq DOMAIN sheet
    /\ \A k \in DOMAIN sheet' : sheet'[k].page = sheet[k].page
    /\ \A Z \in SUBSET DOMAIN sheet :
          Zone(Z) /\ NumberedIn(sheet, Z) => NumberedIn(sheet', Z)

LEMMA ThroughContinuous ==
    ASSUME TypeOK, Through(sheet)
    PROVE  Continuous(sheet)
<1>1. IsFiniteSet(Tops(sheet))
  <2>1. Tops(sheet) \subseteq DOMAIN sheet
    BY DEF Tops
  <2> QED
    BY <2>1, SheetIs, FS_Subset
<1>2. Injects(sheet, Tops(sheet))
  BY <1>1, NumberedOnce DEF Through
<1> QED
  BY <1>2 DEF Injects, Continuous

\* Page by page on one page only is through.
LEMMA OnePageThrough ==
    ASSUME TypeOK, EachPage(sheet), Continuous(sheet)
    PROVE  Through(sheet)
<1>1. Tops(sheet) \subseteq DOMAIN sheet /\ IsFiniteSet(Tops(sheet))
  <2>1. Tops(sheet) \subseteq DOMAIN sheet
    BY DEF Tops
  <2> QED
    BY <2>1, SheetIs, FS_Subset
<1> DEFINE PageTops(page) == {i \in Tops(sheet) : sheet[i].page = page}
<1>2. ASSUME NEW k \in Tops(sheet)
      PROVE  \E p \in PageTops(sheet[k].page) : sheet[p].number = 1
  <2> DEFINE ids == PageTops(sheet[k].page)
  <2>1. IsFiniteSet(ids) /\ k \in ids
    BY <1>1, FS_Subset
  <2>2. Numbered(sheet, ids)
    BY <1>1, SheetIs DEF EachPage
  <2> HIDE DEF ids
  <2>3. Cardinality(ids) \in Nat /\ Cardinality(ids) # 0
    BY <2>1, FS_CardinalityType, FS_EmptySet
  <2>4. 1 \in 1..Cardinality(ids)
    BY <2>3
  <2>5. \E p \in ids : sheet[p].number = 1
    BY <2>1, <2>2, <2>4, NumberedOnce
  <2> QED
    BY <2>5 DEF ids
<1>3. \A k, l \in Tops(sheet) : sheet[k].page = sheet[l].page
  <2> SUFFICES ASSUME NEW k \in Tops(sheet), NEW l \in Tops(sheet)
               PROVE  sheet[k].page = sheet[l].page
    OBVIOUS
  <2>1. PICK p \in PageTops(sheet[k].page) : sheet[p].number = 1
    BY <1>2
  <2>2. PICK q \in PageTops(sheet[l].page) : sheet[q].number = 1
    BY <1>2
  <2> QED
    BY <2>1, <2>2 DEF Continuous
<1>4. CASE Tops(sheet) = {}
  <2> DEFINE ids == Tops(sheet)
  <2>1. IsFiniteSet(ids) /\ ids = {}
    BY <1>1, <1>4
  <2> HIDE DEF ids
  <2>2. Numbered(sheet, ids)
    BY <2>1, NumberedAll DEF Injects
  <2> QED
    BY <2>2 DEF Through, ids
<1>5. CASE Tops(sheet) # {}
  <2>1. PICK k \in Tops(sheet) : TRUE
    BY <1>5
  <2>2. PageTops(sheet[k].page) = Tops(sheet)
    BY <1>3
  <2>3. sheet[k].page \in Pages
    BY <1>1, SheetIs
  <2> QED
    BY <2>2, <2>3 DEF EachPage, Through
<1> QED
  BY <1>4, <1>5

LEMMA NumberedStays ==
    ASSUME TypeOK, KeepsNumbered, Through(sheet) \/ EachPage(sheet)
    PROVE  Through(sheet') \/ EachPage(sheet')
<1>1. /\ Tops(sheet') \subseteq DOMAIN sheet' /\ DOMAIN sheet' \subseteq DOMAIN sheet
      /\ \A k \in DOMAIN sheet' : sheet'[k].page = sheet[k].page
  BY DEF KeepsNumbered, Tops
<1>2. CASE Continuous(sheet)
  <2> DEFINE Z == DOMAIN sheet
  <2>1. Through(sheet)
    BY <1>2, OnePageThrough
  <2>2. Zone(Z) /\ Tops(sheet) \cap Z = Tops(sheet) /\ Tops(sheet') \cap Z = Tops(sheet')
    BY <1>1, <1>2 DEF Zone, Tops
  <2>3. NumberedIn(sheet', Z)
    BY <2>1, <2>2 DEF KeepsNumbered, NumberedIn, Through
  <2> QED
    BY <2>2, <2>3 DEF NumberedIn, Through
<1>3. CASE ~Continuous(sheet)
  <2>1. EachPage(sheet)
    BY <1>3, ThroughContinuous
  <2>2. ASSUME NEW page \in Pages
        PROVE  Numbered(sheet', {i \in Tops(sheet') : sheet'[i].page = page})
    <3> DEFINE Z == {k \in DOMAIN sheet : sheet[k].page = page}
    <3>1. Zone(Z) /\ Z \in SUBSET DOMAIN sheet
      BY <1>3 DEF Zone
    <3>2. {i \in Tops(sheet') : sheet'[i].page = page} = Tops(sheet') \cap Z
      BY <1>1
    <3>3. {i \in Tops(sheet) : sheet[i].page = page} = Tops(sheet) \cap Z
      BY DEF Tops
    <3>4. NumberedIn(sheet, Z)
      BY <2>1, <3>3 DEF EachPage, NumberedIn
    <3> HIDE DEF Z
    <3>5. NumberedIn(sheet', Z)
      BY <3>1, <3>4 DEF KeepsNumbered
    <3> QED
      BY <3>2, <3>5 DEF NumberedIn
  <2> QED
    BY <2>2 DEF EachPage
<1> QED
  BY <1>2, <1>3

\* The top-level balloons of a numbered zone.
LEMMA ZoneTops ==
    ASSUME TypeOK, NEW Z, Zone(Z), NumberedIn(sheet, Z)
    PROVE  LET ids == Tops(sheet) \cap Z
           IN  /\ IsFiniteSet(ids) /\ ids \subseteq DOMAIN sheet
               /\ Injects(sheet, ids) /\ Cardinality(ids) \in Nat
               /\ \A k \in ids : sheet[k].number \in 1..Cardinality(ids)
               /\ \A n \in 1..Cardinality(ids) : \E k \in ids : sheet[k].number = n
<1>1. Tops(sheet) \cap Z \subseteq DOMAIN sheet
  BY DEF Tops
<1>2. IsFiniteSet(Tops(sheet) \cap Z)
  BY <1>1, SheetIs, FS_Subset
<1> QED
  BY <1>1, <1>2, NumberedOnce DEF NumberedIn

\* What gives the top-level balloons of a zone no other numbers keeps it numbered.
LEMMA ZoneUntouched ==
    ASSUME NEW Z, NumberedIn(sheet, Z), NEW t, Tops(t) \cap Z = Tops(sheet) \cap Z,
           \A k \in Tops(sheet) \cap Z : t[k].number = sheet[k].number
    PROVE  NumberedIn(t, Z)
<1> DEFINE ids == Tops(sheet) \cap Z
<1>1. Tops(t) \cap Z = ids /\ \A k \in ids : t[k].number = sheet[k].number
  OBVIOUS
<1>2. Numbered(sheet, ids)
  BY DEF NumberedIn
<1> HIDE DEF ids
<1>3. Numbered(t, ids)
  BY <1>1, <1>2 DEF Numbered
<1> QED
  BY <1>1, <1>3 DEF NumberedIn

\* Moving stays within the numbers of the zone, and is one to one.
LEMMA MovesWithin ==
    ASSUME NEW m \in Nat, NEW from \in 1..m, NEW to \in 1..m, NEW n \in 1..m
    PROVE  MovesTo(n, from, to) \in 1..m
BY DEF MovesTo, StepAside

LEMMA MoveNumbered ==
    ASSUME TypeOK, DistinctNow,
           NEW i \in DOMAIN sheet, NEW target \in Int, Move(i, target)
    PROVE  KeepsNumbered
<1> DEFINE scope == Scope(sheet, sheet[i].page)
           from  == sheet[i].number
<1>1. PICK to \in Nat \ {0} :
         /\ \E j \in Tops(sheet) \cap scope : to <= sheet[j].number
         /\ DOMAIN sheet' = DOMAIN sheet
         /\ \A k \in DOMAIN sheet :
               sheet'[k] = [sheet[k] EXCEPT !.number =
                  IF k \in scope THEN MovesTo(sheet[k].number, from, to)
                  ELSE sheet[k].number]
  BY MovedNumbers
<1>2. /\ \A k \in DOMAIN sheet : sheet[k] \in Balloon /\ sheet[k].number \in Nat \ {0}
      /\ from \in Nat \ {0}
  BY SheetIs
<1>3. i \in Tops(sheet) /\ i \in scope
  BY DEF Move, Scope
<1> HIDE DEF scope, from
<1>4. \A k \in DOMAIN sheet :
         /\ sheet'[k].page = sheet[k].page /\ sheet'[k].sub = sheet[k].sub
         /\ sheet'[k].number = IF k \in scope THEN MovesTo(sheet[k].number, from, to)
                                              ELSE sheet[k].number
  BY <1>1, <1>2 DEF Balloon
<1>5. Tops(sheet') = Tops(sheet) /\ Tops(sheet) \subseteq DOMAIN sheet
  BY <1>1, <1>4 DEF Tops
<1>6. ASSUME NEW Z \in SUBSET DOMAIN sheet, Zone(Z), NumberedIn(sheet, Z)
      PROVE  NumberedIn(sheet', Z)
  <2> DEFINE ids == Tops(sheet) \cap Z
             m == Cardinality(ids)
  <2>1. /\ IsFiniteSet(ids) /\ Injects(sheet, ids) /\ m \in Nat
        /\ \A k \in ids : sheet[k].number \in 1..m
    BY <1>6, ZoneTops
  <2>2. CASE i \notin Z
    <3>1. \A k \in ids : k \notin scope
      BY <1>6, <2>2, ZoneIs DEF scope
    <3>2. \A k \in ids : sheet'[k].number = sheet[k].number
      BY <1>4, <1>5, <3>1
    <3> QED
      BY <1>5, <1>6, <3>2, ZoneUntouched
  <2>3. CASE i \in Z
    <3>1. scope = Z
      BY <1>6, <2>3, ZoneIs DEF scope
    <3>2. i \in ids /\ from \in 1..m
      BY <1>3, <2>1, <2>3 DEF from
    <3>3. to \in 1..m
      <4>1. PICK j \in ids : to <= sheet[j].number
        BY <1>1, <3>1
      <4>2. sheet[j].number \in 1..m
        BY <2>1
      <4> HIDE DEF m, ids
      <4> QED
        BY <2>1, <4>1, <4>2
    <3>4. \A k \in ids : k \in DOMAIN sheet /\ sheet'[k].number = MovesTo(sheet[k].number, from, to)
      BY <1>4, <1>5, <3>1
    <3> HIDE DEF ids, m
    <3>5. \A k \in ids : sheet'[k].number \in 1..m
      <4> SUFFICES ASSUME NEW k \in ids PROVE sheet'[k].number \in 1..m
        OBVIOUS
      <4>1. sheet[k].number \in 1..m
        BY <2>1
      <4>2. MovesTo(sheet[k].number, from, to) \in 1..m
        BY <2>1, <3>2, <3>3, <4>1, MovesWithin
      <4> QED
        BY <3>4, <4>2
    <3>6. Injects(sheet', ids)
      <4> SUFFICES ASSUME NEW k \in ids, NEW l \in ids, k # l
                   PROVE  sheet'[k].number # sheet'[l].number
        BY DEF Injects
      <4>1. sheet[k].number # sheet[l].number
        BY <2>1 DEF Injects
      <4>2. /\ sheet[k].number \in Nat \ {0} /\ sheet[l].number \in Nat \ {0}
        BY <1>2, <3>4
      <4>3. MovesTo(sheet[k].number, from, to) # MovesTo(sheet[l].number, from, to)
        BY <1>2, <4>1, <4>2, MovesOneToOne
      <4> QED
        BY <3>4, <4>3
    <3>7. Numbered(sheet', ids)
      BY <2>1, <3>5, <3>6, NumberedAll DEF m
    <3> QED
      BY <1>5, <3>7 DEF NumberedIn, ids
  <2> QED
    BY <2>2, <2>3
<1> QED
  BY <1>1, <1>4, <1>6 DEF KeepsNumbered

\* On a drawing numbered through, the next number is the one after all of them.
LEMMA NextThrough ==
    ASSUME TypeOK, WholeNow, Through(sheet)
    PROVE  /\ NextNumber(sheet) = Cardinality(Tops(sheet)) + 1
           /\ Cardinality(Tops(sheet)) \in Nat
<1> DEFINE m == Cardinality(Tops(sheet))
<1>1. Tops(sheet) \subseteq DOMAIN sheet /\ IsFiniteSet(Tops(sheet))
  <2>1. Tops(sheet) \subseteq DOMAIN sheet
    BY DEF Tops
  <2> QED
    BY <2>1, SheetIs, FS_Subset
<1>2. /\ m \in Nat
      /\ \A k \in Tops(sheet) : sheet[k].number \in 1..m
      /\ \A n \in 1..m : \E k \in Tops(sheet) : sheet[k].number = n
  BY <1>1, NumberedOnce DEF Through
<1>3. \A k \in DOMAIN sheet : \E p \in Tops(sheet) : sheet[p].number = sheet[k].number
  BY DEF WholeNow, Whole, Parents, Tops, Subs
<1> DEFINE N == {sheet[k].number : k \in DOMAIN sheet}
<1>4. N = 1..m
  BY <1>1, <1>2, <1>3
<1>5. NextNumber(sheet) = Max({0} \cup N) + 1
  BY DEF NextNumber
<1> HIDE DEF N, m
<1>6. Max({0} \cup N) = m
  BY <1>2, <1>4, LastCount
<1> QED
  BY <1>2, <1>5, <1>6 DEF m

\* One more balloon with that number is numbered through as well.
LEMMA OneMoreThrough ==
    ASSUME TypeOK, WholeNow, Through(sheet), NEW t, NEW x, x \notin Tops(sheet),
           Tops(t) = Tops(sheet) \cup {x}, t[x].number = NextNumber(sheet),
           \A k \in Tops(sheet) : t[k].number = sheet[k].number
    PROVE  Through(t)
<1> DEFINE tops == Tops(sheet)
           m == Cardinality(tops)
           ids == tops \cup {x}
<1>1. IsFiniteSet(tops)
  <2>1. Tops(sheet) \subseteq DOMAIN sheet
    BY DEF Tops
  <2> QED
    BY <2>1, SheetIs, FS_Subset
<1>2. NextNumber(sheet) = m + 1 /\ m \in Nat
  BY NextThrough
<1>3. /\ Injects(sheet, tops)
      /\ \A k \in tops : sheet[k].number \in 1..m
  BY <1>1, NumberedOnce DEF Through
<1>4. /\ Tops(t) = ids /\ t[x].number = m + 1 /\ x \notin tops
      /\ \A k \in tops : t[k].number = sheet[k].number
  BY <1>2
<1> HIDE DEF tops
<1>5. IsFiniteSet(ids) /\ Cardinality(ids) = m + 1
  BY <1>1, <1>4, FS_AddElement
<1> HIDE DEF m
<1>6. \A k \in tops : t[k].number \in 1..m
  BY <1>3, <1>4
<1>7. \A k \in ids : t[k].number \in 1..(m + 1)
  BY <1>2, <1>4, <1>6
<1>8. \A k \in tops : t[k].number # t[x].number
  BY <1>2, <1>4, <1>6
<1>9. Injects(t, ids)
  BY <1>3, <1>4, <1>8 DEF Injects
<1> HIDE DEF ids
<1>10. Numbered(t, ids)
  BY <1>5, <1>7, <1>9, NumberedAll
<1> QED
  BY <1>4, <1>10 DEF Through

LEMMA AddNumbered ==
    ASSUME TypeOK, WholeNow, NEW page \in Pages, NEW category \in Categories,
           Add(page, category)
    PROVE  /\ Through(sheet) => Through(sheet')
           /\ Cardinality(Tops(sheet')) > Cardinality(Tops(sheet))
<1> DEFINE n == drawn + 1
           b == [page |-> page, number |-> NextNumber(sheet), sub |-> 0,
                 category |-> category]
<1>1. /\ DOMAIN sheet \subseteq 1..drawn /\ drawn \in Nat /\ IsFiniteSet(DOMAIN sheet)
  BY SheetIs
<1>2. sheet' = [i \in DOMAIN sheet \cup {n} |-> IF i \in DOMAIN sheet THEN sheet[i] ELSE b]
  BY DEF Add
<1>3. n \notin DOMAIN sheet
  BY <1>1
<1>4. b.sub = 0 /\ b.number = NextNumber(sheet)
  OBVIOUS
<1> HIDE DEF n, b
<1>5. /\ DOMAIN sheet' = DOMAIN sheet \cup {n} /\ sheet'[n] = b
      /\ \A k \in DOMAIN sheet : sheet'[k] = sheet[k]
  BY <1>2, <1>3
<1>6. /\ Tops(sheet') = Tops(sheet) \cup {n} /\ n \notin Tops(sheet)
      /\ \A k \in Tops(sheet) : sheet'[k].number = sheet[k].number
  BY <1>3, <1>4, <1>5 DEF Tops
<1>7. Through(sheet) => Through(sheet')
  BY <1>4, <1>5, <1>6, OneMoreThrough
<1>8. IsFiniteSet(Tops(sheet))
  <2>1. Tops(sheet) \subseteq DOMAIN sheet
    BY DEF Tops
  <2> QED
    BY <1>1, <2>1, FS_Subset
<1>9. /\ Cardinality(Tops(sheet')) = Cardinality(Tops(sheet)) + 1
      /\ Cardinality(Tops(sheet)) \in Nat
  BY <1>6, <1>8, FS_AddElement, FS_CardinalityType
<1> QED
  BY <1>7, <1>9

LEMMA RestoreNumbered ==
    ASSUME TypeOK, WholeNow, NEW i \in DOMAIN sheet, RestoreNormalNumber(i)
    PROVE  /\ Through(sheet) => Through(sheet')
           /\ Cardinality(Tops(sheet')) > Cardinality(Tops(sheet))
<1> DEFINE r == [sheet EXCEPT ![i].sub = 0, ![i].number = NextNumber(sheet)]
           family == Children(r, sheet[i].number, SamePage(sheet, i))
<1>1. /\ IsFiniteSet(DOMAIN sheet)
      /\ \A k \in DOMAIN sheet : sheet[k] \in Balloon
  BY SheetIs
<1>2. NextNumber(sheet) \in Nat \ {0}
  BY NextNumberIs
<1>3. sheet' = CloseUp(r, family) /\ i \in Subs(sheet)
  BY DEF RestoreNormalNumber
<1>4. /\ DOMAIN r = DOMAIN sheet
      /\ r[i] = [sheet[i] EXCEPT !.sub = 0, !.number = NextNumber(sheet)]
      /\ \A k \in DOMAIN sheet : k # i => r[k] = sheet[k]
  OBVIOUS
<1>5. r[i] \in Balloon /\ r[i].sub = 0 /\ r[i].number = NextNumber(sheet)
  BY <1>1, <1>2, <1>4 DEF Balloon
<1>6. family \in SUBSET Subs(r)
  BY DEF Children
<1> HIDE DEF r, family
<1>7. \A k \in DOMAIN sheet : r[k] \in Balloon
  BY <1>1, <1>4, <1>5
<1>8. /\ Tops(sheet') = Tops(r)
      /\ \A k \in DOMAIN sheet : sheet'[k].number = r[k].number
  BY <1>1, <1>3, <1>4, <1>6, <1>7, CloseUpKeeps
<1>9. Tops(r) = Tops(sheet) \cup {i} /\ i \notin Tops(sheet) /\ Tops(sheet) \subseteq DOMAIN sheet
  BY <1>3, <1>4, <1>5 DEF Tops, Subs
<1>10. /\ sheet'[i].number = NextNumber(sheet)
       /\ \A k \in Tops(sheet) : sheet'[k].number = sheet[k].number
  BY <1>4, <1>5, <1>8, <1>9
<1>11. Through(sheet) => Through(sheet')
  BY <1>8, <1>9, <1>10, OneMoreThrough
<1>12. IsFiniteSet(Tops(sheet))
  BY <1>1, <1>9, FS_Subset
<1>13. /\ Cardinality(Tops(sheet')) = Cardinality(Tops(sheet)) + 1
       /\ Cardinality(Tops(sheet)) \in Nat
  BY <1>8, <1>9, <1>12, FS_AddElement, FS_CardinalityType
<1> QED
  BY <1>11, <1>13

\* A number leaves the zone and those above it come down.
LEMMA NumberLeaves ==
    ASSUME NEW s, NEW ids, IsFiniteSet(ids), Numbered(s, ids), NEW x \in ids, NEW t,
           \A k \in ids \ {x} : t[k].number = IF s[k].number > s[x].number
                                              THEN s[k].number - 1 ELSE s[k].number
    PROVE  Numbered(t, ids \ {x})
<1> DEFINE m == Cardinality(ids)
           rest == ids \ {x}
<1>1. /\ Injects(s, ids) /\ m \in Nat
      /\ \A k \in ids : s[k].number \in 1..m
  BY NumberedOnce
<1>2. IsFiniteSet(rest) /\ Cardinality(rest) = m - 1
  BY FS_RemoveElement
<1>3. /\ rest \subseteq ids /\ x \in ids
      /\ \A k \in rest : k # x /\ t[k].number = IF s[k].number > s[x].number
                                                THEN s[k].number - 1 ELSE s[k].number
  OBVIOUS
<1> HIDE DEF m, rest
<1>4. \A k \in rest : s[k].number # s[x].number
  BY <1>1, <1>3 DEF Injects
<1>5. ASSUME NEW k \in rest PROVE t[k].number \in 1..(m - 1)
  <2>1. s[k].number \in 1..m /\ s[x].number \in 1..m /\ s[k].number # s[x].number
    BY <1>1, <1>3, <1>4
  <2>2. t[k].number = IF s[k].number > s[x].number THEN s[k].number - 1 ELSE s[k].number
    BY <1>3
  <2> QED
    BY <1>1, <2>1, <2>2
<1>6. ASSUME NEW k \in rest, NEW l \in rest, k # l PROVE t[k].number # t[l].number
  <2>1. /\ s[k].number \in 1..m /\ s[x].number \in 1..m /\ s[k].number # s[x].number
        /\ s[l].number \in 1..m /\ s[l].number # s[x].number /\ s[k].number # s[l].number
    BY <1>1, <1>3, <1>4, <1>6 DEF Injects
  <2>2. /\ t[k].number = IF s[k].number > s[x].number THEN s[k].number - 1 ELSE s[k].number
        /\ t[l].number = IF s[l].number > s[x].number THEN s[l].number - 1 ELSE s[l].number
    BY <1>3
  <2> QED
    BY <1>1, <2>1, <2>2
<1>7. Injects(t, rest)
  BY <1>6 DEF Injects
<1>8. Numbered(t, rest)
  BY <1>2, <1>5, <1>7, NumberedAll
<1> QED
  BY <1>8 DEF rest

LEMMA SubNumberNumbered ==
    ASSUME TypeOK, NEW child \in DOMAIN sheet, NEW parent \in DOMAIN sheet,
           SubNumber(child, parent)
    PROVE  KeepsNumbered
<1> DEFINE page     == SamePage(sheet, child)
           wasTop   == child \in Tops(sheet)
           old      == sheet[child].number
           target   == sheet[parent].number
           ownKids  == IF wasTop THEN Children(sheet, old, page) ELSE {}
           siblings == Children(sheet, target, page) \ {child}
           first    == Max({0} \cup {sheet[s].sub : s \in siblings}) + 1
           hung     == [i \in DOMAIN sheet |->
                          IF i = child THEN [sheet[i] EXCEPT !.number = target, !.sub = first]
                          ELSE IF i \in ownKids
                          THEN [sheet[i] EXCEPT !.number = target,
                                                !.sub = first + 1 + Rank(sheet, i, ownKids)]
                          ELSE sheet[i]]
           scope    == Scope(sheet, sheet[child].page)
           family   == Children(hung, old, page)
<1>1. /\ IsFiniteSet(DOMAIN sheet)
      /\ \A k \in DOMAIN sheet : sheet[k] \in Balloon /\ sheet[k].number \in Nat \ {0}
  BY SheetIs
<1>2. sheet' = IF wasTop THEN CloseNumberGap(hung, old, scope) ELSE CloseUp(hung, family)
  BY DEF SubNumber
<1>3. first \in Nat \ {0}
  <2>1. siblings \in SUBSET DOMAIN sheet
    BY DEF Children, Subs
  <2> HIDE DEF siblings
  <2> QED
    BY <2>1, NextSubIs
<1>4. ownKids \subseteq Subs(sheet) /\ \A k : Rank(sheet, k, ownKids) \in Nat
  <2>1. ownKids \subseteq Subs(sheet) /\ ownKids \subseteq DOMAIN sheet
    BY DEF Children, Subs
  <2> HIDE DEF ownKids
  <2>2. IsFiniteSet(ownKids)
    BY <1>1, <2>1, FS_Subset
  <2> QED
    BY <2>1, <2>2, RankIs
<1>5. old \in Nat \ {0} /\ target \in Nat \ {0}
  BY <1>1
<1>6. family \in SUBSET Subs(hung)
  BY DEF Children
<1>7. (wasTop <=> child \in Tops(sheet)) /\ DOMAIN hung = DOMAIN sheet
  OBVIOUS
<1>8. \A k \in DOMAIN sheet :
         hung[k] = IF k = child THEN [sheet[k] EXCEPT !.number = target, !.sub = first]
                   ELSE IF k \in ownKids
                   THEN [sheet[k] EXCEPT !.number = target,
                                         !.sub = first + 1 + Rank(sheet, k, ownKids)]
                   ELSE sheet[k]
  OBVIOUS
<1> HIDE DEF hung, family, ownKids, first, target
<1>10. ASSUME NEW k \in DOMAIN sheet
       PROVE  /\ hung[k] \in Balloon /\ hung[k].page = sheet[k].page
              /\ hung[k].sub = 0 <=> sheet[k].sub = 0 /\ k # child
              /\ hung[k].sub = 0 => hung[k].number = sheet[k].number
  <2>1. CASE k = child
    <3>1. hung[k] = [sheet[k] EXCEPT !.number = target, !.sub = first]
      BY <1>8, <2>1
    <3> QED
      BY <1>1, <1>3, <1>5, <2>1, <3>1 DEF Balloon
  <2>2. CASE k # child /\ k \in ownKids
    <3> DEFINE sub == first + 1 + Rank(sheet, k, ownKids)
    <3>1. sub \in Nat /\ sub # 0
      BY <1>3, <1>4
    <3>2. hung[k] = [sheet[k] EXCEPT !.number = target, !.sub = sub]
      BY <1>8, <2>2
    <3>3. sheet[k].sub # 0
      BY <1>4, <2>2 DEF Subs
    <3> HIDE DEF sub
    <3> QED
      BY <1>1, <1>5, <3>1, <3>2, <3>3 DEF Balloon
  <2>3. CASE k # child /\ k \notin ownKids
    BY <1>1, <1>8, <2>3
  <2> QED
    BY <2>1, <2>2, <2>3
<1>11. /\ Tops(hung) = Tops(sheet) \ {child} /\ Tops(sheet) \subseteq DOMAIN sheet
       /\ \A k \in Tops(hung) : hung[k].number = sheet[k].number
  BY <1>7, <1>10 DEF Tops
<1>12. CASE ~wasTop
  <2>1. /\ DOMAIN sheet' = DOMAIN sheet /\ Tops(sheet') = Tops(hung)
        /\ \A k \in DOMAIN sheet : /\ sheet'[k].page = hung[k].page
                                   /\ sheet'[k].number = hung[k].number
    BY <1>1, <1>2, <1>6, <1>7, <1>10, <1>12, CloseUpKeeps
  <2>2. /\ Tops(sheet') = Tops(sheet)
        /\ \A k \in Tops(sheet) : sheet'[k].number = sheet[k].number
    BY <1>11, <1>12, <2>1
  <2>3. ASSUME NEW Z \in SUBSET DOMAIN sheet, NumberedIn(sheet, Z)
        PROVE  NumberedIn(sheet', Z)
    BY <2>2, <2>3, ZoneUntouched
  <2> QED
    BY <1>10, <2>1, <2>3 DEF KeepsNumbered
<1>13. CASE wasTop
  <2> DEFINE shifted == ShiftAbove(hung, old, scope)
  <2>1. sheet' = IF \E k \in Tops(hung) \cap scope : hung[k].number = old THEN hung
                 ELSE shifted
    BY <1>2, <1>13 DEF CloseNumberGap
  <2>2. /\ DOMAIN shifted = DOMAIN sheet
        /\ \A k \in DOMAIN sheet :
              shifted[k] = IF k \in scope /\ hung[k].number > old
                           THEN [hung[k] EXCEPT !.number = hung[k].number - 1] ELSE hung[k]
    BY <1>7 DEF ShiftAbove
  <2> HIDE DEF shifted, old, scope
  <2>3. ASSUME NEW k \in DOMAIN sheet
        PROVE  /\ shifted[k].page = hung[k].page /\ shifted[k].sub = hung[k].sub
               /\ shifted[k].number = IF k \in scope /\ hung[k].number > old
                                      THEN hung[k].number - 1 ELSE hung[k].number
    <3>1. hung[k] \in Balloon
      BY <1>10
    <3> QED
      BY <2>2, <3>1 DEF Balloon
  <2>4. /\ Tops(shifted) = Tops(hung) /\ Tops(sheet') = Tops(hung) /\ DOMAIN sheet' = DOMAIN sheet
        /\ \A k \in DOMAIN sheet : sheet'[k].page = sheet[k].page
    <3>1. Tops(shifted) = Tops(hung)
      BY <1>7, <2>2, <2>3 DEF Tops
    <3> QED
      BY <1>7, <1>10, <2>1, <2>2, <2>3, <3>1
  <2>5. ASSUME NEW Z \in SUBSET DOMAIN sheet, Zone(Z), NumberedIn(sheet, Z)
        PROVE  NumberedIn(sheet', Z)
    <3> DEFINE ids == Tops(sheet) \cap Z
    <3>1. CASE child \notin Z
      <4>1. Tops(sheet') \cap Z = ids
        BY <1>11, <2>4, <3>1
      <4>2. ASSUME NEW k \in ids PROVE sheet'[k].number = sheet[k].number
        <5>1. k \notin scope
          BY <2>5, <3>1, ZoneIs DEF scope
        <5>2. k \in DOMAIN sheet /\ hung[k].number = sheet[k].number
          BY <1>11, <3>1
        <5> QED
          BY <2>1, <2>3, <5>1, <5>2
      <4> QED
        BY <2>5, <4>1, <4>2, ZoneUntouched
    <3>2. CASE child \in Z
      <4>1. scope = Z
        BY <2>5, <3>2, ZoneIs DEF scope
      <4>2. /\ IsFiniteSet(ids) /\ Injects(sheet, ids) /\ child \in ids /\ Numbered(sheet, ids)
        BY <1>13, <2>5, <3>2, ZoneTops DEF NumberedIn
      <4>3. \A k \in ids \ {child} : /\ k \in DOMAIN sheet /\ k \in Tops(hung) /\ k \in scope
                                     /\ hung[k].number = sheet[k].number
                                     /\ sheet[k].number # old
        BY <1>11, <4>1, <4>2 DEF Injects, old
      <4>4. Tops(hung) \cap scope = ids \ {child}
        BY <1>11, <4>1
      <4>5. sheet' = shifted
        BY <2>1, <4>3, <4>4
      <4>6. \A k \in ids \ {child} :
               sheet'[k].number = IF sheet[k].number > sheet[child].number
                                  THEN sheet[k].number - 1 ELSE sheet[k].number
        BY <2>3, <4>3, <4>5 DEF old
      <4>7. Tops(sheet') \cap Z = ids \ {child}
        BY <1>11, <2>4
      <4> HIDE DEF ids
      <4>8. Numbered(sheet', ids \ {child})
        BY <4>2, <4>6, NumberLeaves
      <4> QED
        BY <4>7, <4>8 DEF NumberedIn
    <3> QED
      BY <3>1, <3>2
  <2> QED
    BY <2>4, <2>5 DEF KeepsNumbered
<1> QED
  BY <1>12, <1>13

-----------------------------------------------------------------------------
(* Deleting leaves no gaps in a numbered zone. *)

GapOf(q) == [number |-> sheet[q].number, page |-> sheet[q].page]
LostIn(removed, Z) == removed \cap Tops(sheet) \cap Z

\* In a zone, balloons have one number just when they had one.
SameIn(s, t, Z) ==
    \A k, l \in DOMAIN s \cap Z : t[k].number = t[l].number <=> s[k].number = s[l].number

\* The zone's numbers are 1..m, of which the gaps that are not in T are left.
Dense(s, t, removed, T, Z, m) ==
    /\ m \in Nat
    /\ \A k \in Tops(s) \cap Z : t[k].number \in 1..m
    /\ \A q \in LostIn(removed, Z) : GapOf(q) \notin T => sheet[q].number \in 1..m
    /\ \A n \in 1..m :
          \/ \E k \in Tops(s) \cap Z : t[k].number = n
          \/ \E q \in LostIn(removed, Z) : GapOf(q) \notin T /\ sheet[q].number = n

\* The gaps of T are closed before the others: they are the highest.
Upper(removed, T) == \A g \in T, h \in Gaps(removed) \ T : h.number <= g.number

\* A numbered zone before its gaps are closed.
LEMMA DenseAtFirst ==
    ASSUME TypeOK, DistinctNow, WholeNow, NEW removed \in SUBSET DOMAIN sheet,
           NEW Z, Zone(Z), NumberedIn(sheet, Z)
    PROVE  Dense(BeforeGaps(removed), BeforeGaps(removed), removed, {}, Z,
                 Cardinality(Tops(sheet) \cap Z))
<1> DEFINE s == BeforeGaps(removed)
           K == DOMAIN sheet \ removed
           ids == Tops(sheet) \cap Z
           m == Cardinality(ids)
<1>1. /\ PartOf(s, K)
      /\ \A p \in Tops(sheet) : p \notin removed => p \in Tops(s)
  BY BeforeGapsIs
<1>2. /\ m \in Nat /\ ids \subseteq DOMAIN sheet
      /\ \A k \in ids : sheet[k].number \in 1..m
      /\ \A n \in 1..m : \E k \in ids : sheet[k].number = n
  BY ZoneTops
<1> HIDE DEF s, m
<1>3. /\ Tops(s) \subseteq K /\ K \subseteq DOMAIN sheet
      /\ \A k \in K : s[k].number = sheet[k].number
  BY <1>1 DEF PartOf, Tops
<1>4. ASSUME NEW k \in Tops(s) \cap Z PROVE s[k].number \in 1..m
  <2>1. k \in DOMAIN sheet /\ s[k].number = sheet[k].number
    BY <1>3
  <2>2. PICK p \in Tops(sheet) : sheet[p].page = sheet[k].page /\ sheet[p].number = sheet[k].number
    BY <2>1 DEF WholeNow, Whole, Parents, Tops, Subs
  <2>3. p \in DOMAIN sheet
    BY <2>2 DEF Tops
  <2>4. p \in ids
    BY <2>1, <2>2, <2>3, ZoneIs
  <2> QED
    BY <1>2, <2>1, <2>2, <2>4
<1>5. \A q \in LostIn(removed, Z) : sheet[q].number \in 1..m
  BY <1>2 DEF LostIn
<1>6. ASSUME NEW n \in 1..m
      PROVE  \/ \E k \in Tops(s) \cap Z : s[k].number = n
             \/ \E q \in LostIn(removed, Z) : sheet[q].number = n
  <2>1. PICK k \in ids : sheet[k].number = n
    BY <1>2
  <2>2. CASE k \in removed
    BY <2>1, <2>2 DEF LostIn
  <2>3. CASE k \notin removed
    <3>1. k \in Tops(s) \cap Z
      BY <1>1, <2>1, <2>3
    <3> QED
      BY <1>3, <2>1, <3>1
  <2> QED
    BY <2>2, <2>3
<1>7. Dense(s, s, removed, {}, Z, m)
  BY <1>2, <1>4, <1>5, <1>6 DEF Dense
<1> QED
  BY <1>7 DEF s, m

\* Closing the lowest of the highest gaps.
LEMMA DenseStays ==
    ASSUME TypeOK, DistinctNow, WholeNow, NEW removed \in SUBSET DOMAIN sheet,
           NEW Z, Zone(Z), NumberedIn(sheet, Z),
           NEW s, s = BeforeGaps(removed),
           NEW T \in SUBSET Gaps(removed), T # {}, NEW g, g = LastGap(T), Upper(removed, T),
           NEW t, t \in ClosedSheets(DOMAIN sheet \ removed, s), SameIn(s, t, Z),
           NEW m, Dense(s, t, removed, T \ {g}, Z, m)
    PROVE  LET u == Close(g, t)
           IN  SameIn(s, u, Z) /\ \E n : Dense(s, u, removed, T, Z, n)
<1> DEFINE K == DOMAIN sheet \ removed
           u == Close(g, t)
<1>1. PartOf(s, K) /\ Whole(s) /\ K \subseteq DOMAIN sheet
  BY BeforeGapsIs
<1>2. /\ DOMAIN s = K /\ DOMAIN t = K /\ Tops(s) \subseteq K
      /\ \A k \in K : t[k] \in Balloon /\ t[k].number \in Nat \ {0}
      /\ \A k \in K : s[k].page = sheet[k].page
  BY <1>1 DEF PartOf, ClosedSheets, Balloon, Tops
<1>3. g \in T /\ \A h \in T : g.number <= h.number
  BY LastGapIs
<1>4. PICK q0 \in removed \cap Tops(sheet) : g = GapOf(q0)
  BY <1>3 DEF Gaps, GapOf
<1> DEFINE h == sheet[q0].number
           scope == Scope(sheet, sheet[q0].page)
<1>5. /\ q0 \in DOMAIN sheet /\ g.number = h /\ g.page = sheet[q0].page /\ h \in Nat \ {0}
  BY <1>4, SheetIs DEF GapOf
<1>6. u = IF \E k \in K \cap scope : t[k].number = h THEN t ELSE ShiftAbove(t, h, scope)
  BY <1>2, <1>5 DEF Close
<1>7. \A q \in LostIn(removed, Z) : /\ q \in Tops(sheet) \cap Z /\ q \in DOMAIN sheet
                                    /\ GapOf(q) \in Gaps(removed)
                                    /\ GapOf(q).number = sheet[q].number
                                    /\ GapOf(q).page = sheet[q].page
  BY DEF LostIn, Gaps, GapOf, Tops
<1>8. /\ m \in Nat
      /\ \A k \in Tops(s) \cap Z : t[k].number \in 1..m
      /\ \A q \in LostIn(removed, Z) : GapOf(q) \notin T \ {g} => sheet[q].number \in 1..m
      /\ \A n \in 1..m :
            \/ \E k \in Tops(s) \cap Z : t[k].number = n
            \/ \E q \in LostIn(removed, Z) : GapOf(q) \notin T \ {g} /\ sheet[q].number = n
  BY DEF Dense
<1> HIDE DEF K, u, h, scope
<1>9. CASE q0 \notin Z
  <2>1. scope \cap Z = {}
    BY <1>5, <1>9, ZoneIs DEF scope
  <2>2. \A k \in K \cap Z : u[k].number = t[k].number
    BY <1>2, <1>6, <2>1 DEF ShiftAbove
  <2>3. ASSUME NEW q \in LostIn(removed, Z) PROVE GapOf(q) # g
    <3>1. q \in Z /\ q \in DOMAIN sheet
      BY <1>7
    <3>2. sheet[q].page # sheet[q0].page
      BY <1>5, <1>9, <3>1, ZoneIs
    <3> QED
      BY <1>5, <1>7, <3>2
  <2>4. SameIn(s, u, Z)
    BY <1>2, <2>2 DEF SameIn
  <2>5. Dense(s, u, removed, T, Z, m)
    <3>1. \A k \in Tops(s) \cap Z : u[k].number = t[k].number
      BY <1>2, <2>2
    <3> QED
      BY <1>8, <2>3, <3>1 DEF Dense
  <2> QED
    BY <2>4, <2>5 DEF u
<1>10. CASE q0 \in Z
  <2>1. scope = Z
    BY <1>5, <1>10, ZoneIs DEF scope
  <2>2. Injects(sheet, Tops(sheet) \cap Z)
    BY ZoneTops
  <2>3. q0 \in LostIn(removed, Z)
    BY <1>4, <1>10 DEF LostIn
  <2>4. \A q \in LostIn(removed, Z) : q # q0 => sheet[q].number # h
    BY <1>7, <2>2, <2>3 DEF Injects, h
  <2>5. \A q \in LostIn(removed, Z) : GapOf(q) \notin T => q # q0
    BY <1>3, <1>4
  <2>6. \A q \in LostIn(removed, Z) : GapOf(q) = g => q = q0
    BY <1>5, <1>7, <2>4
  <2>7. ASSUME NEW q \in LostIn(removed, Z), GapOf(q) \notin T
        PROVE  sheet[q].number < h
    <3>1. sheet[q].number <= h
      BY <1>3, <1>5, <1>7, <2>7 DEF Upper
    <3>2. sheet[q].number # h /\ sheet[q].number \in Nat
      BY <1>7, <2>4, <2>5, <2>7, SheetIs
    <3> QED
      BY <1>5, <3>1, <3>2
  <2>8. h \in 1..m
    BY <1>4, <1>8, <2>3 DEF h
  <2>9. CASE \E k \in K \cap Z : t[k].number = h
    <3>1. u = t
      BY <1>6, <2>1, <2>9
    <3>2. \E p \in Tops(s) \cap Z : t[p].number = h
      <4>1. PICK k \in K \cap Z : t[k].number = h
        BY <2>9
      <4>2. PICK p \in Tops(s) : s[p].page = s[k].page /\ s[p].number = s[k].number
        BY <1>1, <1>2, <4>1 DEF Whole, Parents, Tops, Subs
      <4>3. p \in K /\ p \in DOMAIN sheet /\ k \in DOMAIN sheet
        BY <1>1, <1>2, <4>1, <4>2
      <4>4. p \in Z
        BY <1>2, <4>1, <4>2, <4>3, ZoneIs
      <4>5. t[p].number = t[k].number
        BY <1>2, <4>1, <4>2, <4>3, <4>4 DEF SameIn
      <4> QED
        BY <4>1, <4>2, <4>4, <4>5
    <3>3. ASSUME NEW n \in 1..m
          PROVE  \/ \E k \in Tops(s) \cap Z : t[k].number = n
                 \/ \E q \in LostIn(removed, Z) : GapOf(q) \notin T /\ sheet[q].number = n
      <4>1. CASE \E k \in Tops(s) \cap Z : t[k].number = n
        BY <4>1
      <4>2. CASE \E q \in LostIn(removed, Z) : GapOf(q) \notin T \ {g} /\ sheet[q].number = n
        <5>1. PICK q \in LostIn(removed, Z) : GapOf(q) \notin T \ {g} /\ sheet[q].number = n
          BY <4>2
        <5>2. CASE GapOf(q) = g
          <6>1. n = h
            BY <2>6, <5>1, <5>2 DEF h
          <6> QED
            BY <3>2, <6>1
        <5>3. CASE GapOf(q) # g
          BY <5>1, <5>3
        <5> QED
          BY <5>2, <5>3
      <4> QED
        BY <1>8, <4>1, <4>2
    <3>4. Dense(s, t, removed, T, Z, m)
      BY <1>8, <3>3 DEF Dense
    <3> QED
      BY <3>1, <3>4 DEF u
  <2>10. CASE ~ \E k \in K \cap Z : t[k].number = h
    <3>1. \A k \in K \cap Z :
             u[k].number = IF t[k].number > h THEN t[k].number - 1 ELSE t[k].number
      <4> SUFFICES ASSUME NEW k \in K, k \in Z
                   PROVE  u[k].number = IF t[k].number > h THEN t[k].number - 1 ELSE t[k].number
        OBVIOUS
      <4>1. u[k] = IF t[k].number > h THEN [t[k] EXCEPT !.number = t[k].number - 1] ELSE t[k]
        BY <1>2, <1>6, <2>1, <2>10 DEF ShiftAbove
      <4>2. t[k] \in Balloon
        BY <1>2
      <4> QED
        BY <4>1, <4>2 DEF Balloon
    <3>2. \A k \in K \cap Z : t[k].number # h /\ t[k].number \in Nat \ {0}
      BY <1>2, <2>10
    <3>3. SameIn(s, u, Z)
      <4> SUFFICES ASSUME NEW k \in K \cap Z, NEW l \in K \cap Z
                   PROVE  u[k].number = u[l].number <=> s[k].number = s[l].number
        BY <1>2 DEF SameIn
      <4>1. t[k].number = t[l].number <=> s[k].number = s[l].number
        BY <1>2 DEF SameIn
      <4>2. u[k].number = u[l].number <=> t[k].number = t[l].number
        <5>1. /\ u[k].number = IF t[k].number > h THEN t[k].number - 1 ELSE t[k].number
              /\ u[l].number = IF t[l].number > h THEN t[l].number - 1 ELSE t[l].number
          BY <3>1
        <5>2. /\ t[k].number \in Nat \ {0} /\ t[k].number # h
              /\ t[l].number \in Nat \ {0} /\ t[l].number # h
          BY <3>2
        <5> QED
          BY <1>5, <5>1, <5>2
      <4> QED
        BY <4>1, <4>2
    <3>4. ASSUME NEW k \in Tops(s) \cap Z PROVE u[k].number \in 1..(m - 1)
      <4>1. k \in K \cap Z /\ t[k].number \in 1..m
        BY <1>2, <1>8
      <4> QED
        BY <1>8, <2>8, <3>1, <3>2, <4>1
    <3>5. \A q \in LostIn(removed, Z) : GapOf(q) \notin T => sheet[q].number \in 1..(m - 1)
      <4> SUFFICES ASSUME NEW q \in LostIn(removed, Z), GapOf(q) \notin T
                   PROVE  sheet[q].number \in 1..(m - 1)
        OBVIOUS
      <4>1. sheet[q].number < h /\ sheet[q].number \in 1..m
        BY <1>8, <2>7
      <4> QED
        BY <1>8, <2>8, <4>1
    <3>6. ASSUME NEW n \in 1..(m - 1)
          PROVE  \/ \E k \in Tops(s) \cap Z : u[k].number = n
                 \/ \E q \in LostIn(removed, Z) : GapOf(q) \notin T /\ sheet[q].number = n
      <4>1. CASE n < h
        <5>1. n \in 1..m
          BY <1>8
        <5>2. CASE \E k \in Tops(s) \cap Z : t[k].number = n
          <6>1. PICK k \in Tops(s) \cap Z : t[k].number = n
            BY <5>2
          <6>2. u[k].number = n
            BY <1>2, <1>5, <3>1, <4>1, <6>1
          <6> QED
            BY <6>1, <6>2
        <5>3. CASE \E q \in LostIn(removed, Z) : GapOf(q) \notin T \ {g} /\ sheet[q].number = n
          <6>1. PICK q \in LostIn(removed, Z) : GapOf(q) \notin T \ {g} /\ sheet[q].number = n
            BY <5>3
          <6>2. q # q0
            BY <1>5, <4>1, <6>1 DEF h
          <6> QED
            BY <2>6, <6>1, <6>2
        <5> QED
          BY <1>8, <5>1, <5>2, <5>3
      <4>2. CASE n >= h
        <5>1. n + 1 \in 1..m /\ n + 1 > h /\ n + 1 # h
          BY <1>5, <1>8, <4>2
        <5>2. CASE \E k \in Tops(s) \cap Z : t[k].number = n + 1
          <6>1. PICK k \in Tops(s) \cap Z : t[k].number = n + 1
            BY <5>2
          <6>2. u[k].number = n
            BY <1>2, <1>5, <3>1, <5>1, <6>1
          <6> QED
            BY <6>1, <6>2
        <5>3. CASE \E q \in LostIn(removed, Z) : GapOf(q) \notin T \ {g} /\ sheet[q].number = n + 1
          <6>1. PICK q \in LostIn(removed, Z) : GapOf(q) \notin T \ {g} /\ sheet[q].number = n + 1
            BY <5>3
          <6>2. q # q0
            BY <5>1, <6>1 DEF h
          <6>3. GapOf(q) \notin T
            BY <2>6, <6>1, <6>2
          <6>4. sheet[q].number < h
            BY <2>7, <6>3
          <6> QED
            BY <1>5, <5>1, <6>1, <6>4
        <5> QED
          BY <1>8, <5>1, <5>2, <5>3
      <4> QED
        BY <1>5, <4>1, <4>2
    <3>7. m - 1 \in Nat
      BY <1>8, <2>8
    <3>8. Dense(s, u, removed, T, Z, m - 1)
      <4> HIDE DEF Upper
      <4> QED
        BY <3>4, <3>5, <3>6, <3>7 DEF Dense
    <3> QED
      BY <3>3, <3>8 DEF u
  <2> QED
    BY <2>1, <2>9, <2>10
<1> QED
  BY <1>9, <1>10

LEMMA DeleteNumbered ==
    ASSUME TypeOK, DistinctNow, WholeNow,
           NEW removed \in SUBSET DOMAIN sheet, Delete(removed)
    PROVE  KeepsNumbered
<1> DEFINE K == DOMAIN sheet \ removed
           s == BeforeGaps(removed)
           gaps == Gaps(removed)
<1>1. sheet' = CloseGaps(sheet, s, removed)
  BY DEF Delete, BeforeGaps
<1>2. PartOf(s, K) /\ Distinct(s) /\ Whole(s) /\ K \in SUBSET DOMAIN sheet
  BY BeforeGapsIs
<1>d. s = BeforeGaps(removed)
  OBVIOUS
<1> HIDE DEF s
<1>3. /\ s \in [K -> Balloon] /\ DOMAIN s = K /\ Tops(s) \subseteq K
      /\ \A k \in K : s[k].page = sheet[k].page /\ s[k].number = sheet[k].number
  BY <1>2 DEF PartOf, Tops
<1>4. sheet' \in [K -> Balloon] /\ Renames(s, sheet')
  <2> HIDE DEF K
  <2> QED
    BY <1>1, <1>2, <1>3, GapsClose
<1>5. /\ DOMAIN sheet' = K /\ Tops(sheet') = Tops(s)
      /\ \A k \in K : sheet'[k].page = sheet[k].page
  BY <1>3, <1>4 DEF Renames, Tops
<1>6. ASSUME NEW Z \in SUBSET DOMAIN sheet, Zone(Z), NumberedIn(sheet, Z)
      PROVE  NumberedIn(sheet', Z)
  <2> DEFINE Said(T, t) == Upper(removed, T) =>
                              SameIn(s, t, Z) /\ \E m : Dense(s, t, removed, T, Z, m)
             I == [T \in SUBSET gaps |-> {t \in ClosedSheets(K, s) : Said(T, t)}]
  <2>1. I \in [SUBSET gaps -> SUBSET ClosedSheets(K, s)]
    OBVIOUS
  <2>2. s \in I[{}]
    <3>1. s \in ClosedSheets(K, s)
      BY <1>3, RenamesItself DEF ClosedSheets
    <3>2. \E m : Dense(s, s, removed, {}, Z, m)
      BY <1>d, <1>6, DenseAtFirst
    <3>3. Said({}, s)
      BY <3>2 DEF SameIn
    <3> HIDE DEF Said, gaps
    <3> QED
      BY <3>1, <3>3
  <2>3. ASSUME NEW T \in SUBSET gaps, T # {}, NEW t \in I[T \ {LastGap(T)}]
        PROVE  Close(LastGap(T), t) \in I[T]
    <3> DEFINE g == LastGap(T)
               u == Close(g, t)
    <3>1. g \in T /\ g \in gaps /\ \A h \in T : g.number <= h.number
      BY <2>3, LastGapIs
    <3>2. t \in ClosedSheets(K, s) /\ Said(T \ {g}, t)
      OBVIOUS
    <3>g. g = LastGap(T)
      OBVIOUS
    <3> HIDE DEF I, g
    <3>3. u \in ClosedSheets(K, s)
      <4> HIDE DEF K
      <4> QED
        BY <1>2, <1>3, <3>1, <3>2, CloseRenames
    <3>4. ASSUME Upper(removed, T) PROVE Upper(removed, T \ {g})
      BY <3>1, <3>4 DEF Upper
    <3>5. CASE Upper(removed, T)
      <4>1. PICK m : SameIn(s, t, Z) /\ Dense(s, t, removed, T \ {g}, Z, m)
        BY <3>2, <3>4, <3>5
      <4>2. SameIn(s, u, Z) /\ \E n : Dense(s, u, removed, T, Z, n)
        BY <1>d, <1>6, <2>3, <3>2, <3>5, <3>g, <4>1, DenseStays
      <4> QED
        BY <3>3, <4>2, <3>g DEF I
    <3>6. CASE ~Upper(removed, T)
      BY <3>3, <3>6, <3>g DEF I
    <3> QED
      BY <3>5, <3>6
  <2> HIDE DEF I
  <2>4. sheet' \in I[gaps]
    <3> HIDE DEF K
    <3> QED
      BY <1>1, <1>2, <1>3, <2>1, <2>2, <2>3, GapsFold
  <2>5. SameIn(s, sheet', Z) /\ \E m : Dense(s, sheet', removed, gaps, Z, m)
    <3>1. Said(gaps, sheet')
      BY <2>4 DEF I
    <3>2. Upper(removed, gaps)
      BY DEF Upper
    <3> QED
      BY <3>1, <3>2
  <2>6. PICK m : Dense(s, sheet', removed, gaps, Z, m)
    BY <2>5
  <2> DEFINE ids == Tops(sheet') \cap Z
  <2>7. \A q \in LostIn(removed, Z) : GapOf(q) \in gaps
    BY DEF LostIn, GapOf, Gaps
  <2>8. /\ m \in Nat
        /\ \A k \in ids : sheet'[k].number \in 1..m
        /\ \A n \in 1..m : \E k \in ids : sheet'[k].number = n
    BY <1>5, <2>6, <2>7 DEF Dense
  <2>9. IsFiniteSet(ids)
    <3>1. ids \subseteq DOMAIN sheet
      BY <1>2, <1>3, <1>5
    <3> HIDE DEF ids
    <3> QED
      BY <3>1, SheetIs, FS_Subset
  <2>10. Injects(sheet', ids)
    <3> SUFFICES ASSUME NEW k \in ids, NEW l \in ids, sheet'[k].number = sheet'[l].number
                 PROVE  k = l
      BY DEF Injects
    <3>1. /\ k \in Tops(s) /\ l \in Tops(s) /\ k \in K /\ l \in K /\ k \in Z /\ l \in Z
          /\ s[k].number = s[l].number
      BY <1>3, <1>5, <2>5 DEF SameIn
    <3>2. s[k].page = s[l].page
      BY <1>3, <1>6, <3>1, OneHome
    <3> QED
      BY <1>2, <3>1, <3>2 DEF Distinct
  <2>11. {sheet'[k].number : k \in ids} = 1..m
    BY <2>8
  <2> HIDE DEF ids
  <2>12. Numbered(sheet', ids)
    BY <2>8, <2>9, <2>10, <2>11, NumberedUpTo
  <2> QED
    BY <2>12 DEF NumberedIn, ids
<1> QED
  BY <1>2, <1>5, <1>6 DEF KeepsNumbered

\* The top-level balloons of some pages.
TopsOn(T) == {i \in Tops(sheet) : sheet[i].page \in T}

LEMMA PageByPage ==
    ASSUME TypeOK, NEW T, NEW q \in T
    PROVE  LET on == {i \in Tops(sheet) : sheet[i].page = q}
           IN  /\ Cardinality(TopsOn(T \ {q})) \in Nat /\ Cardinality(on) \in Nat
               /\ Cardinality(TopsOn(T)) = Cardinality(on) + Cardinality(TopsOn(T \ {q}))
<1> DEFINE on == {i \in Tops(sheet) : sheet[i].page = q}
           A == TopsOn(T \ {q})
<1>1. IsFiniteSet(on) /\ IsFiniteSet(A)
  <2>1. on \subseteq DOMAIN sheet /\ A \subseteq DOMAIN sheet
    BY DEF Tops, TopsOn
  <2> QED
    BY <2>1, SheetIs, FS_Subset
<1>2. TopsOn(T) = A \cup on /\ A \cap on = {}
  BY DEF TopsOn
<1> HIDE DEF on, A
<1>3. Cardinality(A) \in Nat /\ Cardinality(on) \in Nat /\ Cardinality(A \cap on) = 0
  BY <1>1, <1>2, FS_CardinalityType, FS_EmptySet
<1>4. Cardinality(A \cup on) = Cardinality(A) + Cardinality(on) - Cardinality(A \cap on)
  BY <1>1, FS_Union
<1>5. Cardinality(TopsOn(T)) = Cardinality(on) + Cardinality(A)
  BY <1>2, <1>3, <1>4
<1> QED
  BY <1>3, <1>5 DEF on, A

\* The highest number of a page numbered 1, 2, ... counts its balloons: a child
\* has the number of one of them.
LEMMA HighestCounts ==
    ASSUME TypeOK, WholeNow, EachPage(sheet), NEW page \in Pages
    PROVE  LET on == {i \in Tops(sheet) : sheet[i].page = page}
           IN  /\ HighestOn(sheet, page) = Cardinality(on) /\ Cardinality(on) \in Nat
               /\ \A i \in on : sheet[i].number \in 1..Cardinality(on)
               /\ Injects(sheet, on)
<1> DEFINE on == {i \in Tops(sheet) : sheet[i].page = page}
           m == Cardinality(on)
           all == {j \in DOMAIN sheet : sheet[j].page = page}
<1>1. on \subseteq all /\ all \subseteq DOMAIN sheet
  BY DEF Tops
<1>2. IsFiniteSet(on)
  BY <1>1, SheetIs, FS_Subset
<1>3. Numbered(sheet, on)
  BY DEF EachPage
<1>4. \A i \in all : \E p \in on : sheet[p].number = sheet[i].number
  BY DEF WholeNow, Whole, Parents, Tops, Subs
<1>5. HighestOn(sheet, page) = Max({0} \cup {sheet[i].number : i \in all})
  BY DEF HighestOn
<1> HIDE DEF on, all
<1>6. /\ Injects(sheet, on) /\ m \in Nat
      /\ \A i \in on : sheet[i].number \in 1..m
      /\ \A n \in 1..m : \E i \in on : sheet[i].number = n
  BY <1>2, <1>3, NumberedOnce
<1> HIDE DEF m
<1>7. \A i \in all : sheet[i].number \in 1..m
  BY <1>4, <1>6
<1>8. \A n \in 1..m : \E i \in all : sheet[i].number = n
  BY <1>1, <1>6
<1>9. {sheet[i].number : i \in all} = 1..m
  BY <1>7, <1>8
<1>10. HighestOn(sheet, page) = m
  BY <1>5, <1>6, <1>9, LastCount
<1> QED
  BY <1>6, <1>10 DEF on, m

\* On a drawing numbered page by page the script shifts a page by the number
\* of top-level balloons on the pages before it.
LEMMA OffsetCounts ==
    ASSUME TypeOK, WholeNow, EachPage(sheet), NEW page
    PROVE  Offset(sheet, page) = Cardinality(TopsOn(Before(page)))
<1> DEFINE I == [T \in SUBSET Before(page) |-> {Cardinality(TopsOn(T))}]
<1>1. \A T : Cardinality(TopsOn(T)) \in Nat
  <2>1. \A T : TopsOn(T) \subseteq DOMAIN sheet
    BY DEF TopsOn, Tops
  <2> QED
    BY <2>1, SheetIs, FS_Subset, FS_CardinalityType
<1>2. I \in [SUBSET Before(page) -> SUBSET Nat]
  BY <1>1
<1>3. 0 \in I[{}]
  <2>1. TopsOn({}) = {}
    BY DEF TopsOn
  <2>2. Cardinality(TopsOn({})) = 0
    BY <2>1, FS_EmptySet
  <2> QED
    BY <2>2
<1>4. ASSUME NEW T \in SUBSET Before(page), NEW q \in T, NEW a \in I[T \ {q}]
      PROVE  HighestOn(sheet, q) + a \in I[T]
  <2>1. q \in Pages
    BY DEF Before
  <2>2. a = Cardinality(TopsOn(T \ {q}))
    OBVIOUS
  <2>3. HighestOn(sheet, q) = Cardinality({i \in Tops(sheet) : sheet[i].page = q})
    BY <2>1, HighestCounts
  <2>4. Cardinality(TopsOn(T)) = HighestOn(sheet, q) + a
    BY <2>2, <2>3, PageByPage
  <2> QED
    BY <2>4
<1>5. IsFiniteSet(DOMAIN sheet) /\ \A i \in DOMAIN sheet : sheet[i].number \in Nat
  BY SheetIs
<1>6. I[Before(page)] = {Cardinality(TopsOn(Before(page)))}
  OBVIOUS
<1> HIDE DEF I
<1>7. Offset(sheet, page) \in I[Before(page)]
  BY <1>2, <1>3, <1>4, <1>5, OffsetFold
<1> QED
  BY <1>6, <1>7

\* It numbers such a drawing through.
LEMMA ScriptNumbers ==
    ASSUME TypeOK, WholeNow, EachPage(sheet), ScriptFresh, ScriptWrite
    PROVE  Through(sheet')
<1> DEFINE on(q) == {i \in Tops(sheet) : sheet[i].page = q}
           c(q) == Cardinality(TopsOn(Before(q)))
           n(q) == Cardinality(on(q))
           tops == Tops(sheet)
           m == Cardinality(tops)
<1>1. /\ Renames(sheet, sheet')
      /\ \A k \in DOMAIN sheet :
            sheet'[k].number = sheet[k].number + Offset(sheet, sheet[k].page)
  BY ScriptWrites
<1>2. Tops(sheet') = tops /\ tops \subseteq DOMAIN sheet
  BY <1>1 DEF Renames, Tops
<1>3. IsFiniteSet(tops) /\ m \in Nat
  <2> HIDE DEF tops
  <2> QED
    BY <1>2, SheetIs, FS_Subset, FS_CardinalityType
<1>4. ASSUME NEW k \in tops
      PROVE  /\ sheet[k].page \in Pages /\ k \in on(sheet[k].page)
             /\ sheet'[k].number = sheet[k].number + c(sheet[k].page)
  BY <1>1, <1>2, SheetIs, OffsetCounts
<1>5. ASSUME NEW q \in Pages
      PROVE  /\ c(q) \in Nat /\ n(q) \in Nat
             /\ \A i \in on(q) : sheet[i].number \in 1..n(q)
             /\ Injects(sheet, on(q))
             /\ Cardinality(TopsOn(Before(q) \cup {q})) = n(q) + c(q)
  <2> DEFINE T == Before(q) \cup {q}
  <2>1. q \in T /\ T \ {q} = Before(q)
    BY NumberingAssumption DEF Before
  <2> HIDE DEF T
  <2>2. /\ Cardinality(TopsOn(T \ {q})) \in Nat
        /\ Cardinality(TopsOn(T)) = n(q) + Cardinality(TopsOn(T \ {q}))
    BY <2>1, PageByPage
  <2>3. /\ n(q) \in Nat /\ \A i \in on(q) : sheet[i].number \in 1..n(q)
        /\ Injects(sheet, on(q))
    BY HighestCounts
  <2> QED
    BY <2>1, <2>2, <2>3 DEF T
<1>6. \A S, T : S \subseteq T => Cardinality(TopsOn(S)) <= Cardinality(TopsOn(T))
  <2>1. \A T : IsFiniteSet(TopsOn(T))
    BY <1>3, FS_Subset DEF TopsOn
  <2>2. \A S, T : S \subseteq T => TopsOn(S) \subseteq TopsOn(T)
    BY DEF TopsOn
  <2> QED
    BY <2>1, <2>2, FS_Subset
<1>7. ASSUME NEW q \in Pages
      PROVE  n(q) + c(q) <= m
  <2>1. TopsOn(Before(q) \cup {q}) \subseteq tops
    BY DEF TopsOn
  <2>2. Cardinality(TopsOn(Before(q) \cup {q})) <= m
    BY <1>3, <2>1, FS_Subset
  <2> QED
    BY <1>5, <2>2
<1>8. ASSUME NEW q \in Pages, NEW r \in Pages, q < r
      PROVE  n(q) + c(q) <= c(r)
  <2>1. Before(q) \cup {q} \subseteq Before(r)
    <3>1. \A x \in Pages : x \in Nat
      BY NumberingAssumption
    <3>2. ASSUME NEW x \in Before(q) \cup {q}
          PROVE  x \in Pages /\ x < r
      <4>1. x \in Pages /\ (x < q \/ x = q)
        BY DEF Before
      <4> QED
        BY <1>8, <3>1, <4>1
    <3> QED
      BY <3>2 DEF Before
  <2>2. Cardinality(TopsOn(Before(q) \cup {q})) <= c(r)
    BY <1>6, <2>1
  <2> QED
    BY <1>5, <2>2
<1> HIDE DEF c, n, m, on, tops
<1>9. ASSUME NEW k \in tops
      PROVE  sheet'[k].number \in 1..m
  <2> DEFINE q == sheet[k].page
  <2>1. q \in Pages /\ k \in on(q) /\ sheet'[k].number = sheet[k].number + c(q)
    BY <1>4
  <2>2. /\ c(q) \in Nat /\ n(q) \in Nat /\ sheet[k].number \in 1..n(q)
        /\ n(q) + c(q) <= m
    BY <1>5, <1>7, <2>1
  <2> HIDE DEF q
  <2> QED
    BY <1>3, <2>1, <2>2
<1>10. ASSUME NEW k \in tops, NEW l \in tops, sheet[k].page < sheet[l].page
       PROVE  sheet'[k].number < sheet'[l].number
  <2> DEFINE q == sheet[k].page
             r == sheet[l].page
  <2>1. /\ q \in Pages /\ k \in on(q) /\ sheet'[k].number = sheet[k].number + c(q)
        /\ r \in Pages /\ l \in on(r) /\ sheet'[l].number = sheet[l].number + c(r)
    BY <1>4
  <2>2. /\ c(q) \in Nat /\ n(q) \in Nat /\ sheet[k].number \in 1..n(q)
        /\ c(r) \in Nat /\ n(r) \in Nat /\ sheet[l].number \in 1..n(r)
        /\ n(q) + c(q) <= c(r)
    BY <1>5, <1>8, <1>10, <2>1
  <2> HIDE DEF q, r
  <2> QED
    BY <2>1, <2>2
<1>11. ASSUME NEW k \in tops, NEW l \in tops, k # l, sheet[k].page = sheet[l].page
       PROVE  sheet'[k].number # sheet'[l].number
  <2> DEFINE q == sheet[k].page
  <2>1. /\ q \in Pages /\ k \in on(q) /\ sheet'[k].number = sheet[k].number + c(q)
        /\ l \in on(q) /\ sheet'[l].number = sheet[l].number + c(q)
    BY <1>4, <1>11
  <2>2. /\ c(q) \in Nat /\ n(q) \in Nat
        /\ sheet[k].number \in 1..n(q) /\ sheet[l].number \in 1..n(q)
        /\ sheet[k].number # sheet[l].number
    BY <1>5, <1>11, <2>1 DEF Injects
  <2> HIDE DEF q
  <2> QED
    BY <2>1, <2>2
<1>12. Injects(sheet', tops)
  <2> SUFFICES ASSUME NEW k \in tops, NEW l \in tops, k # l
               PROVE  sheet'[k].number # sheet'[l].number
    BY DEF Injects
  <2>1. /\ sheet[k].page \in Nat /\ sheet[l].page \in Nat
        /\ sheet'[k].number \in Nat /\ sheet'[l].number \in Nat
    <3>1. sheet[k].page \in Pages /\ sheet[l].page \in Pages
      BY <1>4
    <3>2. sheet'[k].number \in 1..m /\ sheet'[l].number \in 1..m
      BY <1>9
    <3>3. sheet[k].page \in Nat /\ sheet[l].page \in Nat
      BY <3>1, NumberingAssumption, Zenon
    <3>4. \A x \in 1..m : x \in Nat
      BY <1>3
    <3> QED
      BY <3>2, <3>3, <3>4, Zenon
  <2>2. CASE sheet[k].page = sheet[l].page
    BY <1>11, <2>2
  <2>3. CASE sheet[k].page < sheet[l].page
    BY <1>10, <2>1, <2>3
  <2>4. CASE sheet[l].page < sheet[k].page
    BY <1>10, <2>1, <2>4
  <2> QED
    BY <2>1, <2>2, <2>3, <2>4
<1>13. Numbered(sheet', tops)
  BY <1>3, <1>9, <1>12, NumberedAll DEF m
<1> QED
  BY <1>2, <1>13 DEF Through

\* A drawing that the script has read is not numbered through: a number is on
\* two of its pages.
TwoPages == \E i, j \in DOMAIN sheet : sheet[i].number = sheet[j].number
                                       /\ sheet[i].page # sheet[j].page

NumberedInv == FreshInv /\ (script # NotRunning => TwoPages)

LEMMA NumberedInvariance ==
    ASSUME NoEditsDuringScript PROVE Spec => []NumberedInv
<1>1. Init => NumberedInv
  BY RecognitionIs DEF NumberedInv, FreshInv, Init
<1>2. FreshInv /\ NumberedInv /\ FreshInv' /\ [Next]_vars => NumberedInv'
  <2> SUFFICES ASSUME NumberedInv, [Next]_vars
               PROVE  script' # NotRunning => TwoPages'
    BY DEF NumberedInv
  <2>2. CASE Edit /\ script = NotRunning
    BY <2>2, EditsKeep DEF NumberedInv, FreshInv
  <2>3. CASE ScriptRead
    BY <2>3 DEF ScriptRead, TwoPages
  <2>4. CASE ScriptWrite
    BY <2>4 DEF ScriptWrite
  <2>5. CASE UNCHANGED vars
    BY <2>5 DEF vars, NumberedInv, TwoPages
  <2> QED
    BY <2>2, <2>3, <2>4, <2>5 DEF Next, Scripted, NoEditsDuringScript
<1> QED
  BY <1>1, <1>2, FreshInvariance, PTL DEF Spec

\* Where families are whole, such a drawing has a number of two pages on top level.
LEMMA ReadsPages ==
    ASSUME TwoPages, WholeNow
    PROVE  ~Continuous(sheet)
<1>1. PICK i \in DOMAIN sheet, j \in DOMAIN sheet :
         sheet[i].number = sheet[j].number /\ sheet[i].page # sheet[j].page
  BY DEF TwoPages
<1>2. \A k \in DOMAIN sheet : \E p \in Tops(sheet) :
         sheet[p].page = sheet[k].page /\ sheet[p].number = sheet[k].number
  BY DEF WholeNow, Whole, Parents, Tops, Subs
<1> QED
  BY <1>1, <1>2 DEF Continuous

\* A step keeps a drawing numbered.
NumberedStep ==
    Through(sheet) \/ (EachPage(sheet) /\ Cardinality(Tops(sheet')) <= Cardinality(Tops(sheet)))
       => Through(sheet') \/ EachPage(sheet')

\* A new number comes after all the others.
LEMMA NewNumbered ==
    ASSUME TypeOK, WholeNow,
           \/ \E page \in Pages, category \in Categories : Add(page, category)
           \/ \E i \in DOMAIN sheet : RestoreNormalNumber(i)
    PROVE  NumberedStep
<1>1. /\ Through(sheet) => Through(sheet')
      /\ Cardinality(Tops(sheet')) > Cardinality(Tops(sheet))
      /\ Cardinality(Tops(sheet)) \in Nat /\ Cardinality(Tops(sheet')) \in Nat
  <2>1. /\ Through(sheet) => Through(sheet')
        /\ Cardinality(Tops(sheet')) > Cardinality(Tops(sheet))
    BY AddNumbered, RestoreNumbered
  <2>2. TypeOK'
    BY AddKeeps, RestoreKeeps
  <2>3. IsFiniteSet(DOMAIN sheet) /\ IsFiniteSet(DOMAIN sheet')
    <3>1. DOMAIN sheet' \subseteq 1..drawn' /\ drawn' \in Nat
      BY <2>2, NumberingAssumption DEF TypeOK, IsSheet
    <3>2. IsFiniteSet(1..drawn')
      BY <3>1, FS_Interval
    <3>3. IsFiniteSet(DOMAIN sheet')
      BY <3>1, <3>2, FS_Subset
    <3> QED
      BY <3>3, SheetIs
  <2>4. Tops(sheet) \subseteq DOMAIN sheet /\ Tops(sheet') \subseteq DOMAIN sheet'
    BY DEF Tops
  <2> QED
    BY <2>1, <2>3, <2>4, FS_Subset, FS_CardinalityType
<1> QED
  BY <1>1 DEF NumberedStep

LEMMA PlacingNumbered ==
    ASSUME TypeOK, DistinctNow, WholeNow, Placing
    PROVE  NumberedStep
<1>1. KeepsNumbered => NumberedStep
  BY NumberedStays DEF NumberedStep
<1>2. CASE \E page \in Pages, category \in Categories : Add(page, category)
  BY <1>2, NewNumbered
<1>3. CASE \E removed \in SUBSET DOMAIN sheet : Delete(removed)
  BY <1>1, <1>3, DeleteNumbered
<1>4. CASE \E i \in DOMAIN sheet, target \in 0..(MaxNumber + 1) : Move(i, target)
  <2>1. PICK i \in DOMAIN sheet, target \in 0..(MaxNumber + 1) : Move(i, target)
    BY <1>4
  <2>2. target \in Int
    BY NumberingAssumption
  <2> QED
    BY <1>1, <2>1, <2>2, MoveNumbered
<1>5. CASE \E i \in DOMAIN sheet : RestoreNormalNumber(i)
  BY <1>5, NewNumbered
<1> QED
  BY <1>2, <1>3, <1>4, <1>5 DEF Placing

LEMMA NumberingNumbered ==
    ASSUME NumberedInv, InOrder(sheet), Numbering
    PROVE  NumberedStep
<1>1. TypeOK /\ DistinctNow /\ WholeNow /\ ScriptFresh
  BY DEF NumberedInv, FreshInv, InOrder, DistinctNow, WholeNow
<1>2. CASE Placing
  BY <1>1, <1>2, PlacingNumbered
<1>3. CASE Hanging
  <2>1. KeepsNumbered
    BY <1>1, <1>3, SubNumberNumbered DEF Hanging
  <2> QED
    BY <1>1, <2>1, NumberedStays DEF NumberedStep
<1>4. CASE ScriptRead
  BY <1>4 DEF ScriptRead, NumberedStep
<1>5. CASE ScriptWrite
  <2>1. ~Through(sheet)
    BY <1>1, <1>5, ThroughContinuous, ReadsPages DEF ScriptWrite, NumberedInv
  <2>2. EachPage(sheet) => Through(sheet')
    BY <1>1, <1>5, ScriptNumbers
  <2> QED
    BY <2>1, <2>2 DEF NumberedStep
<1>6. CASE Renumbering
  BY <1>1, <1>6, RenumberKeeps DEF NumberedStep, Renumbering
<1> QED
  BY <1>2, <1>3, <1>4, <1>5, <1>6 DEF Numbering, Scripted

(***************************************************************************)
(* A sheet with distinct numbers and whole families that is numbered 1, 2, *)
(* ... through, or 1, 2, ... on each page, is one or the other after       *)
(* whatever is deleted, moved to a number, hung under another balloon or   *)
(* renumbered, and after the script has numbered it through; a balloon     *)
(* drawn or given a number of its own continues a drawing numbered         *)
(* through.                                                                *)
(***************************************************************************)
THEOREM NumberingStays ==
    ASSUME NoEditsDuringScript PROVE Spec => StaysNumbered
<1>1. NumberedInv /\ [Next]_vars =>
         [/\ InOrder(sheet)
          /\ \/ Through(sheet)
             \/ EachPage(sheet) /\ Cardinality(Tops(sheet')) <= Cardinality(Tops(sheet))
          /\ ~Through(sheet') /\ ~EachPage(sheet')
          => ~Numbering]_vars
  BY NumberingNumbered DEF NumberedStep
<1> QED
  BY <1>1, NumberedInvariance, PTL DEF Spec, StaysNumbered
=============================================================================
