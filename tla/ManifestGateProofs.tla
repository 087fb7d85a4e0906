------------------------- MODULE ManifestGateProofs -------------------------
(***************************************************************************)
(* Proofs about ManifestGate, for any names, licenses and snapshots and    *)
(* any number of edits.                                                    *)
(*                                                                         *)
(* build_stats and Rows are recursive.  LoopCounts shows that the loop of  *)
(* build_stats computes, for every manifest whose names differ, what       *)
(* ExpectedStats counts over sets, and RowsDeclared that the generator     *)
(* visits every declared row once.  Both are by induction on the length,   *)
(* stated of a set of lengths (UpTo).                                      *)
(*                                                                         *)
(* The invariant is TypeInv /\ NamesOnce /\ GateInv.  NamesOnce is needed  *)
(* because the statistics of a list and of a set agree only when nothing is*)
(* listed twice; GateInv follows the job of CI from the rows it has read to*)
(* the two files `git diff' looks at.                                      *)
(***************************************************************************)
EXTENDS ManifestGate, TLAPS, FiniteSetTheorems, WellFoundedInduction, NaturalsInduction

Counted == [name : Subdirs, license : Licenses, routine_count : Nat, loc : Nat]
Counts == {"routine_count", "loc"}

----------------------------------------------------------------------------
(* Induction on a bounded set of numbers, as a fact about a set.           *)
LEMMA UpTo ==
    ASSUME NEW N \in Nat, NEW S, 0 \in S, \A n \in 1 .. N : n - 1 \in S => n \in S
    PROVE  0 .. N \subseteq S
<1>1. SUFFICES ASSUME ~(0 .. N \subseteq S) PROVE FALSE
  OBVIOUS
<1> DEFINE Missed == {n \in 0 .. N : n \notin S}
<1>2. Missed \subseteq Nat /\ Missed # {}
  BY <1>1
<1>3. IsWellFoundedOn(OpToRel(<, Nat), Nat)
  BY NatLessThanWellFounded, Zenon
<1> HIDE DEF Missed
<1>4. PICK x \in Missed : \A y \in Missed : ~(<<y, x>> \in OpToRel(<, Nat))
  BY <1>2, <1>3, WFMin, Zenon
<1>5. \A y \in Missed : ~(y < x)
  BY <1>2, <1>4, Zenon DEF OpToRel
<1>6. x \in 1 .. N /\ x - 1 \notin Missed
  BY <1>5 DEF Missed
<1>7. QED
  BY <1>6 DEF Missed

----------------------------------------------------------------------------
(* The loop of build_stats counts what ExpectedStats counts over sets.     *)

Things(es, count) == UNION {{e} \X (1 .. e[count]) : e \in es}

StatsOf(es) ==
    [subdir_count |-> Cardinality(es),
     total_routines |-> Total(es, "routine_count"),
     total_loc |-> Total(es, "loc"),
     breakdown |-> [l \in {e.license : e \in es} |->
         [routine_count |-> Total({e \in es : e.license = l}, "routine_count"),
          loc |-> Total({e \in es : e.license = l}, "loc"),
          subdir_count |-> Cardinality({e \in es : e.license = l})]]]

LEMMA TotalIs ==
    ASSUME NEW es, NEW count
    PROVE  Total(es, count) = Cardinality(Things(es, count))
BY DEF Total, Things

\* One entry more adds its own count to a total.
LEMMA TotalGrows ==
    ASSUME NEW es, NEW e \in Counted, e \notin es, NEW count \in Counts,
           IsFiniteSet(Things(es, count))
    PROVE  /\ IsFiniteSet(Things(es \cup {e}, count))
           /\ Total(es, count) \in Nat
           /\ Total(es \cup {e}, count) = Total(es, count) + e[count]
<1> DEFINE own == {e} \X (1 .. e[count])
<1>1. e[count] \in Nat
  BY DEF Counted, Counts
<1>2. IsFiniteSet(1 .. e[count]) /\ Cardinality(1 .. e[count]) = e[count]
  BY <1>1, FS_Interval
<1>3. IsFiniteSet({e}) /\ Cardinality({e}) = 1
  BY FS_Singleton
<1>4. IsFiniteSet(own) /\ Cardinality(own) = e[count]
  <2>1. PICK one : one = {e}
    OBVIOUS
  <2>2. PICK numbers : numbers = 1 .. e[count]
    OBVIOUS
  <2>3. /\ IsFiniteSet(one \X numbers)
        /\ Cardinality(one \X numbers) = Cardinality(one) * Cardinality(numbers)
    BY <1>2, <1>3, <2>1, <2>2, FS_Product, Zenon
  <2>4. Cardinality(one) = 1 /\ Cardinality(numbers) = e[count]
    BY <1>2, <1>3, <2>1, <2>2
  <2>5. 1 * e[count] = e[count]
    BY <1>1
  <2>6. Cardinality(one \X numbers) = e[count]
    BY <2>3, <2>4, <2>5
  <2>7. QED
    BY <2>1, <2>2, <2>3, <2>6
<1>5. Things(es, count) \cap own = {}
  BY DEF Things
<1>6. Things(es \cup {e}, count) = Things(es, count) \cup own
  BY DEF Things
<1> HIDE DEF own
<1>7. /\ IsFiniteSet(Things(es, count) \cup own)
      /\ Cardinality(Things(es, count) \cup own) =
           Cardinality(Things(es, count)) + Cardinality(own) - Cardinality({})
  BY <1>4, <1>5, FS_Union
<1>8. Cardinality({}) = 0
  BY FS_EmptySet
<1>9. Cardinality(Things(es, count)) \in Nat
  BY FS_CardinalityType
<1>10. /\ Total(es, count) = Cardinality(Things(es, count))
       /\ Total(es \cup {e}, count) = Cardinality(Things(es \cup {e}, count))
  BY TotalIs, Zenon
<1>11. IsFiniteSet(Things(es \cup {e}, count))
  BY <1>7, <1>6
<1>12. Cardinality(Things(es \cup {e}, count)) = Cardinality(Things(es, count)) + e[count]
  <2>1. ASSUME NEW a, NEW b, NEW c \in Nat, NEW k \in Nat, b = k, a = c + b - 0
        PROVE  a = c + k
    BY <2>1
  <2>2. Cardinality(Things(es \cup {e}, count)) =
          Cardinality(Things(es, count)) + Cardinality(own) - 0
    BY <1>6, <1>7, <1>8
  <2>3. QED
    BY <1>1, <1>4, <1>9, <2>1, <2>2
<1>13. QED
  BY <1>9, <1>10, <1>11, <1>12

LEMMA TotalOfNone ==
    ASSUME NEW count
    PROVE  Total({}, count) = 0
<1>1. Things({}, count) = {}
  BY DEF Things
<1>2. QED
  BY <1>1, FS_EmptySet, TotalIs

----------------------------------------------------------------------------
(* What AddEntry does to the statistics of a set of entries.               *)

Summable(es) ==
    /\ IsFiniteSet(es)
    /\ \A count \in Counts : IsFiniteSet(Things(es, count))

LEMMA PartSummable ==
    ASSUME NEW es, Summable(es), NEW part, part \subseteq es
    PROVE  Summable(part)
<1>1. IsFiniteSet(part)
  BY FS_Subset DEF Summable
<1>2. ASSUME NEW count \in Counts
      PROVE  IsFiniteSet(Things(part, count))
  <2>1. Things(part, count) \subseteq Things(es, count)
    BY DEF Things
  <2>2. QED
    BY <2>1, FS_Subset DEF Summable
<1>3. QED
  BY <1>1, <1>2 DEF Summable

LEMMA SumGrows ==
    ASSUME NEW es, Summable(es), NEW e \in Counted, e \notin es
    PROVE  /\ Summable(es \cup {e})
           /\ Cardinality(es \cup {e}) = Cardinality(es) + 1
           /\ Total(es \cup {e}, "routine_count") = Total(es, "routine_count") + e.routine_count
           /\ Total(es \cup {e}, "loc") = Total(es, "loc") + e.loc
<1>1. IsFiniteSet(es \cup {e}) /\ Cardinality(es \cup {e}) = Cardinality(es) + 1
  BY FS_AddElement DEF Summable
<1>2. ASSUME NEW count \in Counts
      PROVE  /\ IsFiniteSet(Things(es \cup {e}, count))
             /\ Total(es \cup {e}, count) = Total(es, count) + e[count]
  BY TotalGrows DEF Summable
<1>3. e["routine_count"] = e.routine_count /\ e["loc"] = e.loc
  OBVIOUS
<1>4. QED
  BY <1>1, <1>2, <1>3 DEF Summable, Counts

LEMMA NothingCounted ==
    /\ Summable({})
    /\ StatsOf({}) = EmptyStats
<1>1. \A count : Things({}, count) = {}
  BY DEF Things
<1>2. Summable({})
  BY <1>1, FS_EmptySet DEF Summable
<1>3. Cardinality({}) = 0
  BY FS_EmptySet
<1> DEFINE licenses == {e.license : e \in {}}
<1>4. licenses = {}
  OBVIOUS
<1>5. StatsOf({}).breakdown = [l \in {} |-> NoBucket]
  BY DEF StatsOf
<1>6. QED
  BY <1>2, <1>3, <1>5, TotalOfNone DEF StatsOf, EmptyStats

LEMMA StatsGrow ==
    ASSUME NEW es, Summable(es), NEW e \in Counted, e \notin es
    PROVE  StatsOf(es \cup {e}) = AddEntry(StatsOf(es), e)
<1> DEFINE more == es \cup {e}
           old == StatsOf(es).breakdown
           Of(l) == {x \in es : x.license = l}
           Sums(s) == [routine_count |-> Total(s, "routine_count"), loc |-> Total(s, "loc"),
                       subdir_count |-> Cardinality(s)]
<1>1. DOMAIN old = {x.license : x \in es} /\ \A l \in DOMAIN old : old[l] = Sums(Of(l))
  BY DEF StatsOf
<1>2. DOMAIN StatsOf(more).breakdown = {x.license : x \in more}
  BY DEF StatsOf
<1>3. \A l \in {x.license : x \in more} :
        StatsOf(more).breakdown[l] = Sums({x \in more : x.license = l})
  BY DEF StatsOf
<1>4. {x.license : x \in more} = {x.license : x \in es} \cup {e.license}
  OBVIOUS
<1>5. DOMAIN Bucketed(old, e) = DOMAIN old \cup {e.license}
  BY DEF Bucketed
<1>6. ASSUME NEW l \in DOMAIN old \cup {e.license}
      PROVE  Bucketed(old, e)[l] = Sums({x \in more : x.license = l})
  <2>1. CASE l = e.license
    <3>1. {x \in more : x.license = l} = Of(l) \cup {e}
      BY <2>1
    <3>2. Summable(Of(l)) /\ e \notin Of(l)
      BY PartSummable
    <3>3. Sums(Of(l) \cup {e}) =
            [routine_count |-> Sums(Of(l)).routine_count + e.routine_count,
             loc |-> Sums(Of(l)).loc + e.loc,
             subdir_count |-> Sums(Of(l)).subdir_count + 1]
      <4> HIDE DEF Of
      <4>1. QED
        BY <3>2, SumGrows
    <3>4. l \notin DOMAIN old => Sums(Of(l)) = NoBucket
      <4>1. ASSUME l \notin DOMAIN old
            PROVE  Sums(Of(l)) = NoBucket
        <5>1. Of(l) = {}
          BY <1>1, <4>1
        <5>2. QED
          BY <5>1, TotalOfNone, FS_EmptySet DEF NoBucket
      <4>2. QED
        BY <4>1
    <3>5. l \in DOMAIN old => old[l] = Sums(Of(l))
      BY <1>1
    <3> HIDE DEF Sums, Of, old
    <3>6. QED
      BY <2>1, <3>1, <3>3, <3>4, <3>5 DEF Bucketed
  <2>2. CASE l # e.license
    <3>1. {x \in more : x.license = l} = Of(l)
      BY <2>2
    <3>2. Bucketed(old, e)[l] = old[l]
      BY <2>2 DEF Bucketed
    <3>3. l \in DOMAIN old
      BY <2>2
    <3>4. QED
      BY <1>1, <3>1, <3>2, <3>3
  <2>3. QED
    BY <2>1, <2>2
<1>7. StatsOf(more).breakdown = Bucketed(old, e)
  <2> DEFINE F == StatsOf(more).breakdown
             G == Bucketed(old, e)
  <2>1. F = [l \in DOMAIN F |-> F[l]]
    BY DEF StatsOf
  <2>2. G = [l \in DOMAIN G |-> G[l]]
    BY DEF Bucketed
  <2>3. DOMAIN F = DOMAIN G
    BY <1>1, <1>2, <1>4, <1>5
  <2>4. \A l \in DOMAIN F : F[l] = G[l]
    BY <1>1, <1>2, <1>3, <1>4, <1>6
  <2> HIDE DEF F, G
  <2>5. F = G
    BY <2>1, <2>2, <2>3, <2>4
  <2>6. QED
    BY <2>5 DEF F, G
<1>8. /\ Cardinality(more) = Cardinality(es) + 1
      /\ Total(more, "routine_count") = Total(es, "routine_count") + e.routine_count
      /\ Total(more, "loc") = Total(es, "loc") + e.loc
  BY SumGrows
<1>9. /\ StatsOf(es).subdir_count = Cardinality(es)
      /\ StatsOf(es).total_routines = Total(es, "routine_count")
      /\ StatsOf(es).total_loc = Total(es, "loc")
  BY DEF StatsOf
<1>10. StatsOf(more) =
         [subdir_count |-> Cardinality(more), total_routines |-> Total(more, "routine_count"),
          total_loc |-> Total(more, "loc"), breakdown |-> StatsOf(more).breakdown]
  BY DEF StatsOf
<1> HIDE DEF more, old
<1>11. StatsOf(more) = AddEntry(StatsOf(es), e)
  BY <1>7, <1>8, <1>9, <1>10 DEF AddEntry, old
<1>12. QED
  BY <1>11 DEF more

\* The names of a list of entries or of rows differ.
Named(list) == \A i, j \in DOMAIN list : list[i].name = list[j].name => i = j

\* build_stats of a manifest is what ExpectedStats counts in it.
THEOREM LoopCounts ==
    ASSUME NEW m \in Seq(Counted), Named(m)
    PROVE  build_stats(m) = ExpectedStats(m)
<1> DEFINE N == Len(m)
           First(n) == {m[i] : i \in 1 .. n}
           Eq(f) == f = [n \in 0 .. N |-> IF n = 0 THEN EmptyStats ELSE AddEntry(f[n - 1], m[n])]
           g == [n \in 0 .. N |-> StatsOf(First(n))]
<1>1. N \in Nat /\ DOMAIN m = 1 .. N /\ \A n \in 1 .. N : m[n] \in Counted
  OBVIOUS
<1>2. First(0) = {}
  OBVIOUS
<1>3. \A n \in 1 .. N : First(n) = First(n - 1) \cup {m[n]} /\ m[n] \notin First(n - 1)
  <2>1. TAKE n \in 1 .. N
  <2>2. 1 .. n = (1 .. n - 1) \cup {n}
    BY <1>1
  <2>3. First(n) = First(n - 1) \cup {m[n]}
    BY <2>2
  <2>4. \A i \in 1 .. n - 1 : m[i] # m[n]
    BY <1>1 DEF Named
  <2>5. m[n] \notin First(n - 1)
    BY <2>4
  <2>6. QED
    BY <2>3, <2>5
<1> HIDE DEF First, N
<1>4. \A n \in 0 .. N : Summable(First(n))
  <2> DEFINE S == {n \in 0 .. N : Summable(First(n))}
  <2>1. 0 \in S
    BY <1>1, <1>2, NothingCounted
  <2>2. \A n \in 1 .. N : n - 1 \in S => n \in S
    <3>1. ASSUME NEW n \in 1 .. N, Summable(First(n - 1))
          PROVE  Summable(First(n))
      <4>1. PICK es, e : es = First(n - 1) /\ e = m[n]
        OBVIOUS
      <4>2. Summable(es) /\ e \in Counted /\ e \notin es
        BY <1>1, <1>3, <3>1, <4>1
      <4>3. Summable(es \cup {e})
        BY <4>2, SumGrows, Zenon
      <4>4. QED
        BY <1>3, <4>1, <4>3, Zenon
    <3>2. QED
      BY <1>1, <3>1
  <2>3. 0 .. N \subseteq S
    <3> HIDE DEF S
    <3>1. QED
      BY <1>1, <2>1, <2>2, UpTo
  <2>4. QED
    BY <2>3
<1>5. \A n \in 1 .. N : StatsOf(First(n)) = AddEntry(StatsOf(First(n - 1)), m[n])
  <2>1. TAKE n \in 1 .. N
  <2>2. Summable(First(n - 1))
    BY <1>1, <1>4
  <2>3. QED
    BY <1>1, <1>3, <2>2, StatsGrow, Zenon
<1>6. Eq(g)
  <2>1. \A n \in 0 .. N : StatsOf(First(n)) =
          IF n = 0 THEN EmptyStats ELSE AddEntry(g[n - 1], m[n])
    <3>1. ASSUME NEW n \in 0 .. N, n # 0
          PROVE  StatsOf(First(n)) = AddEntry(g[n - 1], m[n])
      <4>1. n \in 1 .. N /\ n - 1 \in 0 .. N
        BY <1>1, <3>1
      <4>2. g[n - 1] = StatsOf(First(n - 1))
        BY <4>1
      <4>3. QED
        BY <1>5, <4>1, <4>2
    <3>2. StatsOf(First(0)) = EmptyStats
      BY <1>2, NothingCounted
    <3>3. QED
      BY <3>1, <3>2
  <2>2. QED
    BY <2>1, Zenon
<1> DEFINE h == CHOOSE f : Eq(f)
<1>7. build_stats(m) = h[N]
  BY Zenon DEF build_stats, N
<1>8. Eq(h)
  BY <1>6, Zenon
<1> HIDE DEF h
<1>9. \A n \in 0 .. N : h[n] = IF n = 0 THEN EmptyStats ELSE AddEntry(h[n - 1], m[n])
  <2>1. PICK f : f = h
    OBVIOUS
  <2>2. f = [n \in 0 .. N |-> IF n = 0 THEN EmptyStats ELSE AddEntry(f[n - 1], m[n])]
    BY <1>8, <2>1
  <2>3. \A n \in 0 .. N : f[n] = IF n = 0 THEN EmptyStats ELSE AddEntry(f[n - 1], m[n])
    BY <2>2, Zenon
  <2>4. QED
    BY <2>1, <2>3
<1>10. \A n \in 0 .. N : h[n] = StatsOf(First(n))
  <2> DEFINE S == {n \in 0 .. N : h[n] = StatsOf(First(n))}
  <2>1. 0 \in S
    <3>1. 0 \in 0 .. N
      BY <1>1
    <3>2. h[0] = EmptyStats
      BY <1>9, <3>1
    <3>3. StatsOf(First(0)) = EmptyStats
      BY <1>2, NothingCounted
    <3>4. QED
      BY <3>1, <3>2, <3>3
  <2>2. \A n \in 1 .. N : n - 1 \in S => n \in S
    <3>1. TAKE n \in 1 .. N
    <3>2. h[n] = AddEntry(h[n - 1], m[n])
      BY <1>1, <1>9
    <3>3. QED
      BY <1>1, <1>5, <3>2
  <2>3. 0 .. N \subseteq S
    <3> HIDE DEF S
    <3>1. QED
      BY <1>1, <2>1, <2>2, UpTo
  <2>4. QED
    BY <2>3
<1>11. First(N) = Elems(m)
  BY <1>1 DEF First, Elems
<1>12. h[N] = StatsOf(Elems(m))
  BY <1>1, <1>10, <1>11
<1>13. ExpectedStats(m) = StatsOf(Elems(m))
  BY DEF ExpectedStats, StatsOf
<1>14. QED
  BY <1>7, <1>12, <1>13

----------------------------------------------------------------------------
(* The rows the generator visits: those declared, each once.               *)

RowSet == [name : Subdirs, license : Licenses]

LEMMA NamesTyped ==
    /\ Len(Names) \in Nat /\ DOMAIN Names = 1 .. Len(Names)
    /\ \A i \in 1 .. Len(Names) : Names[i] \in Subdirs
    /\ \A i, j \in 1 .. Len(Names) : Names[i] = Names[j] => i = j
    /\ \A s \in Subdirs : \E i \in 1 .. Len(Names) : Names[i] = s
BY NamesAssumption DEF Subdirs, Elems

\* rows are the rows the first n names declare, in some order.
VisitedTo(rows, table, n) ==
    /\ rows \in Seq(RowSet)
    /\ Named(rows)
    /\ \A j \in DOMAIN rows :
          /\ \E i \in 1 .. n : rows[j].name = Names[i]
          /\ table[rows[j].name] # NoRow
          /\ rows[j].license = table[rows[j].name]
    /\ \A i \in 1 .. n : table[Names[i]] # NoRow => \E j \in DOMAIN rows : rows[j].name = Names[i]

LEMMA VisitAdds ==
    ASSUME NEW table \in [Subdirs -> Licenses \cup {NoRow}], NEW n \in 1 .. Len(Names),
           NEW rows, VisitedTo(rows, table, n - 1)
    PROVE  VisitedTo(Visit(rows, table, Names[n]), table, n)
<1>1. /\ n \in Nat /\ n - 1 \in Nat /\ 1 .. n = (1 .. n - 1) \cup {n}
      /\ Names[n] \in Subdirs
  BY NamesTyped
<1>2. CASE table[Names[n]] = NoRow
  <2>1. Visit(rows, table, Names[n]) = rows
    BY <1>2 DEF Visit
  <2>2. VisitedTo(rows, table, n)
    BY <1>1, <1>2 DEF VisitedTo
  <2>3. QED
    BY <2>1, <2>2
<1>3. CASE table[Names[n]] # NoRow
  <2>1. PICK r : r = Row(Names[n], table[Names[n]])
    OBVIOUS
  <2>2. r \in RowSet /\ r.name = Names[n] /\ r.license = table[Names[n]]
    BY <1>1, <1>3, <2>1 DEF Row, RowSet
  <2>3. PICK more : more = Append(rows, r)
    OBVIOUS
  <2>4. Visit(rows, table, Names[n]) = more
    BY <1>3, <2>1, <2>3 DEF Visit
  <2>5. rows \in Seq(RowSet)
    BY DEF VisitedTo
  <2>6. /\ more \in Seq(RowSet) /\ Len(rows) \in Nat /\ DOMAIN rows = 1 .. Len(rows)
        /\ DOMAIN more = 1 .. Len(rows) + 1
        /\ \A j \in 1 .. Len(rows) : more[j] = rows[j]
        /\ more[Len(rows) + 1] = r
    BY <2>2, <2>3, <2>5
  <2>7. \A j \in DOMAIN more : (j \in DOMAIN rows /\ more[j] = rows[j])
                              \/ (j = Len(rows) + 1 /\ more[j] = r)
    BY <2>6
  <2>8. \A j \in DOMAIN rows : rows[j].name # r.name
    <3>1. \A i \in 1 .. n - 1 : Names[i] # Names[n]
      BY NamesTyped
    <3>2. QED
      BY <2>2, <3>1 DEF VisitedTo
  <2>9. Named(more)
    BY <2>7, <2>8 DEF VisitedTo, Named
  <2>10. ASSUME NEW j \in DOMAIN more
         PROVE  /\ \E i \in 1 .. n : more[j].name = Names[i]
                /\ table[more[j].name] # NoRow
                /\ more[j].license = table[more[j].name]
    BY <1>1, <1>3, <2>2, <2>7 DEF VisitedTo
  <2>11. ASSUME NEW i \in 1 .. n, table[Names[i]] # NoRow
         PROVE  \E j \in DOMAIN more : more[j].name = Names[i]
    <3>1. CASE i = n
      BY <2>2, <2>6, <3>1
    <3>2. CASE i \in 1 .. n - 1
      <4>1. PICK j \in DOMAIN rows : rows[j].name = Names[i]
        BY <2>11, <3>2 DEF VisitedTo
      <4>2. j \in DOMAIN more /\ more[j] = rows[j]
        BY <2>6, <4>1
      <4>3. QED
        BY <4>1, <4>2
    <3>3. QED
      BY <1>1, <3>1, <3>2
  <2>12. VisitedTo(more, table, n)
    BY <2>6, <2>9, <2>10, <2>11 DEF VisitedTo
  <2>13. QED
    BY <2>4, <2>12
<1>4. QED
  BY <1>2, <1>3

\* load_sources and sorted() keep every declared row, and each once.
LEMMA RowsDeclared ==
    ASSUME NEW table \in [Subdirs -> Licenses \cup {NoRow}]
    PROVE  VisitedTo(Rows(table), table, Len(Names))
<1> DEFINE Base(f, N) == f = [n \in 0 .. N |-> IF n = 0 THEN <<>> ELSE Visit(f[n - 1], table, Names[n])]
           L == Len(Names)
<1>1. L \in Nat
  BY NamesTyped
<1> HIDE DEF L
<1>2. \E f : Base(f, L)
  <2> DEFINE S == {N \in 0 .. L : \E f : Base(f, N)}
  <2>1. 0 \in S
    <3>1. PICK f : f = [n \in 0 .. 0 |-> <<>>]
      OBVIOUS
    <3>2. \A n \in 0 .. 0 : <<>> = IF n = 0 THEN <<>> ELSE Visit(f[n - 1], table, Names[n])
      OBVIOUS
    <3>3. Base(f, 0)
      BY <3>1, <3>2, Zenon
    <3>4. 0 \in 0 .. L
      BY <1>1
    <3>5. QED
      BY <3>3, <3>4
  <2>2. ASSUME NEW N \in 1 .. L, N - 1 \in S
        PROVE  N \in S
    <3>1. PICK f : Base(f, N - 1)
      BY <2>2
    <3>2. PICK g : g = [n \in 0 .. N |->
                          IF n = N THEN Visit(f[N - 1], table, Names[N]) ELSE f[n]]
      OBVIOUS
    <3>3. N \in Nat /\ N - 1 \in Nat /\ N # 0 /\ N - 1 \in 0 .. N - 1 /\ N \in 0 .. L
      BY <1>1
    <3>4. \A n \in 0 .. N - 1 : f[n] = IF n = 0 THEN <<>> ELSE Visit(f[n - 1], table, Names[n])
      BY <3>1, Zenon
    <3>5. \A n \in 0 .. N - 1 : g[n] = f[n]
      BY <3>2, <3>3
    <3>6. ASSUME NEW n \in 0 .. N
          PROVE  g[n] = IF n = 0 THEN <<>> ELSE Visit(g[n - 1], table, Names[n])
      <4>1. CASE n = N
        <5>1. g[N] = Visit(f[N - 1], table, Names[N])
          BY <3>2, <3>3
        <5>2. g[N - 1] = f[N - 1]
          BY <3>3, <3>5
        <5>3. QED
          BY <3>3, <4>1, <5>1, <5>2
      <4>2. CASE n = 0
        BY <3>3, <3>4, <3>5, <4>2
      <4>3. CASE n # N /\ n # 0
        <5>1. n \in 0 .. N - 1 /\ n - 1 \in 0 .. N - 1
          BY <3>3, <4>3
        <5>2. QED
          BY <3>4, <3>5, <4>3, <5>1
      <4>4. QED
        BY <4>1, <4>2, <4>3
    <3>7. DOMAIN g = 0 .. N /\ g = [n \in DOMAIN g |-> g[n]]
      BY <3>2
    <3>8. Base(g, N)
      BY <3>6, <3>7, Zenon
    <3>9. QED
      BY <3>3, <3>8
  <2>3. 0 .. L \subseteq S
    <3>1. \A N \in 1 .. L : N - 1 \in S => N \in S
      BY <2>2
    <3> HIDE DEF S
    <3>2. QED
      BY <1>1, <2>1, <3>1, UpTo
  <2>4. L \in S
    BY <1>1, <2>3
  <2>5. QED
    BY <2>4
<1> DEFINE h == CHOOSE f : Base(f, L)
<1>3. Rows(table) = h[L]
  BY Zenon DEF Rows, L
<1>4. Base(h, L)
  BY <1>2, Zenon
<1> HIDE DEF h
<1>5. \A n \in 0 .. L : h[n] = IF n = 0 THEN <<>> ELSE Visit(h[n - 1], table, Names[n])
  <2>1. PICK f : f = h
    OBVIOUS
  <2>2. f = [n \in 0 .. L |-> IF n = 0 THEN <<>> ELSE Visit(f[n - 1], table, Names[n])]
    BY <1>4, <2>1
  <2>3. \A n \in 0 .. L : f[n] = IF n = 0 THEN <<>> ELSE Visit(f[n - 1], table, Names[n])
    BY <2>2, Zenon
  <2>4. QED
    BY <2>1, <2>3
<1>6. \A n \in 0 .. L : VisitedTo(h[n], table, n)
  <2> DEFINE S == {n \in 0 .. L : VisitedTo(h[n], table, n)}
  <2>1. 0 \in S
    <3>1. 0 \in 0 .. L /\ h[0] = <<>>
      BY <1>1, <1>5
    <3>2. VisitedTo(<<>>, table, 0)
      BY DEF VisitedTo, Named
    <3>3. QED
      BY <3>1, <3>2
  <2>2. \A n \in 1 .. L : n - 1 \in S => n \in S
    <3>1. ASSUME NEW n \in 1 .. L, VisitedTo(h[n - 1], table, n - 1)
          PROVE  VisitedTo(h[n], table, n)
      <4>1. h[n] = Visit(h[n - 1], table, Names[n])
        BY <1>1, <1>5
      <4>2. n \in 1 .. Len(Names)
        BY DEF L
      <4>3. VisitedTo(Visit(h[n - 1], table, Names[n]), table, n)
        BY <3>1, <4>2, VisitAdds
      <4>4. QED
        BY <4>1, <4>3
    <3>2. \A n \in 1 .. L : n \in 0 .. L
      BY <1>1
    <3>3. QED
      BY <3>1, <3>2
  <2>3. 0 .. L \subseteq S
    <3> HIDE DEF S
    <3>1. QED
      BY <1>1, <2>1, <2>2, UpTo
  <2>4. QED
    BY <2>3
<1>7. VisitedTo(h[L], table, L)
  BY <1>1, <1>6
<1>8. QED
  BY <1>3, <1>7 DEF L

----------------------------------------------------------------------------
(* The invariants.                                                         *)

IsFile(f) == f = [st |-> f.st, json |-> f.json] /\ f.st \in {"gone", "torn", "json"}

IsCommit(c) ==
    /\ c = [table |-> c.table, tree |-> c.tree, manifest |-> c.manifest, stats |-> c.stats]
    /\ c.table \in [Subdirs -> Licenses \cup {NoRow}]
    /\ c.tree \in [Subdirs -> Snapshots \cup {NoDir}]
    /\ c.manifest \in Payloads
    /\ IsFile(c.stats)

TypeInv ==
    /\ work = [x \in Sites |-> work[x]] /\ base = [x \in Sites |-> base[x]]
    /\ \A x \in Sites : IsCommit(work[x]) /\ IsCommit(base[x])
    /\ pc \in [Sites -> {"idle", "count", "stats", "diff"}]
    /\ target \in [Sites -> {"manifest", "check-manifest"}]
    /\ todo \in [Sites -> Seq(RowSet)]
    /\ entries \in [Sites -> Seq(Counted)]
    /\ verdict \in [Sites -> {"none", "green", "red"}]
    /\ made \in [Sites -> BOOLEAN]

\* No name is counted twice.
NamesOnce == \A x \in Sites :
    /\ Named(entries[x]) /\ Named(todo[x])
    /\ \A i \in DOMAIN entries[x], j \in DOMAIN todo[x] : entries[x][i].name # todo[x][j].name

\* The entries are those of the first rows, the rows to do are the others.
CountsRows(c, es, rest) ==
    LET rows == Rows(c.table) IN
    /\ Len(rows) = Len(es) + Len(rest)
    /\ \A i \in 1 .. Len(es) :
          /\ c.tree[rows[i].name] # NoDir
          /\ es[i] = Entry(rows[i].name, rows[i].license, c.tree[rows[i].name])
    /\ \A j \in 1 .. Len(rest) : rest[j] = rows[Len(es) + j]

\* The job of CI, step by step.
GateInv ==
    /\ work["ci"].table = base["ci"].table /\ work["ci"].tree = base["ci"].tree
    /\ pc["ci"] # "idle" => verdict["ci"] = "none" /\ target["ci"] = "check-manifest"
    /\ pc["ci"] = "count" => CountsRows(base["ci"], entries["ci"], todo["ci"])
    /\ pc["ci"] \in {"stats", "diff"} =>
          /\ Complete(base["ci"])
          /\ entries["ci"] = ExpectedManifest(base["ci"])
          /\ work["ci"].manifest = Json(ExpectedManifest(base["ci"]))
    /\ pc["ci"] = "diff" => work["ci"].stats = Json(ExpectedStats(ExpectedManifest(base["ci"])))
    /\ GateDecides

----------------------------------------------------------------------------
(* Types.                                                                  *)

LEMMA PayloadsAre ==
    /\ \A es \in Seq(Counted) : Json(es) \in Payloads
    /\ Gone \in Payloads /\ Torn \in Payloads
    /\ IsFile(Gone) /\ IsFile(Torn)
    /\ \A j : IsFile(Json(j))
BY DEF Payloads, Counted, Json, Gone, Torn, IsFile

LEMMA PayloadIsFile ==
    ASSUME NEW f \in Payloads
    PROVE  IsFile(f)
BY DEF Payloads, IsFile

LEMMA CommitMade ==
    ASSUME NEW table \in [Subdirs -> Licenses \cup {NoRow}],
           NEW tree \in [Subdirs -> Snapshots \cup {NoDir}],
           NEW manifest \in Payloads, NEW stats, IsFile(stats)
    PROVE  IsCommit([table |-> table, tree |-> tree, manifest |-> manifest, stats |-> stats])
BY DEF IsCommit

LEMMA CommitWith ==
    ASSUME NEW c, IsCommit(c)
    PROVE  /\ \A t \in [Subdirs -> Licenses \cup {NoRow}] : IsCommit([c EXCEPT !.table = t])
           /\ \A t \in [Subdirs -> Snapshots \cup {NoDir}] : IsCommit([c EXCEPT !.tree = t])
           /\ \A m \in Payloads : IsCommit([c EXCEPT !.manifest = m])
           /\ \A f : IsFile(f) => IsCommit([c EXCEPT !.stats = f])
<1>1. c = [table |-> c.table, tree |-> c.tree, manifest |-> c.manifest, stats |-> c.stats]
  BY DEF IsCommit
<1>2. /\ c.table \in [Subdirs -> Licenses \cup {NoRow}]
      /\ c.tree \in [Subdirs -> Snapshots \cup {NoDir}]
      /\ c.manifest \in Payloads /\ IsFile(c.stats)
  BY DEF IsCommit
<1>3. PICK t0, r0, m0, f0 : t0 = c.table /\ r0 = c.tree /\ m0 = c.manifest /\ f0 = c.stats
  OBVIOUS
<1>4. c = [table |-> t0, tree |-> r0, manifest |-> m0, stats |-> f0]
  BY <1>1, <1>3
<1>5. /\ \A t : [c EXCEPT !.table = t] = [table |-> t, tree |-> r0, manifest |-> m0, stats |-> f0]
      /\ \A t : [c EXCEPT !.tree = t] = [table |-> t0, tree |-> t, manifest |-> m0, stats |-> f0]
      /\ \A m : [c EXCEPT !.manifest = m] = [table |-> t0, tree |-> r0, manifest |-> m, stats |-> f0]
      /\ \A f : [c EXCEPT !.stats = f] = [table |-> t0, tree |-> r0, manifest |-> m0, stats |-> f]
  BY <1>4
<1>6. /\ t0 \in [Subdirs -> Licenses \cup {NoRow}] /\ r0 \in [Subdirs -> Snapshots \cup {NoDir}]
      /\ m0 \in Payloads /\ IsFile(f0)
  BY <1>2, <1>3
<1>7. \A t \in [Subdirs -> Licenses \cup {NoRow}] : IsCommit([c EXCEPT !.table = t])
  <2>1. TAKE t \in [Subdirs -> Licenses \cup {NoRow}]
  <2>2. PICK d : d = [c EXCEPT !.table = t]
    OBVIOUS
  <2>3. d = [table |-> t, tree |-> r0, manifest |-> m0, stats |-> f0]
    BY <1>5, <2>2
  <2>4. IsCommit(d)
    BY <1>6, <2>3, CommitMade
  <2>5. QED
    BY <2>2, <2>4
<1>8. \A t \in [Subdirs -> Snapshots \cup {NoDir}] : IsCommit([c EXCEPT !.tree = t])
  <2>1. TAKE t \in [Subdirs -> Snapshots \cup {NoDir}]
  <2>2. PICK d : d = [c EXCEPT !.tree = t]
    OBVIOUS
  <2>3. d = [table |-> t0, tree |-> t, manifest |-> m0, stats |-> f0]
    BY <1>5, <2>2
  <2>4. IsCommit(d)
    BY <1>6, <2>3, CommitMade
  <2>5. QED
    BY <2>2, <2>4
<1>9. \A m \in Payloads : IsCommit([c EXCEPT !.manifest = m])
  <2>1. TAKE m \in Payloads
  <2>2. PICK d : d = [c EXCEPT !.manifest = m]
    OBVIOUS
  <2>3. d = [table |-> t0, tree |-> r0, manifest |-> m, stats |-> f0]
    BY <1>5, <2>2
  <2>4. IsCommit(d)
    BY <1>6, <2>3, CommitMade
  <2>5. QED
    BY <2>2, <2>4
<1>10. ASSUME NEW f, IsFile(f)
       PROVE  IsCommit([c EXCEPT !.stats = f])
  <2>1. PICK d : d = [c EXCEPT !.stats = f]
    OBVIOUS
  <2>2. d = [table |-> t0, tree |-> r0, manifest |-> m0, stats |-> f]
    BY <1>5, <2>1
  <2>3. IsCommit(d)
    BY <1>6, <1>10, <2>2, CommitMade
  <2>4. QED
    BY <2>1, <2>3
<1>11. QED
  BY <1>7, <1>8, <1>9, <1>10

LEMMA EntryCounted ==
    ASSUME NEW s \in Subdirs, NEW l \in Licenses, NEW v \in Snapshots
    PROVE  Entry(s, l, v) \in Counted
BY CountsAssumption DEF Entry, Counted

LEMMA FreshTyped ==
    /\ Fresh.table \in [Subdirs -> Licenses \cup {NoRow}]
    /\ Fresh.tree \in [Subdirs -> Snapshots \cup {NoDir}]
    /\ \A s \in Subdirs : Fresh.table[s] \in Licenses /\ Fresh.tree[s] \in Snapshots
    /\ FreshManifest \in Seq(Counted)
    /\ Named(FreshManifest)
<1>1. (CHOOSE l \in Licenses : TRUE) \in Licenses /\ (CHOOSE v \in Snapshots : TRUE) \in Snapshots
  BY MarksAssumption
<1>2. /\ Fresh.table \in [Subdirs -> Licenses \cup {NoRow}]
      /\ Fresh.tree \in [Subdirs -> Snapshots \cup {NoDir}]
      /\ \A s \in Subdirs : Fresh.table[s] \in Licenses /\ Fresh.tree[s] \in Snapshots
  BY <1>1 DEF Fresh
<1>3. \A i \in 1 .. Len(Names) :
        Entry(Names[i], Fresh.table[Names[i]], Fresh.tree[Names[i]]) \in Counted
  BY <1>2, NamesTyped, EntryCounted
<1>4. /\ DOMAIN FreshManifest = 1 .. Len(Names)
      /\ \A i \in 1 .. Len(Names) :
           FreshManifest[i] = Entry(Names[i], Fresh.table[Names[i]], Fresh.tree[Names[i]])
  BY NamesTyped DEF FreshManifest
<1>5. FreshManifest = [i \in 1 .. Len(Names) |-> FreshManifest[i]]
  BY NamesTyped DEF FreshManifest
<1>6. FreshManifest \in Seq(Counted)
  BY <1>3, <1>4, <1>5, NamesTyped
<1>7. \A i \in 1 .. Len(Names) : FreshManifest[i].name = Names[i]
  BY <1>4 DEF Entry
<1>8. Named(FreshManifest)
  BY <1>4, <1>7, NamesTyped DEF Named
<1>9. QED
  BY <1>2, <1>6, <1>8

LEMMA FirstCommitIs ==
    /\ IsCommit(FirstCommit)
    /\ FirstCommit.stats = Json(ExpectedStats(FreshManifest))
    /\ FirstCommit.manifest = Json(FreshManifest)
    /\ FirstCommit.manifest.json = FreshManifest
<1>1. IsCommit(FirstCommit)
  BY FreshTyped, PayloadsAre, CommitMade DEF FirstCommit
<1>2. FirstCommit.stats = Json(build_stats(FreshManifest))
  BY DEF FirstCommit
<1>3. FirstCommit.manifest = Json(FreshManifest) /\ Json(FreshManifest).json = FreshManifest
  BY DEF FirstCommit, Json
<1>4. QED
  BY <1>1, <1>2, <1>3, FreshTyped, LoopCounts

----------------------------------------------------------------------------
(* What an edit leaves is a tree again.                                    *)

LEMMA EditsAreOfCommits ==
    ASSUME TypeInv, Maintain
    PROVE  Commit \/ \E w : IsCommit(w) /\ Edit(w)
<1>1. PICK c : c = work["dev"]
  OBVIOUS
<1>2. IsCommit(c)
  BY <1>1 DEF TypeInv, Sites
<1>3. /\ c.table \in [Subdirs -> Licenses \cup {NoRow}]
      /\ c.tree \in [Subdirs -> Snapshots \cup {NoDir}]
      /\ c.manifest \in Payloads /\ IsFile(c.stats)
      /\ c = [table |-> c.table, tree |-> c.tree, manifest |-> c.manifest, stats |-> c.stats]
  BY <1>2 DEF IsCommit
<1>4. ASSUME NEW s \in Subdirs, EditTable(s)
      PROVE  \E w : IsCommit(w) /\ Edit(w)
  <2>1. PICK row \in Licenses \cup {NoRow} : Edit([work["dev"] EXCEPT !.table[s] = row])
    BY <1>4 DEF EditTable
  <2>2. PICK w : w = [c EXCEPT !.table[s] = row]
    OBVIOUS
  <2>3. w = [c EXCEPT !.table = [c.table EXCEPT ![s] = row]]
    BY <1>3, <2>2
  <2>4. [c.table EXCEPT ![s] = row] \in [Subdirs -> Licenses \cup {NoRow}]
    BY <1>3
  <2>5. IsCommit(w)
    BY <1>2, <2>3, <2>4, CommitWith
  <2>6. Edit(w)
    BY <1>1, <2>1, <2>2
  <2>7. QED
    BY <2>5, <2>6
<1>5. ASSUME NEW s \in Subdirs, NEW v \in Snapshots \cup {NoDir},
             Edit([work["dev"] EXCEPT !.tree[s] = v])
      PROVE  \E w : IsCommit(w) /\ Edit(w)
  <2>1. PICK w : w = [c EXCEPT !.tree[s] = v]
    OBVIOUS
  <2>2. w = [c EXCEPT !.tree = [c.tree EXCEPT ![s] = v]]
    BY <1>3, <2>1
  <2>3. [c.tree EXCEPT ![s] = v] \in [Subdirs -> Snapshots \cup {NoDir}]
    BY <1>3
  <2>4. IsCommit(w)
    BY <1>2, <2>2, <2>3, CommitWith
  <2>5. Edit(w)
    BY <1>1, <1>5, <2>1
  <2>6. QED
    BY <2>4, <2>5
<1>6. ASSUME NEW f \in Files, DeleteFile(f)
      PROVE  \E w : IsCommit(w) /\ Edit(w)
  <2>1. PICK w : w = [c EXCEPT ![f] = Gone]
    OBVIOUS
  <2>2. Edit(w)
    BY <1>1, <1>6, <2>1 DEF DeleteFile
  <2>3. f = "manifest" => w = [c EXCEPT !.manifest = Gone]
    BY <2>1
  <2>4. f = "stats" => w = [c EXCEPT !.stats = Gone]
    BY <2>1
  <2>5. IsCommit([c EXCEPT !.manifest = Gone]) /\ IsCommit([c EXCEPT !.stats = Gone])
    BY <1>2, PayloadsAre, CommitWith
  <2>6. IsCommit(w)
    BY <2>3, <2>4, <2>5 DEF Files
  <2>7. QED
    BY <2>2, <2>6
<1>7. ASSUME EditFile("manifest")
      PROVE  \E w : IsCommit(w) /\ Edit(w)
  <2>1. PICK w : w = [c EXCEPT !.manifest.json = Tail(@)]
    OBVIOUS
  <2>2. Edit(w) /\ c.manifest.json # <<>>
    BY <1>1, <1>7, <2>1 DEF EditFile
  <2>3. PICK es : es = c.manifest.json
    OBVIOUS
  <2>4. es \in Seq(Counted) /\ es # <<>>
    BY <1>3, <2>2, <2>3 DEF Payloads, Counted
  <2>5. Tail(es) \in Seq(Counted)
    BY <2>4
  <2>6. [c.manifest EXCEPT !.json = Tail(es)] \in Payloads
    BY <1>3, <2>5 DEF Payloads, Counted
  <2>7. w = [c EXCEPT !.manifest = [c.manifest EXCEPT !.json = Tail(es)]]
    BY <1>3, <2>1, <2>3 DEF Payloads
  <2>8. IsCommit(w)
    BY <1>2, <2>6, <2>7, CommitWith
  <2>9. QED
    BY <2>2, <2>8
<1>8. ASSUME EditFile("stats")
      PROVE  \E w : IsCommit(w) /\ Edit(w)
  <2>1. PICK w : w = [c EXCEPT !.stats.json.total_loc = @ + 1]
    OBVIOUS
  <2>2. Edit(w)
    BY <1>1, <1>8, <2>1 DEF EditFile
  <2>3. PICK j : j = [c.stats.json EXCEPT !.total_loc = @ + 1]
    OBVIOUS
  <2>4. w = [c EXCEPT !.stats = [c.stats EXCEPT !.json = j]]
    BY <1>3, <2>1, <2>3 DEF IsFile
  <2>5. IsFile([c.stats EXCEPT !.json = j])
    BY <1>3 DEF IsFile
  <2>6. IsCommit(w)
    BY <1>2, <2>4, <2>5, CommitWith
  <2>7. QED
    BY <2>2, <2>6
<1>9. ASSUME NEW s \in Subdirs, RemoveSnapshot(s) \/ InstallSnapshot(s)
      PROVE  \E w : IsCommit(w) /\ Edit(w)
  <2>1. CASE RemoveSnapshot(s)
    BY <1>5, <2>1 DEF RemoveSnapshot
  <2>2. CASE InstallSnapshot(s)
    <3>1. PICK v \in Snapshots : Edit([work["dev"] EXCEPT !.tree[s] = v])
      BY <2>2 DEF InstallSnapshot
    <3>2. QED
      BY <1>5, <3>1
  <2>3. QED
    BY <1>9, <2>1, <2>2
<1>10. ASSUME NEW f \in Files, EditFile(f)
       PROVE  \E w : IsCommit(w) /\ Edit(w)
  BY <1>7, <1>8, <1>10 DEF Files
<1>11. QED
  BY <1>4, <1>6, <1>9, <1>10 DEF Maintain

LEMMA TypesInit ==
    ASSUME Init
    PROVE  TypeInv
<1>1. \A x \in Sites : work[x] = FirstCommit /\ base[x] = FirstCommit
  BY DEF Init
<1>2. \A x \in Sites : IsCommit(work[x]) /\ IsCommit(base[x])
  BY <1>1, FirstCommitIs
<1>3. work = [x \in Sites |-> work[x]] /\ base = [x \in Sites |-> base[x]]
  BY DEF Init
<1>4. <<>> \in Seq(RowSet) /\ <<>> \in Seq(Counted)
  OBVIOUS
<1>5. QED
  BY <1>2, <1>3, <1>4 DEF Init, TypeInv

\* work and base stay functions on the sites whose values are trees.
LEMMA TreesTyped ==
    ASSUME TypeInv, NEW x \in Sites, NEW w, IsCommit(w)
    PROVE  /\ work' = [work EXCEPT ![x] = w] =>
                work' = [y \in Sites |-> work'[y]] /\ \A y \in Sites : IsCommit(work'[y])
           /\ base' = [base EXCEPT ![x] = w] =>
                base' = [y \in Sites |-> base'[y]] /\ \A y \in Sites : IsCommit(base'[y])
<1>1. ASSUME NEW f, NEW g, f = [y \in Sites |-> f[y]], \A y \in Sites : IsCommit(f[y]),
             g = [f EXCEPT ![x] = w]
      PROVE  g = [y \in Sites |-> g[y]] /\ \A y \in Sites : IsCommit(g[y])
  <2>1. DOMAIN f = Sites
    BY <1>1, Zenon
  <2>2. g = [y \in Sites |-> IF y = x THEN w ELSE f[y]]
    BY <1>1, <2>1
  <2>3. \A y \in Sites : g[y] = IF y = x THEN w ELSE f[y]
    BY <2>2
  <2>4. QED
    BY <1>1, <2>2, <2>3
<1>2. PICK fw, fb, gw, gb : fw = work /\ fb = base /\ gw = work' /\ gb = base'
  OBVIOUS
<1>3. /\ fw = [y \in Sites |-> fw[y]] /\ \A y \in Sites : IsCommit(fw[y])
      /\ fb = [y \in Sites |-> fb[y]] /\ \A y \in Sites : IsCommit(fb[y])
  BY <1>2 DEF TypeInv
<1>4. gw = [fw EXCEPT ![x] = w] => gw = [y \in Sites |-> gw[y]] /\ \A y \in Sites : IsCommit(gw[y])
  BY <1>1, <1>3
<1>5. gb = [fb EXCEPT ![x] = w] => gb = [y \in Sites |-> gb[y]] /\ \A y \in Sites : IsCommit(gb[y])
  BY <1>1, <1>3
<1>6. QED
  BY <1>2, <1>4, <1>5

LEMMA EditTyped ==
    ASSUME TypeInv, NEW w, IsCommit(w), Edit(w)
    PROVE  TypeInv'
<1>1. work' = [work EXCEPT !["dev"] = w] /\ "dev" \in Sites
  BY DEF Edit, Sites
<1>2. work' = [y \in Sites |-> work'[y]] /\ \A y \in Sites : IsCommit(work'[y])
  BY <1>1, TreesTyped
<1>3. made' \in [Sites -> BOOLEAN]
  <2>1. made \in [Sites -> BOOLEAN]
    BY DEF TypeInv
  <2>2. (made["dev"] /\ \A f \in Files : w[f] = work["dev"][f]) \in BOOLEAN
    OBVIOUS
  <2>3. made' = [made EXCEPT !["dev"] = made["dev"] /\ \A f \in Files : w[f] = work["dev"][f]]
    BY DEF Edit
  <2>4. QED
    BY <2>1, <2>2, <2>3, Zenon
<1>4. QED
  BY <1>2, <1>3 DEF TypeInv, Edit

LEMMA CommitTyped ==
    ASSUME TypeInv, Commit
    PROVE  TypeInv'
<1>1. PICK paths \in SUBSET DOMAIN FirstCommit :
        base' = [base EXCEPT !["dev"] =
          [f \in DOMAIN FirstCommit |-> IF f \in paths THEN work["dev"][f] ELSE base["dev"][f]]]
  BY DEF Commit
<1>2. PICK c : c = [f \in DOMAIN FirstCommit |-> IF f \in paths THEN work["dev"][f] ELSE base["dev"][f]]
  OBVIOUS
<1>3. DOMAIN FirstCommit = {"table", "tree", "manifest", "stats"}
  BY DEF FirstCommit
<1>4. c = [table |-> c.table, tree |-> c.tree, manifest |-> c.manifest, stats |-> c.stats]
  BY <1>2, <1>3
<1>5. PICK v, b : v = work["dev"] /\ b = base["dev"]
  OBVIOUS
<1>6. IsCommit(v) /\ IsCommit(b)
  BY <1>5 DEF TypeInv, Sites
<1>7. /\ c.table = v.table \/ c.table = b.table
      /\ c.tree = v.tree \/ c.tree = b.tree
      /\ c.manifest = v.manifest \/ c.manifest = b.manifest
      /\ c.stats = v.stats \/ c.stats = b.stats
  BY <1>2, <1>3, <1>5
<1>8. IsCommit(c)
  BY <1>4, <1>6, <1>7 DEF IsCommit
<1>9. base' = [y \in Sites |-> base'[y]] /\ \A y \in Sites : IsCommit(base'[y])
  <2>1. base' = [base EXCEPT !["dev"] = c] /\ "dev" \in Sites
    BY <1>1, <1>2 DEF Sites
  <2>2. QED
    BY <1>8, <2>1, TreesTyped
<1>10. QED
  BY <1>9 DEF TypeInv, Commit

LEMMA CheckOutTyped ==
    ASSUME TypeInv, CheckOut
    PROVE  TypeInv'
<1>1. PICK c : c = base["dev"]
  OBVIOUS
<1>2. IsCommit(c) /\ "ci" \in Sites
  BY <1>1 DEF TypeInv, Sites
<1>3. base' = [base EXCEPT !["ci"] = c] /\ work' = [work EXCEPT !["ci"] = c]
  BY <1>1 DEF CheckOut
<1>4. /\ work' = [y \in Sites |-> work'[y]] /\ base' = [y \in Sites |-> base'[y]]
      /\ \A y \in Sites : IsCommit(work'[y]) /\ IsCommit(base'[y])
  BY <1>2, <1>3, TreesTyped
<1>5. verdict' \in [Sites -> {"none", "green", "red"}] /\ made' \in [Sites -> BOOLEAN]
  BY DEF CheckOut, TypeInv
<1>6. QED
  BY <1>4, <1>5 DEF TypeInv, CheckOut

LEMMA StartTyped ==
    ASSUME TypeInv, NEW x \in Sites, StartMake(x)
    PROVE  TypeInv'
<1>1. work[x].table \in [Subdirs -> Licenses \cup {NoRow}]
  BY DEF TypeInv, IsCommit
<1>2. Rows(work[x].table) \in Seq(RowSet)
  BY <1>1, RowsDeclared DEF VisitedTo
<1>3. todo' \in [Sites -> Seq(RowSet)]
  BY <1>2 DEF StartMake, TypeInv
<1>4. entries' \in [Sites -> Seq(Counted)]
  <2>1. <<>> \in Seq(Counted)
    OBVIOUS
  <2>2. QED
    BY <2>1 DEF StartMake, TypeInv
<1>5. pc' \in [Sites -> {"idle", "count", "stats", "diff"}]
  BY DEF StartMake, Goto, TypeInv
<1>6. target' \in [Sites -> {"manifest", "check-manifest"}]
  BY DEF StartMake, TypeInv
<1>7. QED
  BY <1>3, <1>4, <1>5, <1>6 DEF StartMake, TypeInv

\* The row at hand, and the entry made of it.
LEMMA HeadRow ==
    ASSUME TypeInv, NEW x \in Sites, todo[x] # <<>>
    PROVE  /\ Head(todo[x]) \in RowSet /\ Tail(todo[x]) \in Seq(RowSet)
           /\ work[x].tree[Head(todo[x]).name] \in Snapshots \cup {NoDir}
<1>1. todo[x] \in Seq(RowSet)
  BY DEF TypeInv
<1>2. Head(todo[x]) \in RowSet /\ Tail(todo[x]) \in Seq(RowSet)
  BY <1>1
<1>3. work[x].tree \in [Subdirs -> Snapshots \cup {NoDir}]
  BY DEF TypeInv, IsCommit
<1>4. QED
  BY <1>2, <1>3 DEF RowSet

LEMMA CountTyped ==
    ASSUME TypeInv, NEW x \in Sites, CountSubdir(x)
    PROVE  TypeInv'
<1>1. PICK row, v : row = Head(todo[x]) /\ v = work[x].tree[row.name]
  OBVIOUS
<1>2. row \in RowSet /\ Tail(todo[x]) \in Seq(RowSet) /\ v \in Snapshots \cup {NoDir}
  BY <1>1, HeadRow DEF CountSubdir
<1>3. CASE v = NoDir
  <2>1. Make(x, "red") /\ UNCHANGED <<todo, entries>>
    BY <1>1, <1>3 DEF CountSubdir
  <2>2. QED
    BY <2>1 DEF CountSubdir, Make, Goto, TypeInv
<1>4. CASE v # NoDir
  <2>1. /\ entries' = [entries EXCEPT ![x] = Append(@, Entry(row.name, row.license, v))]
        /\ todo' = [todo EXCEPT ![x] = Tail(@)]
        /\ UNCHANGED <<pc, verdict>>
    BY <1>1, <1>4 DEF CountSubdir
  <2>2. PICK e : e = Entry(row.name, row.license, v)
    OBVIOUS
  <2>3. e \in Counted
    BY <1>2, <1>4, <2>2, EntryCounted DEF RowSet
  <2>4. entries' \in [Sites -> Seq(Counted)]
    <3>1. entries \in [Sites -> Seq(Counted)]
      BY DEF TypeInv
    <3>2. Append(entries[x], e) \in Seq(Counted)
      BY <2>3, <3>1
    <3>3. QED
      BY <2>1, <2>2, <3>1, <3>2
  <2>5. todo' \in [Sites -> Seq(RowSet)]
    BY <1>2, <2>1 DEF TypeInv
  <2>6. QED
    BY <2>1, <2>4, <2>5 DEF CountSubdir, TypeInv
<1>5. QED
  BY <1>3, <1>4

\* A tree with another manifest, or with other statistics.
LEMMA WithFile ==
    ASSUME TypeInv, NEW x \in Sites
    PROVE  /\ \A m \in Payloads : work' = [work EXCEPT ![x].manifest = m] =>
                /\ work' = [y \in Sites |-> work'[y]] /\ \A y \in Sites : IsCommit(work'[y])
                /\ work'[x].manifest = m /\ work'[x].stats = work[x].stats
                /\ work'[x].table = work[x].table /\ work'[x].tree = work[x].tree
           /\ \A f : IsFile(f) /\ work' = [work EXCEPT ![x].stats = f] =>
                /\ work' = [y \in Sites |-> work'[y]] /\ \A y \in Sites : IsCommit(work'[y])
                /\ work'[x].stats = f /\ work'[x].manifest = work[x].manifest
                /\ work'[x].table = work[x].table /\ work'[x].tree = work[x].tree
<1>1. PICK c : c = work[x]
  OBVIOUS
<1>2. IsCommit(c) /\ x \in DOMAIN work
  <2>1. DOMAIN work = Sites
    BY Zenon DEF TypeInv
  <2>2. QED
    BY <1>1, <2>1 DEF TypeInv
<1>3. ASSUME NEW m \in Payloads, work' = [work EXCEPT ![x].manifest = m]
      PROVE  /\ work' = [y \in Sites |-> work'[y]] /\ \A y \in Sites : IsCommit(work'[y])
             /\ work'[x].manifest = m /\ work'[x].stats = work[x].stats
             /\ work'[x].table = work[x].table /\ work'[x].tree = work[x].tree
  <2>1. PICK w : w = [c EXCEPT !.manifest = m]
    OBVIOUS
  <2>2. IsCommit(w)
    BY <1>2, <2>1, CommitWith
  <2>3. work' = [work EXCEPT ![x] = w]
    BY <1>1, <1>3, <2>1
  <2>4. work'[x] = w
    BY <1>2, <2>3
  <2>5. w.manifest = m /\ w.stats = c.stats /\ w.table = c.table /\ w.tree = c.tree
    BY <1>2, <2>1 DEF IsCommit
  <2>6. work' = [y \in Sites |-> work'[y]] /\ \A y \in Sites : IsCommit(work'[y])
    BY <2>2, <2>3, TreesTyped
  <2>7. QED
    BY <1>1, <2>4, <2>5, <2>6
<1>4. ASSUME NEW f, IsFile(f), work' = [work EXCEPT ![x].stats = f]
      PROVE  /\ work' = [y \in Sites |-> work'[y]] /\ \A y \in Sites : IsCommit(work'[y])
             /\ work'[x].stats = f /\ work'[x].manifest = work[x].manifest
             /\ work'[x].table = work[x].table /\ work'[x].tree = work[x].tree
  <2>1. PICK w : w = [c EXCEPT !.stats = f]
    OBVIOUS
  <2>2. IsCommit(w)
    BY <1>2, <1>4, <2>1, CommitWith
  <2>3. work' = [work EXCEPT ![x] = w]
    BY <1>1, <1>4, <2>1
  <2>4. work'[x] = w
    BY <1>2, <2>3
  <2>5. w.stats = f /\ w.manifest = c.manifest /\ w.table = c.table /\ w.tree = c.tree
    BY <1>2, <2>1 DEF IsCommit
  <2>6. work' = [y \in Sites |-> work'[y]] /\ \A y \in Sites : IsCommit(work'[y])
    BY <2>2, <2>3, TreesTyped
  <2>7. QED
    BY <1>1, <2>4, <2>5, <2>6
<1>5. QED
  BY <1>3, <1>4, Zenon

LEMMA WriteTyped ==
    ASSUME TypeInv, NEW x \in Sites, WriteManifest(x) \/ WriteStats(x)
    PROVE  TypeInv'
<1>1. entries[x] \in Seq(Counted)
  BY DEF TypeInv
<1>2. CASE WriteManifest(x)
  <2>1. PICK m : m = Json(entries[x])
    OBVIOUS
  <2>2. m \in Payloads /\ work' = [work EXCEPT ![x].manifest = m]
    BY <1>1, <1>2, <2>1, PayloadsAre DEF WriteManifest
  <2>3. work' = [y \in Sites |-> work'[y]] /\ \A y \in Sites : IsCommit(work'[y])
    BY <2>2, WithFile, Zenon
  <2>4. /\ pc' \in [Sites -> {"idle", "count", "stats", "diff"}]
        /\ made' \in [Sites -> BOOLEAN]
    BY <1>2 DEF WriteManifest, Goto, TypeInv
  <2>5. QED
    BY <1>2, <2>3, <2>4 DEF WriteManifest, TypeInv
<1>3. CASE WriteStats(x)
  <2>1. PICK f : f = Json(StatsOfEntries(x))
    OBVIOUS
  <2>2. IsFile(f) /\ work' = [work EXCEPT ![x].stats = f]
    BY <1>3, <2>1, PayloadsAre DEF WriteStats
  <2>3. work' = [y \in Sites |-> work'[y]] /\ \A y \in Sites : IsCommit(work'[y])
    BY <2>2, WithFile, Zenon
  <2>4. /\ pc' \in [Sites -> {"idle", "count", "stats", "diff"}]
        /\ verdict' \in [Sites -> {"none", "green", "red"}]
    BY <1>3 DEF WriteStats, Make, Goto, TypeInv
  <2>5. made' \in [Sites -> BOOLEAN]
    <3>1. made \in [Sites -> BOOLEAN] /\ (work[x].manifest = Json(entries[x])) \in BOOLEAN
      BY DEF TypeInv
    <3>2. made' = [made EXCEPT ![x] = work[x].manifest = Json(entries[x])]
      BY <1>3 DEF WriteStats
    <3>3. QED
      BY <3>1, <3>2, Zenon
  <2>6. QED
    BY <1>3, <2>3, <2>4, <2>5 DEF WriteStats, TypeInv
<1>4. QED
  BY <1>2, <1>3

LEMMA DiffTyped ==
    ASSUME TypeInv, NEW x \in Sites, GitDiff(x)
    PROVE  TypeInv'
<1>1. /\ pc' \in [Sites -> {"idle", "count", "stats", "diff"}]
      /\ verdict' \in [Sites -> {"none", "green", "red"}]
  BY DEF GitDiff, Make, Goto, TypeInv
<1>2. QED
  BY <1>1 DEF GitDiff, TypeInv

LEMMA InterruptTyped ==
    ASSUME TypeInv, Interrupt
    PROVE  TypeInv'
<1>1. /\ pc' \in [Sites -> {"idle", "count", "stats", "diff"}]
      /\ verdict' \in [Sites -> {"none", "green", "red"}]
  BY DEF Interrupt, Make, Goto, TypeInv
<1>2. made' \in [Sites -> BOOLEAN]
  BY DEF Interrupt, TypeInv
<1>3. work' = [y \in Sites |-> work'[y]] /\ \A y \in Sites : IsCommit(work'[y])
  <2>1. "dev" \in Sites
    BY DEF Sites
  <2>2. CASE work' = work
    BY <2>2 DEF TypeInv
  <2>3. CASE work' = [work EXCEPT !["dev"].manifest = Torn]
    BY <2>1, <2>3, PayloadsAre, WithFile, Zenon
  <2>4. CASE work' = [work EXCEPT !["dev"].stats = Torn]
    BY <2>1, <2>4, PayloadsAre, WithFile, Zenon
  <2>5. QED
    BY <2>2, <2>3, <2>4 DEF Interrupt
<1>4. QED
  BY <1>1, <1>2, <1>3 DEF Interrupt, TypeInv

LEMMA TypesStay ==
    ASSUME TypeInv, [Next]_vars
    PROVE  TypeInv'
<1>1. CASE Maintain
  BY <1>1, EditsAreOfCommits, EditTyped, CommitTyped
<1>2. CASE CheckOut
  BY <1>2, CheckOutTyped
<1>3. CASE Interrupt
  BY <1>3, InterruptTyped
<1>4. ASSUME NEW x \in Sites, StartMake(x) \/ Generate(x) \/ GitDiff(x)
      PROVE  TypeInv'
  BY <1>4, StartTyped, CountTyped, WriteTyped, DiffTyped DEF Generate
<1>5. CASE UNCHANGED vars
  BY <1>5 DEF vars, TypeInv
<1>6. QED
  BY <1>1, <1>2, <1>3, <1>4, <1>5 DEF Next

\* The trees and the generator's variables keep their types.
THEOREM GateTypes == Spec => []TypeOK
<1>1. Init => TypeInv
  BY TypesInit
<1>2. TypeInv /\ [Next]_vars => TypeInv'
  BY TypesStay
<1>3. TypeInv => TypeOK
  <2> SUFFICES ASSUME TypeInv PROVE TypeOK
    OBVIOUS
  <2>2. \A x \in Sites : IsCommit(work[x]) /\ IsCommit(base[x])
    BY DEF TypeInv
  <2>3. QED
    BY <2>2 DEF TypeInv, TypeOK, IsCommit, IsFile, RowSet
<1>4. QED
  BY <1>1, <1>2, <1>3, PTL DEF Spec

----------------------------------------------------------------------------
(* No name is counted twice, so the files agree.                           *)

LEMMA NamesStay ==
    ASSUME TypeInv, NamesOnce, [Next]_vars
    PROVE  NamesOnce'
<1>1. CASE UNCHANGED <<todo, entries>>
  BY <1>1 DEF NamesOnce, Named
<1>2. ASSUME NEW x \in Sites, StartMake(x)
      PROVE  NamesOnce'
  <2>1. PICK rows : rows = Rows(work[x].table)
    OBVIOUS
  <2>2. Named(rows)
    <3>1. work[x].table \in [Subdirs -> Licenses \cup {NoRow}]
      BY DEF TypeInv, IsCommit
    <3>2. QED
      BY <2>1, <3>1, RowsDeclared DEF VisitedTo
  <2>3. /\ todo'[x] = rows /\ entries'[x] = <<>>
        /\ \A y \in Sites \ {x} : todo'[y] = todo[y] /\ entries'[y] = entries[y]
    BY <1>2, <2>1 DEF StartMake, TypeInv
  <2>4. ASSUME NEW y \in Sites
        PROVE  /\ Named(entries'[y]) /\ Named(todo'[y])
               /\ \A i \in DOMAIN entries'[y], j \in DOMAIN todo'[y] :
                    entries'[y][i].name # todo'[y][j].name
    <3>1. CASE y = x
      BY <2>2, <2>3, <3>1 DEF Named
    <3>2. CASE y # x
      BY <2>3, <3>2 DEF NamesOnce
    <3>3. QED
      BY <3>1, <3>2
  <2>5. QED
    BY <2>4 DEF NamesOnce, Named
<1>3. ASSUME NEW x \in Sites, CountSubdir(x), ~UNCHANGED <<todo, entries>>
      PROVE  NamesOnce'
  <2>1. PICK row, v, e : /\ row = Head(todo[x]) /\ v = work[x].tree[row.name]
                         /\ e = Entry(row.name, row.license, v)
    OBVIOUS
  <2>2. PICK es, rest : es = entries[x] /\ rest = todo[x]
    OBVIOUS
  <2>3. /\ es \in Seq(Counted) /\ rest \in Seq(RowSet) /\ rest # <<>>
        /\ entries \in [Sites -> Seq(Counted)] /\ todo \in [Sites -> Seq(RowSet)]
    BY <1>3, <2>2 DEF CountSubdir, TypeInv
  <2>4. /\ entries' = [entries EXCEPT ![x] = Append(es, e)]
        /\ todo' = [todo EXCEPT ![x] = Tail(rest)]
    BY <1>3, <2>1, <2>2 DEF CountSubdir
  <2>5. /\ entries'[x] = Append(es, e) /\ todo'[x] = Tail(rest)
        /\ \A y \in Sites \ {x} : todo'[y] = todo[y] /\ entries'[y] = entries[y]
    BY <2>3, <2>4
  <2>6. /\ Named(es) /\ Named(rest)
        /\ \A i \in DOMAIN es, j \in DOMAIN rest : es[i].name # rest[j].name
    BY <2>2 DEF NamesOnce
  <2>7. e.name = rest[1].name
    BY <2>1, <2>2, <2>3 DEF Entry
  <2>8. PICK more, less : more = Append(es, e) /\ less = Tail(rest)
    OBVIOUS
  <2>9. /\ Len(es) \in Nat /\ DOMAIN es = 1 .. Len(es)
        /\ Len(rest) \in Nat \ {0} /\ DOMAIN rest = 1 .. Len(rest)
        /\ DOMAIN more = 1 .. Len(es) + 1
        /\ \A i \in 1 .. Len(es) : more[i] = es[i]
        /\ more[Len(es) + 1] = e
    BY <2>3, <2>8
  <2>10. /\ DOMAIN less = 1 .. Len(rest) - 1
         /\ \A j \in 1 .. Len(rest) - 1 : less[j] = rest[j + 1]
    BY <2>3, <2>8
  <2>11. Named(more)
    <3>1. \A i \in DOMAIN es : es[i].name # e.name
      BY <2>6, <2>7, <2>9
    <3>2. \A i \in DOMAIN more : i \in DOMAIN es \/ i = Len(es) + 1
      BY <2>9
    <3>3. QED
      BY <2>6, <2>9, <3>1, <3>2 DEF Named
  <2>12. Named(less)
    <3> SUFFICES ASSUME NEW i \in DOMAIN less, NEW j \in DOMAIN less,
                        less[i].name = less[j].name
                 PROVE  i = j
      BY DEF Named
    <3>1. /\ i + 1 \in DOMAIN rest /\ less[i] = rest[i + 1] /\ i \in Nat
          /\ j + 1 \in DOMAIN rest /\ less[j] = rest[j + 1] /\ j \in Nat
      BY <2>9, <2>10
    <3>2. i + 1 = j + 1
      BY <2>6, <3>1 DEF Named
    <3>3. QED
      BY <3>1, <3>2
  <2>13. \A i \in DOMAIN more, j \in DOMAIN less : more[i].name # less[j].name
    <3>1. TAKE i \in DOMAIN more, j \in DOMAIN less
    <3>2. j + 1 \in DOMAIN rest /\ less[j] = rest[j + 1] /\ j + 1 # 1 /\ 1 \in DOMAIN rest
      BY <2>9, <2>10
    <3>3. CASE i \in DOMAIN es
      BY <2>6, <2>9, <3>2, <3>3
    <3>4. CASE i = Len(es) + 1
      <4>1. more[i].name = rest[1].name
        BY <2>7, <2>9, <3>4
      <4>2. QED
        BY <2>6, <3>2, <4>1 DEF Named
    <3>5. QED
      BY <2>9, <3>3, <3>4
  <2>14. ASSUME NEW y \in Sites
         PROVE  /\ Named(entries'[y]) /\ Named(todo'[y])
                /\ \A i \in DOMAIN entries'[y], j \in DOMAIN todo'[y] :
                     entries'[y][i].name # todo'[y][j].name
    <3>1. CASE y = x
      <4>1. entries'[y] = more /\ todo'[y] = less
        BY <2>5, <2>8, <3>1
      <4>2. QED
        BY <2>11, <2>12, <2>13, <4>1
    <3>2. CASE y # x
      BY <2>5, <3>2 DEF NamesOnce
    <3>3. QED
      BY <3>1, <3>2
  <2>15. QED
    BY <2>14 DEF NamesOnce, Named
<1>4. CASE Maintain
  <2>1. Commit \/ \E w : Edit(w)
    BY <1>4, EditsAreOfCommits
  <2>2. UNCHANGED <<todo, entries>>
    BY <2>1 DEF Commit, Edit
  <2>3. QED
    BY <1>1, <2>2
<1>5. CASE CheckOut \/ Interrupt \/ UNCHANGED vars
  BY <1>1, <1>5 DEF CheckOut, Interrupt, vars
<1>6. ASSUME NEW x \in Sites, WriteManifest(x) \/ WriteStats(x) \/ GitDiff(x)
      PROVE  NamesOnce'
  BY <1>1, <1>6 DEF WriteManifest, WriteStats, GitDiff
<1>7. QED
  BY <1>1, <1>2, <1>3, <1>4, <1>5, <1>6 DEF Next, Generate

LEMMA StatsStay ==
    ASSUME TypeInv, NamesOnce, StatsMatchManifest, [Next]_vars
    PROVE  StatsMatchManifest'
<1>1. ASSUME NEW y \in Sites, made'[y] => made[y],
             made'[y] => work'[y].stats = work[y].stats /\ work'[y].manifest = work[y].manifest
      PROVE  made'[y] => work'[y].stats = Json(ExpectedStats(work'[y].manifest.json))
  BY <1>1 DEF StatsMatchManifest
<1>2. SUFFICES ASSUME NEW y \in Sites
               PROVE  made'[y] => work'[y].stats = Json(ExpectedStats(work'[y].manifest.json))
  BY DEF StatsMatchManifest
<1>3. DOMAIN work = Sites /\ made \in [Sites -> BOOLEAN]
  <2>1. DOMAIN work = Sites
    BY Zenon DEF TypeInv
  <2>2. QED
    BY <2>1 DEF TypeInv
<1>4. CASE UNCHANGED <<work, made>>
  BY <1>1, <1>4
<1>5. ASSUME NEW x \in Sites, x # y, made'[y] = made[y], work'[y] = work[y]
      PROVE  made'[y] => work'[y].stats = Json(ExpectedStats(work'[y].manifest.json))
  BY <1>1, <1>5
<1>6. CASE Maintain
  <2>1. CASE Commit
    BY <1>4, <2>1 DEF Commit
  <2>2. ASSUME NEW w, Edit(w)
        PROVE  made'[y] => work'[y].stats = Json(ExpectedStats(work'[y].manifest.json))
    <3>1. CASE y = "dev"
      <4>1. work'[y] = w
        BY <1>3, <2>2, <3>1 DEF Edit
      <4>2. made'[y] = (made["dev"] /\ \A f \in Files : w[f] = work["dev"][f])
        BY <1>3, <2>2, <3>1, Zenon DEF Edit
      <4>3. made'[y] => made[y] /\ w.stats = work[y].stats /\ w.manifest = work[y].manifest
        BY <3>1, <4>2 DEF Files
      <4>4. QED
        BY <1>1, <4>1, <4>3
    <3>2. CASE y # "dev"
      BY <1>1, <1>3, <2>2, <3>2 DEF Edit
    <3>3. QED
      BY <3>1, <3>2
  <2>3. QED
    BY <1>6, <2>1, <2>2, EditsAreOfCommits
<1>7. CASE CheckOut
  <2>1. CASE y = "ci"
    BY <1>3, <1>7, <2>1 DEF CheckOut
  <2>2. CASE y # "ci"
    BY <1>1, <1>3, <1>7, <2>2 DEF CheckOut
  <2>3. QED
    BY <2>1, <2>2
<1>8. CASE Interrupt
  <2>1. CASE y = "dev" /\ ~UNCHANGED <<work, made>>
    BY <1>3, <1>8, <2>1 DEF Interrupt
  <2>2. CASE y # "dev"
    BY <1>1, <1>3, <1>8, <2>2 DEF Interrupt
  <2>3. QED
    BY <1>4, <2>1, <2>2
<1>9. ASSUME NEW x \in Sites, WriteManifest(x)
      PROVE  made'[y] => work'[y].stats = Json(ExpectedStats(work'[y].manifest.json))
  BY <1>1, <1>3, <1>9 DEF WriteManifest
<1>10. ASSUME NEW x \in Sites, WriteStats(x)
       PROVE  made'[y] => work'[y].stats = Json(ExpectedStats(work'[y].manifest.json))
  <2>1. CASE y # x
    BY <1>1, <1>3, <1>10, <2>1 DEF WriteStats
  <2>2. CASE y = x
    <3>1. PICK es : es = entries[x]
      OBVIOUS
    <3>2. es \in Seq(Counted) /\ Named(es)
      BY <3>1 DEF TypeInv, NamesOnce
    <3>3. work' = [work EXCEPT ![x].stats = Json(build_stats(es))]
      BY <1>10, <3>1 DEF WriteStats, StatsOfEntries
    <3>4. work'[x].stats = Json(ExpectedStats(es)) /\ work'[x].manifest = work[x].manifest
      <4>1. PICK f : f = Json(ExpectedStats(es))
        OBVIOUS
      <4>2. IsFile(f) /\ work' = [work EXCEPT ![x].stats = f]
        BY <3>2, <3>3, <4>1, LoopCounts, PayloadsAre
      <4>3. work'[x].stats = f /\ work'[x].manifest = work[x].manifest
        BY <4>2, WithFile, Zenon
      <4>4. QED
        BY <4>1, <4>3
    <3>5. made'[x] => work[x].manifest = Json(es)
      BY <1>3, <1>10, <3>1, Zenon DEF WriteStats
    <3>6. Json(es).json = es
      BY DEF Json
    <3>7. QED
      BY <2>2, <3>4, <3>5, <3>6
  <2>3. QED
    BY <2>1, <2>2
<1>11. ASSUME NEW x \in Sites, StartMake(x) \/ CountSubdir(x) \/ GitDiff(x)
       PROVE  made'[y] => work'[y].stats = Json(ExpectedStats(work'[y].manifest.json))
  BY <1>4, <1>11 DEF StartMake, CountSubdir, GitDiff
<1>12. CASE UNCHANGED vars
  BY <1>4, <1>12 DEF vars
<1>13. QED
  BY <1>6, <1>7, <1>8, <1>9, <1>10, <1>11, <1>12 DEF Next, Generate

\* The two files of dist/ agree after every generator run that ends, whatever
\* is swapped or edited while it reads (gen-manifest.py, main).
THEOREM FilesAgree == Spec => []StatsMatchManifest
<1> DEFINE Inv == TypeInv /\ NamesOnce /\ StatsMatchManifest
<1>1. Init => Inv
  <2> SUFFICES ASSUME Init PROVE Inv
    OBVIOUS
  <2>2. \A x \in Sites : entries[x] = <<>> /\ todo[x] = <<>> /\ work[x] = FirstCommit
    BY DEF Init
  <2>3. NamesOnce
    BY <2>2 DEF NamesOnce, Named
  <2>4. StatsMatchManifest
    BY <2>2, FirstCommitIs DEF StatsMatchManifest
  <2>5. QED
    BY <2>3, <2>4, TypesInit
<1>2. Inv /\ [Next]_vars => Inv'
  BY TypesStay, NamesStay, StatsStay
<1>3. Inv => StatsMatchManifest
  OBVIOUS
<1> HIDE DEF Inv
<1>4. QED
  BY <1>1, <1>2, <1>3, PTL DEF Spec

----------------------------------------------------------------------------
(* The job of CI.                                                          *)

\* The job does not notice what is done elsewhere.
LEMMA GateStays ==
    ASSUME GateInv, work'["ci"] = work["ci"], base'["ci"] = base["ci"], pc'["ci"] = pc["ci"],
           target'["ci"] = target["ci"], todo'["ci"] = todo["ci"],
           entries'["ci"] = entries["ci"], verdict'["ci"] = verdict["ci"]
    PROVE  GateInv'
BY DEF GateInv, GateDecides

LEMMA SitesApart == "dev" \in Sites /\ "ci" \in Sites /\ "dev" # "ci"
BY DEF Sites

LEMMA DevElsewhere ==
    ASSUME TypeInv, GateInv,
           Maintain \/ Interrupt \/ StartMake("dev") \/ Generate("dev") \/ GitDiff("dev")
    PROVE  GateInv'
<1> USE SitesApart
<1>1. CASE Maintain
  <2>1. CASE Commit
    BY <2>1, GateStays DEF Commit, TypeInv
  <2>2. ASSUME NEW w, Edit(w)
        PROVE  GateInv'
    <3>1. work'["ci"] = work["ci"]
      BY <2>2 DEF Edit, TypeInv
    <3>2. QED
      BY <2>2, <3>1, GateStays DEF Edit
  <2>3. QED
    BY <1>1, <2>1, <2>2, EditsAreOfCommits
<1>2. ASSUME work'["ci"] = work["ci"], UNCHANGED base,
             pc'["ci"] = pc["ci"], target'["ci"] = target["ci"], todo'["ci"] = todo["ci"],
             entries'["ci"] = entries["ci"], verdict'["ci"] = verdict["ci"]
      PROVE  GateInv'
  BY <1>2, GateStays
<1>3. CASE Interrupt
  <2>1. work'["ci"] = work["ci"]
    BY <1>3 DEF Interrupt, TypeInv
  <2>2. pc'["ci"] = pc["ci"] /\ verdict'["ci"] = verdict["ci"]
    BY <1>3 DEF Interrupt, Make, Goto, TypeInv
  <2>3. QED
    BY <1>2, <1>3, <2>1, <2>2 DEF Interrupt
<1>4. CASE StartMake("dev")
  <2>1. pc'["ci"] = pc["ci"] /\ target'["ci"] = target["ci"] /\ todo'["ci"] = todo["ci"]
    BY <1>4 DEF StartMake, Goto, TypeInv
  <2>2. entries'["ci"] = entries["ci"]
    BY <1>4 DEF StartMake, TypeInv
  <2>3. QED
    BY <1>2, <1>4, <2>1, <2>2 DEF StartMake
<1>5. CASE CountSubdir("dev")
  <2>1. pc'["ci"] = pc["ci"] /\ verdict'["ci"] = verdict["ci"]
    BY <1>5 DEF CountSubdir, Make, Goto, TypeInv
  <2>2. todo'["ci"] = todo["ci"] /\ entries'["ci"] = entries["ci"]
    BY <1>5 DEF CountSubdir, TypeInv
  <2>3. QED
    BY <1>2, <1>5, <2>1, <2>2 DEF CountSubdir
<1>6. CASE WriteManifest("dev")
  <2>1. pc'["ci"] = pc["ci"] /\ work'["ci"] = work["ci"]
    BY <1>6 DEF WriteManifest, Goto, TypeInv
  <2>2. QED
    BY <1>2, <1>6, <2>1 DEF WriteManifest
<1>7. CASE WriteStats("dev")
  <2>1. work'["ci"] = work["ci"]
    BY <1>7 DEF WriteStats, TypeInv
  <2>2. pc'["ci"] = pc["ci"] /\ verdict'["ci"] = verdict["ci"]
    BY <1>7 DEF WriteStats, Make, Goto, TypeInv
  <2>3. QED
    BY <1>2, <1>7, <2>1, <2>2 DEF WriteStats
<1>8. CASE GitDiff("dev")
  <2>1. pc'["ci"] = pc["ci"] /\ verdict'["ci"] = verdict["ci"]
    BY <1>8 DEF GitDiff, Make, Goto, TypeInv
  <2>2. QED
    BY <1>2, <1>8, <2>1 DEF GitDiff
<1>9. QED
  BY <1>1, <1>3, <1>4, <1>5, <1>6, <1>7, <1>8 DEF Generate

LEMMA CheckOutGate ==
    ASSUME TypeInv, GateInv, CheckOut
    PROVE  GateInv'
<1>1. DOMAIN work = Sites /\ DOMAIN base = Sites /\ "ci" \in Sites
  <2>1. DOMAIN work = Sites /\ DOMAIN base = Sites
    BY Zenon DEF TypeInv
  <2>2. QED
    BY <2>1 DEF Sites
<1>2. work'["ci"] = base'["ci"]
  BY <1>1 DEF CheckOut
<1>3. pc'["ci"] = "idle" /\ verdict'["ci"] = "none"
  BY <1>1 DEF CheckOut, TypeInv
<1>4. QED
  BY <1>2, <1>3 DEF GateInv, GateDecides

LEMMA StartGate ==
    ASSUME TypeInv, GateInv, StartMake("ci")
    PROVE  GateInv'
<1> USE SitesApart
<1>1. /\ pc'["ci"] = "count" /\ target'["ci"] = "check-manifest"
      /\ verdict'["ci"] = "none"
      /\ todo'["ci"] = Rows(base["ci"].table) /\ entries'["ci"] = <<>>
      /\ base' = base /\ work' = work
  BY DEF StartMake, Goto, TypeInv, GateInv
<1>2. PICK c, rows : c = base["ci"] /\ rows = Rows(base["ci"].table)
  OBVIOUS
<1>3. rows \in Seq(RowSet)
  <2>1. c.table \in [Subdirs -> Licenses \cup {NoRow}]
    BY <1>2 DEF TypeInv, IsCommit
  <2>2. QED
    BY <1>2, <2>1, RowsDeclared DEF VisitedTo
<1>4. CountsRows(c, <<>>, rows)
  BY <1>2, <1>3 DEF CountsRows
<1>5. CountsRows(base["ci"], entries["ci"], todo["ci"])'
  BY <1>1, <1>2, <1>4
<1>6. QED
  BY <1>1, <1>5 DEF GateInv, GateDecides

LEMMA CountGate ==
    ASSUME TypeInv, GateInv, CountSubdir("ci")
    PROVE  GateInv'
<1> USE SitesApart
<1>1. PICK c, es, rest : c = base["ci"] /\ es = entries["ci"] /\ rest = todo["ci"]
  OBVIOUS
<1>2. /\ pc["ci"] = "count" /\ CountsRows(c, es, rest)
      /\ rest # <<>> /\ rest \in Seq(RowSet) /\ es \in Seq(Counted)
      /\ verdict["ci"] = "none" /\ target["ci"] = "check-manifest"
      /\ work["ci"].tree = c.tree /\ work["ci"].table = c.table
      /\ c.table \in [Subdirs -> Licenses \cup {NoRow}]
  BY <1>1 DEF CountSubdir, GateInv, TypeInv, IsCommit
<1>3. PICK rows : rows = Rows(c.table)
  OBVIOUS
<1>4. VisitedTo(rows, c.table, Len(Names))
  BY <1>2, <1>3, RowsDeclared
<1>5. rows \in Seq(RowSet)
  BY <1>4 DEF VisitedTo
<1>6. PICK row, v : row = Head(rest) /\ v = c.tree[row.name]
  OBVIOUS
<1>7. Len(es) \in Nat /\ Len(rest) \in Nat \ {0} /\ row = rest[1]
  BY <1>2, <1>6
<1>8. Len(rows) = Len(es) + Len(rest) /\ row = rows[Len(es) + 1] /\ Len(es) + 1 \in DOMAIN rows
  <2>1. Len(rows) = Len(es) + Len(rest) /\ \A j \in 1 .. Len(rest) : rest[j] = rows[Len(es) + j]
    BY <1>2, <1>3 DEF CountsRows
  <2>2. QED
    BY <1>5, <1>7, <2>1
<1>9. base' = base /\ work' = work /\ target' = target
  BY DEF CountSubdir
<1>10. CASE v = NoDir
  <2>1. pc'["ci"] = "idle" /\ verdict'["ci"] = "red"
    BY <1>1, <1>2, <1>6, <1>10 DEF CountSubdir, Make, Goto, TypeInv
  <2>2. ~Complete(c)
    <3>1. row \in RowSet /\ c.table[row.name] # NoRow
      <4>1. \A j \in DOMAIN rows : c.table[rows[j].name] # NoRow
        BY <1>4 DEF VisitedTo
      <4>2. row \in RowSet
        BY <1>5, <1>8
      <4>3. QED
        BY <1>8, <4>1, <4>2
    <3>2. row.name \in Subdirs
      BY <3>1 DEF RowSet
    <3>3. QED
      BY <1>6, <1>10, <3>1, <3>2 DEF Complete
  <2>3. GateDecides'
    BY <1>1, <1>9, <2>1, <2>2 DEF GateDecides
  <2>4. QED
    BY <1>1, <1>2, <1>9, <2>1, <2>3 DEF GateInv
<1>11. CASE v # NoDir
  <2>1. PICK e : e = Entry(row.name, row.license, v)
    OBVIOUS
  <2>2. /\ entries'["ci"] = Append(es, e) /\ todo'["ci"] = Tail(rest)
        /\ pc'["ci"] = "count" /\ verdict'["ci"] = "none"
    BY <1>1, <1>2, <1>6, <1>11, <2>1 DEF CountSubdir, TypeInv
  <2>3. PICK more, less : more = Append(es, e) /\ less = Tail(rest)
    OBVIOUS
  <2>4. /\ Len(more) = Len(es) + 1 /\ more[Len(es) + 1] = e
        /\ \A i \in 1 .. Len(es) : more[i] = es[i]
        /\ Len(less) = Len(rest) - 1
        /\ \A j \in 1 .. Len(rest) - 1 : less[j] = rest[j + 1]
    BY <1>2, <2>3
  <2>5. CountsRows(c, more, less)
    <3>1. /\ \A i \in 1 .. Len(es) :
                /\ c.tree[rows[i].name] # NoDir
                /\ es[i] = Entry(rows[i].name, rows[i].license, c.tree[rows[i].name])
          /\ \A j \in 1 .. Len(rest) : rest[j] = rows[Len(es) + j]
      BY <1>2, <1>3 DEF CountsRows
    <3>2. ASSUME NEW i \in 1 .. Len(more)
          PROVE  /\ c.tree[rows[i].name] # NoDir
                 /\ more[i] = Entry(rows[i].name, rows[i].license, c.tree[rows[i].name])
      <4>1. CASE i \in 1 .. Len(es)
        BY <2>4, <3>1, <4>1
      <4>2. CASE i = Len(es) + 1
        BY <1>6, <1>8, <1>11, <2>1, <2>4, <4>2
      <4>3. QED
        BY <1>7, <2>4, <4>1, <4>2
    <3>3. ASSUME NEW j \in 1 .. Len(less)
          PROVE  less[j] = rows[Len(more) + j]
      <4>1. j + 1 \in 1 .. Len(rest) /\ j \in 1 .. Len(rest) - 1 /\ Len(es) + (j + 1) = Len(more) + j
        BY <1>7, <2>4
      <4>2. QED
        BY <2>4, <3>1, <4>1
    <3>4. Len(rows) = Len(more) + Len(less)
      BY <1>7, <1>8, <2>4
    <3>5. QED
      BY <1>3, <3>2, <3>3, <3>4 DEF CountsRows
  <2>6. CountsRows(base["ci"], entries["ci"], todo["ci"])'
    BY <1>1, <1>9, <2>2, <2>3, <2>5
  <2>7. QED
    BY <1>1, <1>2, <1>9, <2>2, <2>6 DEF GateInv, GateDecides
<1>12. QED
  BY <1>10, <1>11

\* All rows counted: the entries are those expected, and no directory lacks.
LEMMA AllCounted ==
    ASSUME NEW c, IsCommit(c), NEW es \in Seq(Counted), CountsRows(c, es, <<>>)
    PROVE  Complete(c) /\ es = ExpectedManifest(c)
<1>1. PICK rows : rows = Rows(c.table)
  OBVIOUS
<1>2. VisitedTo(rows, c.table, Len(Names))
  BY <1>1, RowsDeclared DEF IsCommit
<1>3. rows \in Seq(RowSet) /\ Len(rows) = Len(es) /\ Len(es) \in Nat
  <2>1. Len(rows) = Len(es) + Len(<<>>)
    BY <1>1 DEF CountsRows
  <2>2. rows \in Seq(RowSet)
    BY <1>2 DEF VisitedTo
  <2>3. QED
    BY <2>1, <2>2
<1>4. \A i \in 1 .. Len(es) :
        /\ c.tree[rows[i].name] # NoDir
        /\ es[i] = Entry(rows[i].name, rows[i].license, c.tree[rows[i].name])
  BY <1>1 DEF CountsRows
<1>5. DOMAIN rows = 1 .. Len(es) /\ DOMAIN es = 1 .. Len(es) /\ es = [i \in 1 .. Len(es) |-> es[i]]
  BY <1>3
<1>6. ASSUME NEW s \in Subdirs, c.table[s] # NoRow
      PROVE  c.tree[s] # NoDir
  <2>1. PICK i \in 1 .. Len(Names) : Names[i] = s
    BY NamesTyped
  <2>2. PICK j \in DOMAIN rows : rows[j].name = Names[i]
    BY <1>2, <1>6, <2>1 DEF VisitedTo
  <2>3. QED
    BY <1>4, <1>5, <2>1, <2>2
<1>7. Complete(c)
  BY <1>6 DEF Complete
<1>8. ExpectedManifest(c) =
        [i \in 1 .. Len(es) |-> Entry(rows[i].name, rows[i].license, c.tree[rows[i].name])]
  BY <1>1, <1>5 DEF ExpectedManifest
<1>9. es = ExpectedManifest(c)
  BY <1>4, <1>5, <1>8, Zenon
<1>10. QED
  BY <1>7, <1>9

LEMMA WriteManifestGate ==
    ASSUME TypeInv, GateInv, WriteManifest("ci")
    PROVE  GateInv'
<1> USE SitesApart
<1>1. PICK c, es : c = base["ci"] /\ es = entries["ci"]
  OBVIOUS
<1>2. /\ IsCommit(c) /\ es \in Seq(Counted) /\ pc["ci"] = "count"
      /\ CountsRows(c, es, <<>>)
      /\ verdict["ci"] = "none" /\ target["ci"] = "check-manifest"
      /\ work["ci"].tree = c.tree /\ work["ci"].table = c.table
  BY <1>1 DEF WriteManifest, GateInv, TypeInv
<1>3. Complete(c) /\ es = ExpectedManifest(c)
  BY <1>2, AllCounted
<1>4. PICK m : m = Json(es)
  OBVIOUS
<1>5. m \in Payloads /\ work' = [work EXCEPT !["ci"].manifest = m]
  BY <1>1, <1>2, <1>4, PayloadsAre DEF WriteManifest
<1>6. /\ work'["ci"].manifest = m
      /\ work'["ci"].tree = work["ci"].tree /\ work'["ci"].table = work["ci"].table
  BY <1>5, WithFile, Zenon
<1>7. /\ base' = base /\ entries' = entries /\ target' = target /\ verdict' = verdict
      /\ pc'["ci"] = "stats"
  BY DEF WriteManifest, Goto, TypeInv
<1>8. QED
  BY <1>1, <1>2, <1>3, <1>4, <1>6, <1>7 DEF GateInv, GateDecides

LEMMA WriteStatsGate ==
    ASSUME TypeInv, NamesOnce, GateInv, WriteStats("ci")
    PROVE  GateInv'
<1> USE SitesApart
<1>1. PICK c, es : c = base["ci"] /\ es = entries["ci"]
  OBVIOUS
<1>2. /\ es \in Seq(Counted) /\ Named(es) /\ pc["ci"] = "stats"
      /\ Complete(c) /\ es = ExpectedManifest(c)
      /\ work["ci"].manifest = Json(ExpectedManifest(c))
      /\ verdict["ci"] = "none" /\ target["ci"] = "check-manifest"
      /\ work["ci"].tree = c.tree /\ work["ci"].table = c.table
  BY <1>1 DEF WriteStats, GateInv, TypeInv, NamesOnce
<1>3. PICK f : f = Json(ExpectedStats(es))
  OBVIOUS
<1>4. IsFile(f) /\ work' = [work EXCEPT !["ci"].stats = f]
  BY <1>1, <1>2, <1>3, LoopCounts, PayloadsAre DEF WriteStats, StatsOfEntries
<1>5. /\ work'["ci"].stats = f /\ work'["ci"].manifest = work["ci"].manifest
      /\ work'["ci"].tree = work["ci"].tree /\ work'["ci"].table = work["ci"].table
  BY <1>4, WithFile, Zenon
<1>6. /\ base' = base /\ entries' = entries /\ target' = target
      /\ pc'["ci"] = "diff" /\ verdict' = verdict
  BY <1>2 DEF WriteStats, Goto, TypeInv
<1>7. QED
  BY <1>1, <1>2, <1>3, <1>5, <1>6 DEF GateInv, GateDecides

LEMMA DiffGate ==
    ASSUME TypeInv, GateInv, GitDiff("ci")
    PROVE  GateInv'
<1> USE SitesApart
<1>1. PICK c, w : c = base["ci"] /\ w = work["ci"]
  OBVIOUS
<1>2. /\ pc["ci"] = "diff" /\ Complete(c)
      /\ w.manifest = Json(ExpectedManifest(c))
      /\ w.stats = Json(ExpectedStats(ExpectedManifest(c)))
      /\ w.tree = c.tree /\ w.table = c.table
  BY <1>1 DEF GitDiff, GateInv
<1>3. \A f \in Files : w[f] = Expected(c, f)
  BY <1>2 DEF Files, Expected
<1>4. Differs("ci") <=> ~(\A f \in Files : c[f] # Gone => c[f] = Expected(c, f))
  BY <1>1, <1>3 DEF Differs
<1>5. /\ base' = base /\ work' = work /\ pc'["ci"] = "idle"
      /\ verdict'["ci"] = IF Differs("ci") THEN "red" ELSE "green"
  BY DEF GitDiff, Make, Goto, TypeInv
<1>6. GateDecides'
  BY <1>1, <1>2, <1>4, <1>5 DEF GateDecides
<1>7. QED
  BY <1>1, <1>2, <1>5, <1>6 DEF GateInv

LEMMA GateNext ==
    ASSUME TypeInv, NamesOnce, GateInv, [Next]_vars
    PROVE  GateInv'
<1>1. CASE UNCHANGED vars
  BY <1>1, GateStays DEF vars
<1>2. CASE CheckOut
  BY <1>2, CheckOutGate
<1>3. CASE Maintain \/ Interrupt
  BY <1>3, DevElsewhere
<1>4. ASSUME NEW x \in Sites, StartMake(x) \/ Generate(x) \/ GitDiff(x)
      PROVE  GateInv'
  <2>1. CASE x = "dev"
    BY <1>4, <2>1, DevElsewhere
  <2>2. CASE x = "ci"
    BY <1>4, <2>2, StartGate, CountGate, WriteManifestGate, WriteStatsGate, DiffGate DEF Generate
  <2>3. QED
    BY <2>1, <2>2 DEF Sites
<1>5. QED
  BY <1>1, <1>2, <1>3, <1>4 DEF Next

\* `make check-manifest' in CI passes a commit exactly when every declared
\* subdir is in it and the files it has are those of its snapshots and table.
THEOREM GateIsRight == Spec => []GateDecides
<1> DEFINE Inv == TypeInv /\ NamesOnce /\ GateInv
<1>1. Init => Inv
  <2> SUFFICES ASSUME Init PROVE Inv
    OBVIOUS
  <2>1. \A x \in Sites : entries[x] = <<>> /\ todo[x] = <<>>
    BY DEF Init
  <2>2. NamesOnce
    BY <2>1 DEF NamesOnce, Named
  <2>3. /\ work["ci"] = base["ci"] /\ pc["ci"] = "idle" /\ verdict["ci"] = "none"
    BY SitesApart DEF Init
  <2>4. GateInv
    BY <2>3 DEF GateInv, GateDecides
  <2>5. QED
    BY <2>2, <2>4, TypesInit
<1>2. Inv /\ [Next]_vars => Inv'
  BY TypesStay, NamesStay, GateNext
<1>3. Inv => GateDecides
  BY DEF GateInv
<1> HIDE DEF Inv
<1>4. QED
  BY <1>1, <1>2, <1>3, PTL DEF Spec
=============================================================================
