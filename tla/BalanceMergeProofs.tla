--------------------------- MODULE BalanceMergeProofs ---------------------------
(***************************************************************************)
(* Whatever the files hold, the report is the outer join of what they hold:  *)
(* that is the invariant, from which the rest follows row by row.  The sums  *)
(* of assemble_report need more: that MapThenSumSet adds, whatever order it   *)
(* takes the amounts in, and that adding up groups first makes no difference. *)
(***************************************************************************)
EXTENDS BalanceMerge, SequenceTheorems, FiniteSetTheorems, TLAPS

IsMerged == report # {} => report = Merged

Written ==
  /\ ryo \in Seq([store : RyoNames, amount : RyoCells])
  /\ sas \in Seq([store : SasNames, amount : SasCells])

IInv == Written /\ IsMerged

(* The report is made of nothing but the files. *)
LEMMA MergedOfTheFiles == ryo' = ryo /\ sas' = sas => Merged' = Merged
  BY DEF Merged, Matched, Unmatched, Kept, RyoStores, SasStores, RyoKey, SasKey, Group,
         Readable, SasNotes, RyoNotes, sum_amounts, Amounts

(* Whatever is written into the files, in any order, the report that assemble_report
   makes is the outer join of what they hold. *)
THEOREM MergeInvariant == Spec => []IInv
<1>1. Init => IInv
  BY DEF Init, IInv, Written, IsMerged
<1>2. IInv /\ [Next]_vars => IInv'
  <2> SUFFICES ASSUME IInv, [Next]_vars PROVE IInv'
    OBVIOUS
  <2>1. CASE \E name \in RyoNames, cell \in RyoCells : RyoLists(name, cell)
    BY <2>1 DEF RyoLists, IInv, Written, IsMerged
  <2>2. CASE \E name \in SasNames, cell \in SasCells : SasDrafts(name, cell)
    BY <2>2 DEF SasDrafts, IInv, Written, IsMerged
  <2>3. CASE assemble_report
    <3>1. ryo' = ryo /\ sas' = sas /\ report' = Merged
      BY <2>3 DEF assemble_report
    <3>2. Merged' = Merged
      BY <3>1, MergedOfTheFiles
    <3> QED BY <3>1, <3>2 DEF IInv, Written, IsMerged
  <2>4. CASE UNCHANGED vars
    <3>1. Merged' = Merged
      BY <2>4, MergedOfTheFiles DEF vars
    <3> QED BY <2>4, <3>1 DEF vars, IInv, Written, IsMerged
  <2> QED BY <2>1, <2>2, <2>3, <2>4 DEF Next
<1> QED BY <1>1, <1>2, PTL DEF Spec

-----------------------------------------------------------------------------
(* A row of the RYO file keeps its store's key. *)
LEMMA StoreOfMatched == ASSUME NEW i PROVE Matched(i).store = RyoKey(ryo[i])
  BY DEF Matched

(* So does a group without one. *)
LEMMA StoreOfUnmatched == ASSUME NEW key PROVE Unmatched(key).store = key
  BY DEF Unmatched

(* The stores of the report are those of the two files, no more and no fewer:
   assemble_report's outer join.                                                   *)
THEOREM StoresAreAllThere == Spec => []EveryStoreHasARow
<1>1. IInv => EveryStoreHasARow
  <2> SUFFICES ASSUME report = Merged
               PROVE {row.store : row \in report} = RyoStores \cup SasStores
    BY DEF IInv, IsMerged, EveryStoreHasARow
  <2>1. {row.store : row \in Merged} = {RyoKey(ryo[i]) : i \in Kept} \cup (SasStores \ RyoStores)
    <3>1. ASSUME NEW row \in Merged
          PROVE row.store \in {RyoKey(ryo[i]) : i \in Kept} \cup (SasStores \ RyoStores)
      BY <3>1, StoreOfMatched, StoreOfUnmatched DEF Merged
    <3>2. ASSUME NEW i \in Kept PROVE \E row \in Merged : row.store = RyoKey(ryo[i])
      BY StoreOfMatched DEF Merged
    <3>3. ASSUME NEW key \in SasStores \ RyoStores PROVE \E row \in Merged : row.store = key
      BY StoreOfUnmatched DEF Merged
    <3> QED BY <3>1, <3>2, <3>3
  <2> QED BY <2>1 DEF RyoStores
<1> QED BY <1>1, MergeInvariant, PTL

(* What a row of either file is made of. *)
LEMMA RowsOfTheFiles ==
  ASSUME Written
  PROVE  /\ \A i \in Kept : ryo[i].store \in RyoNames /\ ryo[i].amount \in RyoCells
         /\ \A j \in DOMAIN sas : sas[j].store \in SasNames
<1>1. ASSUME NEW i \in DOMAIN ryo PROVE ryo[i] \in [store : RyoNames, amount : RyoCells]
  BY <1>1, ElementOfSeq, LenProperties DEF Written
<1>2. ASSUME NEW j \in DOMAIN sas PROVE sas[j] \in [store : SasNames, amount : SasCells]
  BY <1>2, ElementOfSeq, LenProperties DEF Written
<1> QED BY <1>1, <1>2 DEF Kept

(* A key is a number or a name. *)
LEMMA KeysAreNumbersOrNames ==
  ASSUME NEW name, NEW overrides
  PROVE  extract_storenums(name, overrides)[1] \in {"number", "name"}
  BY DEF extract_storenums, Numbered, Named

(* A row that carries no note has a store number and nothing left out of it:
   assemble_report's error notes.                                                  *)
THEOREM CleanRowsCanBeReliedOn == Spec => []CleanRowsAreComplete
<1>1. IInv => CleanRowsAreComplete
  <2> SUFFICES ASSUME IInv, NEW row \in Merged, row.error_notes = {}
               PROVE  /\ row.store[1] = "number"
                      /\ Readable(Group(row.store)) = Group(row.store)
                      /\ row.line # 0 /\ ryo[row.line].amount.form # "blank"
                           => row.ryo_total # {}
    BY DEF IInv, IsMerged, CleanRowsAreComplete
  <2>1. ASSUME NEW key, key[1] \in {"number", "name"}, StoreNotes(key) = {}
        PROVE  key[1] = "number"
    BY <2>1 DEF StoreNotes
  <2>2. ASSUME NEW rows, SasNotes(rows) = {} PROVE Readable(rows) = rows
    BY <2>2 DEF SasNotes, Readable
  <2>3. CASE \E i \in Kept : row = Matched(i)
    <3>1. PICK i \in Kept : row = Matched(i)
      BY <2>3
    <3>2. /\ row.line = i
          /\ row.store = RyoKey(ryo[i])
          /\ row.ryo_total = parse_amount(ryo[i].amount)
          /\ StoreNotes(row.store) = {} /\ RyoNotes(i) = {} /\ SasNotes(Group(row.store)) = {}
      BY <3>1 DEF Matched
    <3>3. ryo[i].amount \in Cell
      BY RowsOfTheFiles, MergeAssumption DEF IInv
    <3>4. ryo[i].amount.form \in {"plain", "accounting", "dash", "blank"}
      BY <3>2, <3>3 DEF RyoNotes, Cell, Forms
    <3>5. row.store[1] = "number"
      BY <2>1, <3>2, KeysAreNumbersOrNames DEF RyoKey
    <3> QED BY <2>2, <3>2, <3>4, <3>5 DEF parse_amount
  <2>4. CASE \E key \in SasStores : row = Unmatched(key)
    <3>1. PICK key \in SasStores : row = Unmatched(key)
      BY <2>4
    <3>2. /\ row.line = 0 /\ row.store = key
          /\ StoreNotes(key) = {} /\ SasNotes(Group(key)) = {}
      BY <3>1 DEF Unmatched
    <3>3. key[1] \in {"number", "name"}
      BY KeysAreNumbersOrNames DEF SasStores, SasKey
    <3> QED BY <2>1, <2>2, <3>2, <3>3
  <2> QED BY <2>3, <2>4 DEF Merged
<1> QED BY <1>1, MergeInvariant, PTL

(* Two names of one store have one key. *)
LEMMA SameStoreSameKey ==
  ASSUME NEW i \in Kept, NEW j \in DOMAIN sas, Written, SameStore(ryo[i].store, sas[j].store)
  PROVE  RyoKey(ryo[i]) = SasKey(sas[j])
<1> DEFINE atRyo == ryo[i].store  atSas == sas[j].store
<1>1. atRyo \in RyoNames /\ atSas \in SasNames
  BY RowsOfTheFiles
<1>2. atRyo # Warehouse /\ atSas # Wholesale
  BY <1>1, MergeAssumption
<1>3. CASE atRyo = atSas
  BY <1>2, <1>3 DEF RyoKey, SasKey, extract_storenums
<1>4. CASE {atRyo, atSas} \subseteq DOMAIN FirstDigits /\ FirstDigits[atRyo] = FirstDigits[atSas]
  BY <1>4, MergeAssumption DEF RyoKey, SasKey, extract_storenums
<1>5. CASE atRyo = Wholesale /\ atSas = Warehouse
  BY <1>5 DEF RyoKey, SasKey, extract_storenums
<1> QED BY <1>3, <1>4, <1>5 DEF SameStore

(* SAS's invoices share a row with the draft of their store, the warehouse's too:
   extract_storenums and SAS_STORE_NAME_OVERRIDES.                                 *)
THEOREM SidesMeet == Spec => []NoStoreIsSplit
<1>1. IInv => NoStoreIsSplit
  <2> SUFFICES ASSUME IInv, NEW row \in Merged, row.line = 0,
                      NEW i \in Kept, NEW j \in Group(row.store),
                      SameStore(ryo[i].store, sas[j].store)
               PROVE  FALSE
    BY DEF IInv, IsMerged, NoStoreIsSplit
  <2>1. i # 0 /\ \A k \in Kept : k # 0
    BY DEF Kept, IInv, Written
  <2>2. PICK key \in SasStores \ RyoStores : row = Unmatched(key)
    BY <2>1 DEF Merged, Matched
  <2>3. j \in DOMAIN sas /\ SasKey(sas[j]) = key
    BY <2>2, StoreOfUnmatched DEF Group
  <2>4. RyoKey(ryo[i]) = key
    BY <2>3, SameStoreSameKey DEF IInv
  <2> QED BY <2>2, <2>4 DEF RyoStores
<1> QED BY <1>1, MergeInvariant, PTL

-----------------------------------------------------------------------------
(* Sums over a finite set, as MapThenSumSet makes them: no induction theorem can be
   instantiated here, so what holds of all sets is shown by a smallest one that it
   would not hold of.                                                              *)

Chosen(s) == CHOOSE x \in s : TRUE

(* The sums that Total is the last one of: MapThenSumSet's.                        *)
IsPartialSums(sums, a, sets) ==
  sums = [s \in sets |->
            IF s = {} THEN 0
            ELSE LET x == Chosen(s) IN a[x] + sums[s \ {x}]]

PartialSums(a) == CHOOSE sums : IsPartialSums(sums, a, SUBSET DOMAIN a)

Sum(a, s) == PartialSums(a)[s]

(* Total is the community modules' fold. *)
LEMMA TotalIsASum == ASSUME NEW a PROVE Total(a) = Sum(a, DOMAIN a)
  BY DEF Total, Sum, PartialSums, IsPartialSums, Chosen, MapThenSumSet, MapThenFoldSet

(* Of some subsets of a finite set, one is left by no member for another of them. *)
LEMMA SmallestSet ==
  ASSUME NEW D, IsFiniteSet(D), NEW sets \in SUBSET (SUBSET D), sets # {}
  PROVE  \E s \in sets : \A x \in s : s \ {x} \notin sets
<1> DEFINE sizes == {Cardinality(s) : s \in sets}
<1>1. \A s \in sets : IsFiniteSet(s) /\ Cardinality(s) \in Nat
  BY FS_Subset, FS_CardinalityType
<1>2. sizes \subseteq Nat /\ sizes # {}
  BY <1>1
<1> HIDE DEF sizes
<1>3. PICK n \in sizes : \A m \in sizes : ~ (<<m, n>> \in OpToRel(<, Nat))
  BY <1>2, NatLessThanWellFounded, WFMin
<1>4. \A m \in sizes : ~(m < n)
  BY <1>2, <1>3 DEF OpToRel
<1>5. PICK s \in sets : n = Cardinality(s)
  BY <1>3 DEF sizes
<1>6. ASSUME NEW x \in s, s \ {x} \in sets PROVE FALSE
  <2>1. Cardinality(s \ {x}) = Cardinality(s) - 1
    BY <1>1, FS_RemoveElement
  <2>2. Cardinality(s \ {x}) \in sizes
    BY <1>6 DEF sizes
  <2> QED
    BY <1>1, <1>4, <1>5, <2>1, <2>2
<1> QED
  BY <1>6

SubsetsUpTo(D, n) == {s \in SUBSET D : Cardinality(s) <= n}

(* What is added up over sets of up to n members. *)
LEMMA SumsOfSmallSets ==
  ASSUME NEW a, IsFiniteSet(DOMAIN a), NEW n \in Nat
  PROVE  \E sums : IsPartialSums(sums, a, SubsetsUpTo(DOMAIN a, n))
<1> DEFINE UpTo(m) == SubsetsUpTo(DOMAIN a, m)
           failing == {m \in Nat : ~ \E sums : IsPartialSums(sums, a, UpTo(m))}
<1>0. \A s \in SUBSET DOMAIN a : IsFiniteSet(s) /\ Cardinality(s) \in Nat
  BY FS_Subset, FS_CardinalityType
<1>1. SUFFICES ASSUME failing # {} PROVE FALSE
  OBVIOUS
<1>2. PICK m \in failing : \A k \in failing : ~ (<<k, m>> \in OpToRel(<, Nat))
  BY <1>1, NatLessThanWellFounded, WFMin
<1>3. m \in Nat /\ \A k \in failing : ~(k < m)
  BY <1>2 DEF OpToRel
<1>4. m # 0
  <2> SUFFICES ASSUME m = 0 PROVE FALSE
    OBVIOUS
  <2> DEFINE none == [s \in UpTo(0) |-> 0]
  <2>1. \A s \in UpTo(0) : s = {}
    BY <1>0, FS_EmptySet DEF SubsetsUpTo
  <2>2. IsPartialSums(none, a, UpTo(0))
    BY <2>1 DEF IsPartialSums
  <2> QED
    BY <1>2, <2>2
<1>5. PICK sums : IsPartialSums(sums, a, UpTo(m - 1))
  <2>1. m - 1 \in Nat /\ m - 1 < m
    BY <1>3, <1>4
  <2>2. m - 1 \notin failing
    BY <1>3, <2>1
  <2> QED
    BY <2>1, <2>2
<1> DEFINE more == [s \in UpTo(m) |->
             IF s = {} THEN 0
             ELSE LET x == Chosen(s) IN a[x] + sums[s \ {x}]]
<1>6. ASSUME NEW s \in UpTo(m - 1) PROVE s \in UpTo(m) /\ sums[s] = more[s]
  <2>1. s \in UpTo(m)
    BY <1>0, <1>3, <1>6 DEF SubsetsUpTo
  <2>2. sums[s] = (IF s = {} THEN 0
             ELSE LET x == Chosen(s) IN a[x] + sums[s \ {x}])
    BY <1>5, <1>6 DEF IsPartialSums
  <2> QED
    BY <2>1, <2>2
<1>7. ASSUME NEW s \in UpTo(m), NEW x \in s PROVE s \ {x} \in UpTo(m - 1)
  <2>1. s \in SUBSET DOMAIN a /\ Cardinality(s \ {x}) = Cardinality(s) - 1 /\ Cardinality(s) <= m
    BY <1>0, FS_RemoveElement DEF SubsetsUpTo
  <2> QED
    BY <1>0, <1>3, <2>1 DEF SubsetsUpTo
<1>8. IsPartialSums(more, a, UpTo(m))
  <2>1. ASSUME NEW s \in UpTo(m), s # {}
        PROVE  more[s \ {Chosen(s)}] = sums[s \ {Chosen(s)}]
    <3>1. Chosen(s) \in s
      BY <2>1 DEF Chosen
    <3> QED
      BY <1>6, <1>7, <3>1
  <2>2. ASSUME NEW s \in UpTo(m)
        PROVE  more[s] = IF s = {} THEN 0
                         ELSE LET x == Chosen(s) IN a[x] + more[s \ {x}]
    BY <2>1, <2>2
  <2>3. more = [s \in UpTo(m) |-> more[s]]
    OBVIOUS
  <2> HIDE DEF UpTo, more
  <2> QED
    BY <2>2, <2>3 DEF IsPartialSums
<1> QED
  BY <1>2, <1>8

(* The sums are there, and are added up as MapThenSumSet adds. *)
LEMMA SumsAreAddedUp ==
  ASSUME NEW a, IsFiniteSet(DOMAIN a)
  PROVE  /\ Sum(a, {}) = 0
         /\ \A s \in SUBSET DOMAIN a :
              s # {} => \E x \in s : Sum(a, s) = a[x] + Sum(a, s \ {x})
<1>1. Cardinality(DOMAIN a) \in Nat
      /\ SUBSET DOMAIN a = SubsetsUpTo(DOMAIN a, Cardinality(DOMAIN a))
  BY FS_Subset, FS_CardinalityType DEF SubsetsUpTo
<1>2. \E sums : IsPartialSums(sums, a, SUBSET DOMAIN a)
  <2>1. \E sums : IsPartialSums(sums, a, SubsetsUpTo(DOMAIN a, Cardinality(DOMAIN a)))
    BY <1>1, SumsOfSmallSets
  <2> QED
    BY <1>1, <2>1, Zenon
<1>3. IsPartialSums(PartialSums(a), a, SUBSET DOMAIN a)
  BY <1>2 DEF IsPartialSums, PartialSums
<1>4. ASSUME NEW s \in SUBSET DOMAIN a, s # {}
      PROVE  \E x \in s : Sum(a, s) = a[x] + Sum(a, s \ {x})
  <2>1. Chosen(s) \in s
    BY <1>4 DEF Chosen
  <2> QED
    BY <1>3, <1>4, <2>1 DEF IsPartialSums, Sum
<1> QED
  BY <1>3, <1>4 DEF IsPartialSums, Sum

(* Sums of integers are integers. *)
LEMMA SumsAreIntegers ==
  ASSUME NEW D, IsFiniteSet(D), NEW a \in [D -> Int]
  PROVE  \A s \in SUBSET D : Sum(a, s) \in Int
<1> DEFINE odd == {s \in SUBSET D : Sum(a, s) \notin Int}
<1>1. SUFFICES ASSUME odd # {} PROVE FALSE
  OBVIOUS
<1>2. PICK s \in odd : \A x \in s : s \ {x} \notin odd
  BY <1>1, SmallestSet
<1>3. s # {}
  BY <1>2, SumsAreAddedUp
<1>4. PICK x \in s : Sum(a, s) = a[x] + Sum(a, s \ {x})
  BY <1>2, <1>3, SumsAreAddedUp
<1>5. Sum(a, s \ {x}) \in Int
  BY <1>2, <1>4
<1> QED
  BY <1>2, <1>4, <1>5

(* In whichever order they are added. *)
LEMMA AnyCanBeLast ==
  ASSUME NEW D, IsFiniteSet(D), NEW a \in [D -> Int]
  PROVE  \A s \in SUBSET D : \A x \in s : Sum(a, s) = a[x] + Sum(a, s \ {x})
<1> DEFINE Holds(s) == \A x \in s : Sum(a, s) = a[x] + Sum(a, s \ {x})
           odd == {s \in SUBSET D : ~Holds(s)}
<1>1. SUFFICES ASSUME odd # {} PROVE FALSE
  OBVIOUS
<1>2. PICK s \in odd : \A x \in s : s \ {x} \notin odd
  BY <1>1, SmallestSet
<1>3. PICK x \in s : Sum(a, s) # a[x] + Sum(a, s \ {x})
  BY <1>2
<1>4. PICK y \in s : Sum(a, s) = a[y] + Sum(a, s \ {y})
  <2>1. s \in SUBSET DOMAIN a /\ s # {}
    BY <1>2, <1>3
  <2> HIDE DEF odd
  <2> QED
    BY <2>1, SumsAreAddedUp
<1>5. x # y /\ x \in s \ {y} /\ y \in s \ {x}
  BY <1>3, <1>4
<1>6. Sum(a, s \ {y}) = a[x] + Sum(a, (s \ {y}) \ {x})
  BY <1>2, <1>5
<1>7. Sum(a, s \ {x}) = a[y] + Sum(a, (s \ {x}) \ {y})
  BY <1>2, <1>5
<1>8. (s \ {y}) \ {x} = (s \ {x}) \ {y}
  OBVIOUS
<1>9. a[x] \in Int /\ a[y] \in Int /\ Sum(a, (s \ {x}) \ {y}) \in Int
  BY <1>2, SumsAreIntegers
<1> HIDE DEF odd, Holds
<1> DEFINE rest == Sum(a, (s \ {x}) \ {y})
<1>10. Sum(a, s) = a[y] + (a[x] + rest) /\ Sum(a, s \ {x}) = a[y] + rest
  BY <1>4, <1>6, <1>7, <1>8
<1>11. rest \in Int
  BY <1>9
<1> HIDE DEF rest
<1> QED
  BY <1>3, <1>9, <1>10, <1>11

(* The total of some of the amounts is a sum of all their table. *)
LEMMA TotalOfSome ==
  ASSUME NEW D, IsFiniteSet(D), NEW a \in [D -> Int], NEW some \in SUBSET D
  PROVE  Total([x \in some |-> a[x]]) = Sum(a, some)
<1> DEFINE b == [x \in some |-> a[x]]
           odd == {s \in SUBSET some : Sum(b, s) # Sum(a, s)}
<1>1. IsFiniteSet(some) /\ b \in [some -> Int] /\ DOMAIN b = some
  BY FS_Subset
<1>2. ASSUME odd # {} PROVE FALSE
  <2>1. PICK s \in odd : \A x \in s : s \ {x} \notin odd
    BY <1>1, <1>2, SmallestSet
  <2>2. s # {}
    BY <1>1, <2>1, SumsAreAddedUp
  <2>3. PICK x \in s : TRUE
    BY <2>2
  <2>4. Sum(b, s) = b[x] + Sum(b, s \ {x})
    BY <1>1, <2>1, AnyCanBeLast
  <2>5. Sum(a, s) = a[x] + Sum(a, s \ {x})
    BY <2>1, AnyCanBeLast
  <2>6. Sum(b, s \ {x}) = Sum(a, s \ {x}) /\ b[x] = a[x]
    BY <2>1
  <2> QED
    BY <2>1, <2>4, <2>5, <2>6
<1>3. Sum(b, some) = Sum(a, some)
  BY <1>2
<1> HIDE DEF b
<1> QED
  BY <1>1, <1>3, TotalIsASum DEF b

(* What is added up in two parts is all there. *)
LEMMA SumOfTwoParts ==
  ASSUME NEW D, IsFiniteSet(D), NEW a \in [D -> Int],
         NEW s \in SUBSET D, NEW t \in SUBSET D, s \cap t = {}
  PROVE  Sum(a, s \cup t) = Sum(a, s) + Sum(a, t)
<1> DEFINE odd == {p \in SUBSET s : Sum(a, p \cup t) # Sum(a, p) + Sum(a, t)}
<1>1. SUFFICES ASSUME odd # {} PROVE FALSE
  OBVIOUS
<1>2. IsFiniteSet(s)
  BY FS_Subset
<1>3. PICK p \in odd : \A x \in p : p \ {x} \notin odd
  BY <1>1, <1>2, SmallestSet
<1>4. Sum(a, t) \in Int /\ \A q \in SUBSET D : Sum(a, q) \in Int
  BY SumsAreIntegers
<1>5. p # {}
  <2> SUFFICES ASSUME p = {} PROVE FALSE
    OBVIOUS
  <2>1. p \cup t = t /\ Sum(a, p) = 0
    BY SumsAreAddedUp
  <2> QED
    BY <1>3, <1>4, <2>1
<1>6. PICK x \in p : TRUE
  BY <1>5
<1>7. Sum(a, p \cup t) = a[x] + Sum(a, (p \cup t) \ {x})
  BY <1>3, AnyCanBeLast
<1>8. Sum(a, p) = a[x] + Sum(a, p \ {x})
  BY <1>3, AnyCanBeLast
<1>9. (p \cup t) \ {x} = (p \ {x}) \cup t
  BY <1>3
<1>10. Sum(a, (p \ {x}) \cup t) = Sum(a, p \ {x}) + Sum(a, t)
  BY <1>3
<1>11. a[x] \in Int /\ Sum(a, p \ {x}) \in Int
  BY <1>3, <1>4
<1> QED
  BY <1>3, <1>4, <1>7, <1>8, <1>9, <1>10, <1>11

(* Amounts that are put into groups and added up there add up to the same. *)
LEMMA SumByGroups ==
  ASSUME NEW D, IsFiniteSet(D), NEW a \in [D -> Int],
         NEW R, NEW group \in Surjection(D, R), NEW b \in [R -> Int],
         \A r \in R : b[r] = Sum(a, {x \in D : group[x] = r})
  PROVE  Total(b) = Total(a)
<1> DEFINE In(p) == {x \in D : group[x] \in p}
           odd == {p \in SUBSET R : Sum(b, p) # Sum(a, In(p))}
<1>1. IsFiniteSet(R)
  BY FS_Surjection
<1>2. group \in [D -> R]
  BY DEF Surjection
<1>3. ASSUME odd # {} PROVE FALSE
  <2>1. PICK p \in odd : \A r \in p : p \ {r} \notin odd
    BY <1>1, <1>3, SmallestSet
  <2>2. p # {}
    <3> SUFFICES ASSUME p = {} PROVE FALSE
      OBVIOUS
    <3>1. In(p) = {}
      OBVIOUS
    <3>2. Sum(b, p) = 0 /\ Sum(a, {}) = 0
      BY <1>1, SumsAreAddedUp
    <3> HIDE DEF In
    <3> QED
      BY <2>1, <3>1, <3>2
  <2>3. PICK r \in p : TRUE
    BY <2>2
  <2>4. Sum(b, p) = b[r] + Sum(b, p \ {r})
    BY <1>1, <2>1, AnyCanBeLast
  <2>5. Sum(b, p \ {r}) = Sum(a, In(p \ {r}))
    BY <2>1
  <2> DEFINE here == In({r})
             there == In(p \ {r})
  <2>6. In(p) = here \cup there
    OBVIOUS
  <2>7. Sum(a, here \cup there) = Sum(a, here) + Sum(a, there)
    <3>1. here \cap there = {} /\ here \in SUBSET D /\ there \in SUBSET D
      OBVIOUS
    <3> HIDE DEF In, here, there
    <3> QED
      BY <3>1, SumOfTwoParts
  <2>8. b[r] = Sum(a, here) /\ there = In(p \ {r})
    <3>1. here = {x \in D : group[x] = r}
      OBVIOUS
    <3> HIDE DEF here
    <3> QED
      BY <2>1, <3>1
  <2> HIDE DEF In, here, there
  <2> QED
    BY <2>1, <2>4, <2>5, <2>6, <2>7, <2>8
<1>4. In(R) = D
  BY <1>2
<1>5. Sum(b, R) = Sum(a, D)
  BY <1>3, <1>4
<1>6. DOMAIN a = D /\ DOMAIN b = R
  OBVIOUS
<1> QED
  BY <1>5, <1>6, TotalIsASum

-----------------------------------------------------------------------------
(* What is in a cell is one amount, or none. *)
LEMMA CellsAreParsed ==
  ASSUME NEW cell \in Cell
  PROVE  parse_amount(cell) \in SUBSET Int /\ Cardinality(parse_amount(cell)) <= 1
<1>1. parse_amount(cell) = {} \/ \E n \in Int : parse_amount(cell) = {n}
  BY DEF parse_amount, Cell
<1>2. CASE parse_amount(cell) = {}
  BY <1>2, FS_EmptySet
<1>3. CASE \E n \in Int : parse_amount(cell) = {n}
  <2>1. PICK n \in Int : parse_amount(cell) = {n}
    BY <1>3
  <2>2. Cardinality({n}) = 1
    BY FS_Singleton
  <2> QED
    BY <2>1, <2>2
<1> QED
  BY <1>1, <1>2, <1>3

(* What SAS drafted and could be read. *)
AllAmounts == Amounts(DOMAIN sas)

(* There are finitely many amounts to add up, and they are integers. *)
LEMMA AmountsAreIntegers ==
  ASSUME Written
  PROVE  /\ IsFiniteSet(Readable(DOMAIN sas))
         /\ AllAmounts \in [Readable(DOMAIN sas) -> Int]
<1>1. DOMAIN sas = 1..Len(sas) /\ Len(sas) \in Nat
  BY DEF Written
<1>2. IsFiniteSet(DOMAIN sas)
  BY <1>1, FS_Interval
<1>3. Readable(DOMAIN sas) \in SUBSET DOMAIN sas
  BY DEF Readable
<1>4. IsFiniteSet(Readable(DOMAIN sas))
  BY <1>2, <1>3, FS_Subset
<1>5. ASSUME NEW i \in Readable(DOMAIN sas)
      PROVE  (CHOOSE amount \in parse_amount(sas[i].amount) : TRUE) \in Int
  <2>1. sas[i] \in [store : SasNames, amount : SasCells]
    BY <1>3, ElementOfSeq, LenProperties DEF Written
  <2>2. parse_amount(sas[i].amount) \in SUBSET Int
    BY <2>1, CellsAreParsed, MergeAssumption
  <2>3. parse_amount(sas[i].amount) # {}
    BY DEF Readable
  <2> QED
    BY <2>2, <2>3
<1> QED
  BY <1>4, <1>5 DEF AllAmounts, Amounts

(* The amounts of some rows are those of all, and their total is a sum of them. *)
LEMMA TotalOfRows ==
  ASSUME Written, NEW rows \in SUBSET DOMAIN sas
  PROVE  /\ Readable(rows) \in SUBSET Readable(DOMAIN sas)
         /\ Total(Amounts(rows)) = Sum(AllAmounts, Readable(rows))
         /\ Total(Amounts(rows)) \in Int
<1>1. Readable(rows) \in SUBSET Readable(DOMAIN sas)
  BY DEF Readable
<1>2. Amounts(rows) = [i \in Readable(rows) |-> AllAmounts[i]]
  BY <1>1 DEF Amounts, AllAmounts
<1>3. Total(Amounts(rows)) = Sum(AllAmounts, Readable(rows))
  BY <1>1, <1>2, AmountsAreIntegers, TotalOfSome
<1> QED
  BY <1>1, <1>3, AmountsAreIntegers, SumsAreIntegers

(* A group has one total, or none. *)
LEMMA SumsOfGroups ==
  ASSUME Written, NEW rows \in SUBSET DOMAIN sas
  PROVE  sum_amounts(rows) \in SUBSET Int /\ Cardinality(sum_amounts(rows)) <= 1
<1>1. sum_amounts(rows) = {} \/ sum_amounts(rows) = {Total(Amounts(rows))}
  BY DEF sum_amounts
<1>2. Total(Amounts(rows)) \in Int
  BY TotalOfRows
<1>3. Cardinality({}) = 0 /\ Cardinality({Total(Amounts(rows))}) = 1
  BY FS_EmptySet, FS_Singleton
<1> QED
  BY <1>1, <1>2, <1>3

(* The rows are well-typed, their totals are numbers: assemble_report and sum_amounts. *)
THEOREM TypeCorrect == Spec => []TypeOK
<1>1. IInv => TypeOK
  <2> SUFFICES ASSUME IInv, NEW row \in Merged
               PROVE  /\ row.line \in {0} \cup DOMAIN ryo
                      /\ row.ryo_total \in SUBSET Int /\ Cardinality(row.ryo_total) <= 1
                      /\ row.sas_total \in SUBSET Int /\ Cardinality(row.sas_total) <= 1
    BY DEF IInv, Written, IsMerged, TypeOK
  <2>1. ASSUME NEW key
        PROVE  sum_amounts(Group(key)) \in SUBSET Int /\ Cardinality(sum_amounts(Group(key))) <= 1
    <3>1. Group(key) \in SUBSET DOMAIN sas
      BY DEF Group
    <3> QED
      BY <3>1, SumsOfGroups DEF IInv
  <2>2. CASE \E i \in Kept : row = Matched(i)
    <3>1. PICK i \in Kept : row = Matched(i)
      BY <2>2
    <3>2. /\ row.line = i
          /\ row.ryo_total = parse_amount(ryo[i].amount)
          /\ row.sas_total = sum_amounts(Group(RyoKey(ryo[i])))
      BY <3>1 DEF Matched
    <3>3. ryo[i].amount \in Cell
      BY RowsOfTheFiles, MergeAssumption DEF IInv
    <3> QED
      BY <2>1, <3>2, <3>3, CellsAreParsed DEF Kept
  <2>3. CASE \E key \in SasStores : row = Unmatched(key)
    <3>1. PICK key \in SasStores : row = Unmatched(key)
      BY <2>3
    <3>2. /\ row.line = 0 /\ row.ryo_total = {}
          /\ row.sas_total = sum_amounts(Group(key))
      BY <3>1 DEF Unmatched
    <3> QED
      BY <2>1, <3>2, FS_EmptySet
  <2> QED
    BY <2>2, <2>3 DEF Merged
<1> QED
  BY <1>1, MergeInvariant, PTL

-----------------------------------------------------------------------------
(* A row has its store's group. *)
LEMMA RowsHaveTheirGroup ==
  ASSUME NEW row \in Merged
  PROVE  row.sas_total = sum_amounts(Group(row.store))
<1>1. CASE \E i \in Kept : row = Matched(i)
  BY <1>1 DEF Matched
<1>2. CASE \E key \in SasStores : row = Unmatched(key)
  BY <1>2 DEF Unmatched
<1> QED
  BY <1>1, <1>2 DEF Merged

(* A store has a row, and only one if the RYO file lists it once. *)
LEMMA StoresHaveOneRow ==
  ASSUME OncePerStore
  PROVE  /\ \A key \in SasStores : \E row \in Merged : row.store = key
         /\ \A row, other \in Merged : row.store = other.store => row = other
<1>1. ASSUME NEW key \in SasStores PROVE \E row \in Merged : row.store = key
  <2>1. CASE key \in RyoStores
    <3>1. PICK i \in Kept : RyoKey(ryo[i]) = key
      BY <2>1 DEF RyoStores
    <3> QED
      BY <3>1, StoreOfMatched DEF Merged
  <2>2. CASE key \notin RyoStores
    BY <2>2, StoreOfUnmatched DEF Merged
  <2> QED
    BY <2>1, <2>2
<1>2. ASSUME NEW row \in Merged
      PROVE  \/ row.store \in RyoStores
                /\ \E i \in Kept : row = Matched(i) /\ RyoKey(ryo[i]) = row.store
             \/ row.store \notin RyoStores /\ row = Unmatched(row.store)
  BY StoreOfMatched, StoreOfUnmatched DEF Merged, RyoStores
<1>3. ASSUME NEW row \in Merged, NEW other \in Merged, row.store = other.store
      PROVE  row = other
  <2>1. CASE row.store \in RyoStores
    <3>1. PICK i \in Kept : row = Matched(i) /\ RyoKey(ryo[i]) = row.store
      BY <1>2, <2>1
    <3>2. PICK j \in Kept : other = Matched(j) /\ RyoKey(ryo[j]) = row.store
      BY <1>2, <1>3, <2>1
    <3>3. i = j
      BY <3>1, <3>2 DEF OncePerStore
    <3> QED
      BY <3>1, <3>2, <3>3
  <2>2. CASE row.store \notin RyoStores
    BY <1>2, <1>3, <2>2
  <2> QED
    BY <2>1, <2>2
<1> QED
  BY <1>1, <1>3

(* The totals of a report whose stores have one row each add up to all of SAS's
   readable amounts: the outer join of groupby's sums.                              *)
LEMMA MergedAddsUp ==
  ASSUME Written, OncePerStore
  PROVE  Total([row \in {r \in Merged : r.sas_total # {}} |-> TotalIn(row)])
           = Total(Amounts(DOMAIN sas))
<1> DEFINE R == {r \in Merged : r.sas_total # {}}
           D == Readable(DOMAIN sas)
           KeyOf(j) == SasKey(sas[j])
           group == [j \in D |-> CHOOSE row \in R : row.store = KeyOf(j)]
           b == [row \in R |-> TotalIn(row)]
<1>1. ASSUME NEW row \in R
      PROVE  /\ Readable(Group(row.store)) # {}
             /\ Readable(Group(row.store)) = {j \in D : KeyOf(j) = row.store}
             /\ b[row] = Sum(AllAmounts, Readable(Group(row.store)))
             /\ b[row] \in Int
  <2>1. row.sas_total = sum_amounts(Group(row.store)) /\ row.sas_total # {}
    BY RowsHaveTheirGroup
  <2>2. /\ Readable(Group(row.store)) # {}
        /\ row.sas_total = {Total(Amounts(Group(row.store)))}
    BY <2>1 DEF sum_amounts
  <2>3. TotalIn(row) = Total(Amounts(Group(row.store)))
    BY <2>2 DEF TotalIn
  <2>4. Group(row.store) \in SUBSET DOMAIN sas
    BY DEF Group
  <2>5. Readable(Group(row.store)) = {j \in D : KeyOf(j) = row.store}
    BY DEF Readable, Group
  <2>6. b[row] = TotalIn(row)
    OBVIOUS
  <2> QED
    BY <2>2, <2>3, <2>4, <2>5, <2>6, TotalOfRows
<1>2. ASSUME NEW j \in D PROVE group[j] \in R /\ group[j].store = KeyOf(j)
  <2>1. j \in DOMAIN sas /\ KeyOf(j) \in SasStores
    BY DEF Readable, SasStores
  <2>2. PICK row \in Merged : row.store = KeyOf(j)
    BY <2>1, StoresHaveOneRow
  <2>3. j \in Readable(Group(row.store))
    BY <2>1, <2>2 DEF Readable, Group
  <2>4. row.sas_total # {}
    BY <2>3, RowsHaveTheirGroup DEF sum_amounts
  <2>5. \E r \in R : r.store = KeyOf(j)
    BY <2>2, <2>4
  <2> HIDE DEF R, KeyOf
  <2> QED
    BY <2>5
<1>3. ASSUME NEW row \in R
      PROVE  {j \in D : group[j] = row} = Readable(Group(row.store))
  <2>1. \A j \in D : group[j] = row <=> KeyOf(j) = row.store
    BY <1>2, StoresHaveOneRow
  <2> HIDE DEF group, KeyOf, D
  <2> QED
    BY <1>1, <2>1
<1>4. group \in Surjection(D, R)
  <2>1. group \in [D -> R]
    BY <1>2
  <2>2. ASSUME NEW row \in R PROVE \E j \in D : group[j] = row
    <3>1. {j \in D : group[j] = row} # {}
      BY <1>1, <1>3
    <3> HIDE DEF group, D
    <3> QED
      BY <3>1
  <2> HIDE DEF group, D, R
  <2> QED
    BY <2>1, <2>2 DEF Surjection
<1>5. b \in [R -> Int]
  BY <1>1
<1>6. \A row \in R : b[row] = Sum(AllAmounts, {j \in D : group[j] = row})
  BY <1>1, <1>3
<1>7. IsFiniteSet(D) /\ AllAmounts \in [D -> Int]
  BY AmountsAreIntegers
<1> HIDE DEF D, R, group, b
<1>8. Total(b) = Total(AllAmounts)
  BY <1>4, <1>5, <1>6, <1>7, SumByGroups
<1> QED
  BY <1>8 DEF b, R, AllAmounts

(* No money of SAS's is lost or counted twice, whatever the files hold, if they list
   no store twice at RYO: assemble_report's groupby and outer join.                   *)
THEOREM NoMoneyIsLost == Spec => []SasAddsUp
<1>1. IInv => SasAddsUp
  BY MergedAddsUp DEF IInv, IsMerged, SasAddsUp
<1> QED
  BY <1>1, MergeInvariant, PTL
=============================================================================
