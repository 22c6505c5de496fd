---------------------------- MODULE Records_proofs ---------------------------
(***************************************************************************)
(* Proofs about the modules whose handlers work on rows without            *)
(* transactions, each for every value of its constants: the organisation   *)
(* (OrgTree and OrgGroups), then Registration, Rights with Staffing,       *)
(* Events and Tasks.  Much of the organisation is about data defined by    *)
(* recursion or by paths, so the module starts with induction: over a set  *)
(* of naturals, since the provers cannot take a predicate as a parameter.  *)
(* It ends with all of them side by side, as MCRecords composes them.      *)
(***************************************************************************)
EXTENDS MCRecords, FiniteSetTheorems, TLAPS

------------------------------------------------------------------------------
(* Naturals *)

LEMMA LeastOf ==
  ASSUME NEW S \in SUBSET Nat, S # {}
  PROVE  \E n \in S : \A m \in S : n <= m
<1> DEFINE R == OpToRel(<, Nat)
<1>1. IsWellFoundedOn(R, Nat)
  BY NatLessThanWellFounded
<1>2. \A m, n \in Nat : <<m, n>> \in R <=> m < n
  BY DEF OpToRel
<1> HIDE DEF R
<1>3. PICK n \in S : \A m \in S : ~(<<m, n>> \in R)
  BY <1>1, WFMin
<1>4. ASSUME NEW m \in S PROVE n <= m
  <2>1. m \in Nat /\ n \in Nat
    OBVIOUS
  <2>2. ~(<<m, n>> \in R)
    BY <1>3
  <2>3. ~(m < n)
    BY <1>2, <2>1, <2>2
  <2> QED BY <2>1, <2>3
<1> QED BY <1>4

LEMMA GreatestOf ==
  ASSUME NEW N, NEW b \in Nat, N \subseteq 1..b, N # {}
  PROVE  \E n \in N : \A m \in N : m <= n
<1> DEFINE S == {i \in Nat : \A m \in N : m <= i}
<1>1. \A m \in N : m \in Nat /\ 1 <= m /\ m <= b
  OBVIOUS
<1>2. S \in SUBSET Nat /\ b \in S
  BY <1>1
<1>3. \A i \in Nat : i \in S <=> \A m \in N : m <= i
  OBVIOUS
<1> HIDE DEF S
<1>4. PICK i \in S : \A j \in S : i <= j
  BY <1>2, LeastOf
<1>5. i \in Nat /\ \A m \in N : m <= i
  BY <1>2, <1>3, <1>4
<1>6. ASSUME i \notin N PROVE FALSE
  <2>1. \A m \in N : m <= i - 1
    BY <1>1, <1>5, <1>6
  <2>2. i - 1 \in Nat
    <3>1. PICK m \in N : TRUE
      OBVIOUS
    <3>2. m \in Nat /\ 1 <= m /\ m <= i
      BY <1>1, <1>5
    <3> QED BY <1>5, <3>2
  <2>3. i - 1 \in S
    BY <1>3, <2>1, <2>2
  <2> QED BY <1>4, <1>5, <2>3
<1> QED BY <1>5, <1>6

LEMMA UpTo ==
  ASSUME NEW N \in Nat, NEW S \in SUBSET (0..N), 0 \in S,
         \A i \in S : i < N => i + 1 \in S
  PROVE  S = 0..N
<1> SUFFICES ASSUME NEW x \in 0..N, x \notin S PROVE FALSE
  OBVIOUS
<1> DEFINE T == {i \in Nat : i <= N /\ i \notin S}
<1>1. T \in SUBSET Nat /\ x \in T
  OBVIOUS
<1>2. PICK n \in T : \A m \in T : n <= m
  BY <1>1, LeastOf
<1>3. n \in Nat /\ n <= N /\ n \notin S /\ n # 0
  BY <1>2
<1>4. n - 1 \in Nat /\ n - 1 <= N /\ n - 1 \notin T
  BY <1>2, <1>3
<1>5. n - 1 \in S /\ n - 1 < N /\ (n - 1) + 1 = n
  BY <1>3, <1>4
<1> QED BY <1>3, <1>5

------------------------------------------------------------------------------
(* What lies below: the recursion of Below, and where it ends *)

Height == Cardinality(Units)

LEMMA HeightType == Height \in Nat
BY OrgAssumption, FS_CardinalityType DEF Height

(* The levels of Below up to the k-th.                                     *)
Levels(g, k, S) ==
  g = [i \in 0..k |-> IF i = 0 THEN S ELSE g[i - 1] \union Children(g[i - 1])]

LEMMA LevelsExist == ASSUME NEW S PROVE \E g : Levels(g, Height, S)
<1> DEFINE K == {k \in 0..Height : \E g : Levels(g, k, S)}
<1>1. K \in SUBSET (0..Height)
  OBVIOUS
<1>2. 0 \in K
  <2>1. Levels([i \in 0..0 |-> S], 0, S)
    BY DEF Levels
  <2> QED BY <2>1, HeightType
<1>3. ASSUME NEW k \in K, k < Height PROVE k + 1 \in K
  <2>1. PICK g : Levels(g, k, S)
    OBVIOUS
  <2>2. k \in Nat /\ k + 1 \in 0..Height
    BY <1>3, HeightType
  <2> DEFINE e == [i \in 0..(k + 1) |-> IF i = k + 1 THEN g[k] \union Children(g[k]) ELSE g[i]]
  <2>3. \A i \in 0..k : g[i] = IF i = 0 THEN S ELSE g[i - 1] \union Children(g[i - 1])
    BY <2>1 DEF Levels
  <2>4. \A i \in 0..k : e[i] = g[i]
    BY <2>2
  <2>5. e[k + 1] = g[k] \union Children(g[k])
    BY <2>2
  <2> HIDE DEF e
  <2>6. ASSUME NEW i \in 0..(k + 1)
        PROVE  e[i] = IF i = 0 THEN S ELSE e[i - 1] \union Children(e[i - 1])
    <3>1. CASE i = 0
      <4>1. 0 \in 0..k
        BY <2>2
      <4>2. e[0] = g[0] /\ g[0] = S
        BY <2>3, <2>4, <4>1
      <4> QED BY <3>1, <4>2
    <3>2. CASE i = k + 1
      <4>1. i # 0 /\ i - 1 = k /\ e[k] = g[k]
        BY <2>2, <2>4, <3>2
      <4> QED BY <2>5, <3>2, <4>1
    <3>3. CASE i \in 1..k
      <4>1. i # 0 /\ i \in 0..k /\ i - 1 \in 0..k
        BY <2>2, <3>3
      <4>2. e[i] = g[i] /\ e[i - 1] = g[i - 1]
        BY <2>4, <4>1
      <4> QED BY <2>3, <4>1, <4>2
    <3> QED BY <2>2, <3>1, <3>2, <3>3
  <2>7. e = [i \in 0..(k + 1) |-> e[i]]
    BY DEF e
  <2>8. Levels(e, k + 1, S)
    BY <2>6, <2>7 DEF Levels
  <2> QED BY <2>2, <2>8
<1> HIDE DEF K
<1>4. Height \in K
  BY <1>1, <1>2, <1>3, HeightType, UpTo
<1> QED BY <1>4 DEF K

LEMMA BelowLevels == ASSUME NEW S PROVE \E g : Levels(g, Height, S) /\ Below(S) = g[Height]
<1> DEFINE g == CHOOSE f : Levels(f, Height, S)
<1>1. Levels(g, Height, S)
  BY LevelsExist
<1>2. Below(S) = g[Height]
  BY DEF Below, Levels, Height
<1> QED BY <1>1, <1>2

(* A level that is not closed has a further unit, so that the last one is  *)
(* closed; nothing is in it that a closed set would not have.              *)
LEMMA BelowClosed ==
  ASSUME NEW S \in SUBSET Units
  PROVE  /\ S \subseteq Below(S) /\ Below(S) \subseteq Units
         /\ Children(Below(S)) \subseteq Below(S)
         /\ \A T : S \subseteq T /\ Children(T) \subseteq T => Below(S) \subseteq T
<1>1. PICK g : Levels(g, Height, S) /\ Below(S) = g[Height]
  BY BelowLevels
<1>2. /\ g[0] = S
      /\ \A i \in 0..Height : i < Height => g[i + 1] = g[i] \union Children(g[i])
  <2>1. \A i \in 0..Height : g[i] = IF i = 0 THEN S ELSE g[i - 1] \union Children(g[i - 1])
    BY <1>1 DEF Levels
  <2>2. ASSUME NEW i \in 0..Height, i < Height
        PROVE  g[i + 1] = g[i] \union Children(g[i])
    <3>1. i + 1 \in 0..Height /\ i + 1 # 0 /\ (i + 1) - 1 = i
      BY <2>2, HeightType
    <3> QED BY <2>1, <3>1
  <2>3. 0 \in 0..Height
    BY HeightType
  <2> QED BY <2>1, <2>2, <2>3
<1>3. \A X : Children(X) \subseteq Units
  BY DEF Children, LiveUnits
<1>4. ASSUME NEW T, S \subseteq T, Children(T) \subseteq T
      PROVE  g[Height] \subseteq T
  <2> DEFINE K == {i \in 0..Height : g[i] \subseteq T}
  <2>1. 0 \in K
    BY <1>2, <1>4, HeightType
  <2>2. ASSUME NEW i \in K, i < Height PROVE i + 1 \in K
    <3>1. Children(g[i]) \subseteq Children(T)
      BY DEF Children
    <3>2. g[i + 1] \subseteq T /\ i + 1 \in 0..Height
      BY <1>2, <1>4, <2>2, <3>1, HeightType
    <3> QED BY <3>2
  <2>3. K \in SUBSET (0..Height)
    OBVIOUS
  <2> HIDE DEF K
  <2>4. Height \in K
    BY <2>1, <2>2, <2>3, HeightType, UpTo
  <2> QED BY <2>4 DEF K
<1>5. g[Height] \subseteq Units
  BY <1>3, <1>4
<1>6. S \subseteq g[Height]
  <2> DEFINE K == {i \in 0..Height : S \subseteq g[i]}
  <2>1. 0 \in K
    BY <1>2, HeightType
  <2>2. ASSUME NEW i \in K, i < Height PROVE i + 1 \in K
    BY <1>2, <2>2, HeightType
  <2>3. K \in SUBSET (0..Height)
    OBVIOUS
  <2> HIDE DEF K
  <2>4. Height \in K
    BY <2>1, <2>2, <2>3, HeightType, UpTo
  <2> QED BY <2>4 DEF K
<1>7. Children(g[Height]) \subseteq g[Height]
  <2> DEFINE Full(i) == /\ g[i] \subseteq Units
                        /\ \/ Children(g[i]) \subseteq g[i]
                           \/ Cardinality(g[i]) >= i
             K == {i \in 0..Height : Full(i)}
  <2>1. 0 \in K
    <3>1. Cardinality(S) \in Nat
      BY OrgAssumption, FS_Subset, FS_CardinalityType
    <3> QED BY <1>2, <3>1, HeightType
  <2>2. ASSUME NEW i \in K, i < Height PROVE i + 1 \in K
    <3>1. i \in Nat /\ i + 1 \in 0..Height /\ g[i] \subseteq Units
      BY <2>2, HeightType
    <3>2. g[i + 1] = g[i] \union Children(g[i]) /\ g[i + 1] \subseteq Units
      BY <1>2, <1>3, <2>2, <3>1
    <3>3. CASE Children(g[i]) \subseteq g[i]
      <4>1. g[i + 1] = g[i]
        BY <3>2, <3>3
      <4> QED BY <3>1, <3>2, <3>3, <4>1
    <3>4. CASE ~(Children(g[i]) \subseteq g[i])
      <4>1. PICK n \in Children(g[i]) : n \notin g[i]
        BY <3>4
      <4>2. g[i] \union {n} \subseteq g[i + 1] /\ IsFiniteSet(g[i])
        BY <3>1, <3>2, <4>1, OrgAssumption, FS_Subset
      <4>3. Cardinality(g[i] \union {n}) = Cardinality(g[i]) + 1 /\ Cardinality(g[i]) \in Nat
        BY <4>1, <4>2, FS_AddElement, FS_CardinalityType
      <4>4. IsFiniteSet(g[i + 1]) /\ Cardinality(g[i + 1]) \in Nat
        BY <3>2, OrgAssumption, FS_Subset, FS_CardinalityType
      <4>5. Cardinality(g[i] \union {n}) <= Cardinality(g[i + 1])
        BY <4>2, <4>4, FS_Subset
      <4>6. Cardinality(g[i]) >= i
        BY <2>2, <3>4
      <4>7. Cardinality(g[i + 1]) >= i + 1
        BY <3>1, <4>3, <4>4, <4>5, <4>6
      <4> QED BY <3>1, <3>2, <4>7
    <3> QED BY <3>3, <3>4
  <2>3. K \in SUBSET (0..Height)
    OBVIOUS
  <2> HIDE DEF K
  <2>4. Height \in K
    BY <2>1, <2>2, <2>3, HeightType, UpTo
  <2>5. Full(Height)
    BY <2>4 DEF K
  <2>6. CASE Cardinality(g[Height]) >= Height
    <3>1. Cardinality(g[Height]) = Height
      <4>1. Cardinality(g[Height]) \in Nat /\ Cardinality(g[Height]) <= Height
        BY <2>5, OrgAssumption, FS_Subset, FS_CardinalityType DEF Height
      <4> QED BY <2>6, <4>1, HeightType
    <3>2. g[Height] = Units
      BY <2>5, <3>1, OrgAssumption, FS_Subset DEF Height
    <3> QED BY <1>3, <3>2
  <2> QED BY <2>5, <2>6
<1> QED BY <1>1, <1>4, <1>5, <1>6, <1>7

------------------------------------------------------------------------------
(* The tree *)

(* What is above a unit has a row; below one parent no two rows share a    *)
(* name; and what is at the top and live does not, until a request races.  *)
RowsOK ==
  /\ \A n \in Units : unit[n].parent \in Units => HasRow(unit[n].parent)
  /\ \A m, n \in Units :
       /\ m # n /\ HasRow(m) /\ HasRow(n)
       /\ unit[m].parent = unit[n].parent /\ unit[m].name = unit[n].name
       => unit[m].parent = Top

TopNamesOK ==
  ~raced => \A m, n \in LiveUnits :
    unit[m].parent = Top /\ unit[n].parent = Top /\ unit[m].name = unit[n].name => m = n

(* Some unit of any set of live units hangs outside of it: no unit is      *)
(* below itself.                                                           *)
Grounded == \A X \in SUBSET LiveUnits : X # {} => \E n \in X : unit[n].parent \notin X

(* What a request carries, by its operation and statement.                 *)
AskShape(q) ==
  \/ q = NoUnitReq
  \/ /\ q.op = "create" /\ q.at \in {"names", "write"} /\ q.id = Top
     /\ q.parent # Same /\ q.name # Same /\ q.under = q.parent
  \/ /\ q.op = "update" /\ q.at # "idle" /\ q.id \in Units
     /\ q.at = "parent" => q.parent \in Units
     /\ q.at \in {"parent", "current"} => q.under = Same
     /\ q.at \in {"current", "names"} => q.name # Same
     /\ q.at = "names" => q.under # Same
     /\ q.at = "write" => (q.under = Same <=> q.name = Same)
  \/ q.op = "delete" /\ q.at = "write" /\ q.id \in Units /\ q.under = Same

(* The rows it names are there, and the name it has compared is free       *)
(* unless units have changed.                                              *)
AskFits(q) ==
  /\ AskShape(q)
  /\ q.id \in Units => HasRow(q.id)
  /\ q.parent \in Units /\ q.at # "parent" => HasRow(q.parent)
  /\ q.at = "write" /\ q.under # Same /\ ~q.stale => ~NameTaken(q)

AsksFit == \A h \in OrgReqs : AskFits(unitReq[h])

TreeIInv == TreeTypeOK /\ RowsOK /\ TopNamesOK /\ AsksFit /\ (~looped => Grounded)

LEMMA NoUnitThere == NoUnit \notin UnitRows /\ ~NoUnit.live /\ NoUnit.parent = Top
BY OrgAssumption DEF NoUnit, UnitRows

LEMMA UnitRowsThere ==
  ASSUME TreeTypeOK, NEW n \in Units
  PROVE  /\ HasRow(n) <=> unit[n] \in UnitRows
         /\ n \in LiveUnits => HasRow(n)
BY NoUnitThere DEF TreeTypeOK, HasRow, LiveUnits

LEMMA NoUnitReqFits == NoUnitReq \in UnitReqs /\ AskFits(NoUnitReq)
BY OrgAssumption DEF NoUnitReq, UnitReqs, AskFits, AskShape

(* A request goes on or ends, the units staying as they are.               *)
LEMMA UnitAskGoes ==
  ASSUME TreeIInv, NEW h \in OrgReqs, NEW d \in UnitReqs, AskFits(d),
         unitReq' = [unitReq EXCEPT ![h] = d], UNCHANGED <<unit, looped, raced, tagVars>>
  PROVE  TreeIInv'
<1>1. unitReq \in [OrgReqs -> UnitReqs]
  BY DEF TreeIInv, TreeTypeOK
<1>2. \A k \in OrgReqs : AskFits(unitReq'[k])
  BY <1>1 DEF TreeIInv, AsksFit
<1>3. AsksFit'
  BY <1>2 DEF AsksFit, AskFits, AskShape, HasRow, NameTaken, LiveUnits
<1>4. TreeTypeOK'
  BY <1>1 DEF TreeIInv, TreeTypeOK, tagVars
<1>5. RowsOK' /\ TopNamesOK' /\ (~looped' => Grounded')
  BY DEF TreeIInv, RowsOK, TopNamesOK, Grounded, HasRow, LiveUnits
<1> QED BY <1>3, <1>4, <1>5 DEF TreeIInv

LEMMA UnitAskStays ==
  ASSUME TreeIInv, UNCHANGED <<unit, unitReq, looped, raced>>,
         tag' \in [Tags -> {"none", "live", "deleted"}], tagged' \subseteq Units \X Tags
  PROVE  TreeIInv'
<1>1. AsksFit'
  BY DEF TreeIInv, AsksFit, AskFits, AskShape, HasRow, NameTaken, LiveUnits
<1>2. RowsOK' /\ TopNamesOK' /\ (~looped' => Grounded')
  BY DEF TreeIInv, RowsOK, TopNamesOK, Grounded, HasRow, LiveUnits
<1> QED BY <1>1, <1>2 DEF TreeIInv, TreeTypeOK

(* A unit is written, and every other request no longer knows the units.   *)
LEMMA StoreOK ==
  ASSUME TreeIInv, NEW h \in OrgReqs, NEW n \in Units, NEW row \in UnitRows, Store(h, n, row),
         KeyFree(n, row), row.parent \in Units => HasRow(row.parent),
         looped' \in BOOLEAN, raced' \in BOOLEAN, raced => raced', UNCHANGED tagVars,
         ~raced' /\ row.live /\ row.parent = Top =>
           \A m \in LiveUnits \ {n} : ~(unit[m].parent = Top /\ unit[m].name = row.name),
         ~looped' => Grounded'
  PROVE  TreeIInv'
<1>0. /\ unit \in [Units -> UnitRows \union {NoUnit}]
      /\ unitReq \in [OrgReqs -> UnitReqs]
  BY DEF TreeIInv, TreeTypeOK
<1>1. /\ unit' = [unit EXCEPT ![n] = row] /\ unitReq' = Unaware(Returned(h))
      /\ unit' \in [Units -> UnitRows \union {NoUnit}]
      /\ unit'[n] = row /\ \A m \in Units \ {n} : unit'[m] = unit[m]
  BY <1>0 DEF Store
<1>2. \A m \in Units : HasRow(m) => HasRow(m)'
  BY <1>1, NoUnitThere DEF HasRow
<1>3. RowsOK'
  <2>1. ASSUME NEW m \in Units PROVE unit'[m].parent \in Units => HasRow(unit'[m].parent)
    BY <1>1 DEF TreeIInv, RowsOK
  <2>2. ASSUME NEW m \in Units, NEW k \in Units, m # k, HasRow(m)', HasRow(k)',
               unit'[m].parent = unit'[k].parent, unit'[m].name = unit'[k].name
        PROVE  unit'[m].parent = Top
    <3>1. CASE m # n /\ k # n
      BY <1>1, <2>2, <3>1 DEF TreeIInv, RowsOK, HasRow
    <3>2. CASE m = n
      BY <1>1, <2>2, <3>2 DEF KeyFree, HasRow
    <3>3. CASE k = n
      BY <1>1, <2>2, <3>3 DEF KeyFree, HasRow
    <3> QED BY <3>1, <3>2, <3>3
  <2>3. \A m \in Units : unit'[m].parent \in Units => unit'[unit'[m].parent] # NoUnit
    BY <1>2, <2>1 DEF HasRow
  <2> QED BY <2>2, <2>3 DEF RowsOK, HasRow
<1>4. TopNamesOK'
  <2> SUFFICES ASSUME ~raced', NEW m \in LiveUnits', NEW k \in LiveUnits',
                      unit'[m].parent = Top, unit'[k].parent = Top,
                      unit'[m].name = unit'[k].name
               PROVE  m = k
    BY DEF TopNamesOK
  <2>1. m \in Units /\ k \in Units /\ unit'[m].live /\ unit'[k].live
    BY DEF LiveUnits
  <2>2. CASE m # n /\ k # n
    <3>1. m \in LiveUnits /\ k \in LiveUnits /\ unit'[m] = unit[m] /\ unit'[k] = unit[k]
      BY <1>1, <2>1, <2>2 DEF LiveUnits
    <3> QED BY <3>1 DEF TreeIInv, TopNamesOK
  <2>3. CASE m = n /\ k # n
    <3>1. k \in LiveUnits /\ unit'[k] = unit[k]
      BY <1>1, <2>1, <2>3 DEF LiveUnits
    <3> QED BY <1>1, <2>1, <2>3, <3>1
  <2>4. CASE k = n /\ m # n
    <3>1. m \in LiveUnits /\ unit'[m] = unit[m]
      BY <1>1, <2>1, <2>4 DEF LiveUnits
    <3> QED BY <1>1, <2>1, <2>4, <3>1
  <2> QED BY <2>2, <2>3, <2>4
<1>5. ASSUME NEW k \in OrgReqs
      PROVE  unitReq'[k] \in UnitReqs /\ AskFits(unitReq[k])'
  <2>1. CASE unitReq'[k] = NoUnitReq
    BY <2>1, OrgAssumption DEF NoUnitReq, UnitReqs, AskFits, AskShape
  <2>2. CASE unitReq'[k] = [unitReq[k] EXCEPT !.stale = TRUE]
    <3> DEFINE q == unitReq[k]
               d == unitReq'[k]
    <3>1. q \in UnitReqs /\ AskFits(q)
      BY <1>0 DEF TreeIInv, AsksFit
    <3>2. /\ d \in UnitReqs /\ d.op = q.op /\ d.at = q.at /\ d.id = q.id /\ d.parent = q.parent
          /\ d.name = q.name /\ d.under = q.under /\ d.stale
      BY <2>2, <3>1 DEF UnitReqs
    <3>3. CASE q = NoUnitReq
      BY <1>1, <2>2, <3>3, OrgAssumption DEF Unaware, Returned, NoUnitReq, UnitReqs, AskFits, AskShape
    <3>4. CASE q # NoUnitReq
      <4>1. AskShape(d)
        BY <3>1, <3>2, <3>4 DEF AskFits, AskShape
      <4>2. /\ q.id \in Units => unit'[q.id] # NoUnit
            /\ q.parent \in Units /\ q.at # "parent" => unit'[q.parent] # NoUnit
        BY <1>2, <3>1 DEF AskFits, HasRow
      <4>3. AskShape(unitReq[k])'
        BY <4>1 DEF AskShape
      <4>4. /\ d.id \in Units => unit'[d.id] # NoUnit
            /\ d.parent \in Units /\ d.at # "parent" => unit'[d.parent] # NoUnit
        BY <3>2, <4>2
      <4> QED BY <3>2, <4>3, <4>4 DEF AskFits, HasRow
    <3> QED BY <3>3, <3>4
  <2>3. unitReq'[k] = NoUnitReq \/ unitReq'[k] = [unitReq[k] EXCEPT !.stale = TRUE]
    BY <1>0, <1>1 DEF Unaware, Returned
  <2> QED BY <2>1, <2>2, <2>3
<1>6. AsksFit'
  BY <1>5 DEF AsksFit
<1>7. TreeTypeOK'
  <2>1. unitReq' \in [OrgReqs -> UnitReqs]
    BY <1>1, <1>5 DEF Unaware
  <2> QED BY <1>1, <2>1 DEF TreeIInv, TreeTypeOK, tagVars
<1> QED BY <1>3, <1>4, <1>6, <1>7 DEF TreeIInv

LEMMA UnitAsksOK ==
  ASSUME TreeIInv, NEW h \in OrgReqs, AskCreate(h) \/ AskUpdate(h) \/ AskDelete(h)
  PROVE  TreeIInv'
<1>0. UNCHANGED <<unit, looped, raced, tagVars>>
  BY DEF AskCreate, AskUpdate, AskDelete
<1>1. \A n \in LiveUnits : n \in Units /\ HasRow(n) /\ n # Top /\ n # Same
  BY UnitRowsThere, OrgAssumption DEF TreeIInv, LiveUnits
<1>2. ASSUME NEW parent \in LiveUnits \union {Top}, NEW name \in Names,
             unitReq' = [unitReq EXCEPT ![h] =
                           [op |-> "create", at |-> "names", id |-> Top, parent |-> parent,
                            name |-> name, under |-> parent, stale |-> FALSE]]
      PROVE  TreeIInv'
  <2> DEFINE d == [op |-> "create", at |-> "names", id |-> Top, parent |-> parent,
                   name |-> name, under |-> parent, stale |-> FALSE]
  <2>1. d \in UnitReqs
    BY <1>1 DEF UnitReqs
  <2>2. AskShape(d)
    BY <1>1, OrgAssumption DEF AskShape
  <2>3. AskFits(d)
    BY <1>1, <2>2, OrgAssumption DEF AskFits
  <2> HIDE DEF d
  <2> QED BY <1>0, <1>2, <2>1, <2>3, UnitAskGoes DEF d
<1>3. ASSUME NEW n \in LiveUnits, NEW parent \in Units \union {Top, Same},
             NEW name \in Names \union {Same},
             unitReq' = [unitReq EXCEPT ![h] =
                           [op |-> "update", id |-> n, parent |-> parent, name |-> name,
                            at |-> IF parent \in Units THEN "parent"
                                   ELSE IF name = Same THEN "write" ELSE "current",
                            under |-> Same, stale |-> FALSE]]
      PROVE  TreeIInv'
  <2> DEFINE at == IF parent \in Units THEN "parent"
                   ELSE IF name = Same THEN "write" ELSE "current"
             d == [op |-> "update", id |-> n, parent |-> parent, name |-> name,
                   at |-> at, under |-> Same, stale |-> FALSE]
  <2>0. /\ at \in {"parent", "write", "current"}
        /\ at = "parent" <=> parent \in Units
        /\ at = "current" => name # Same
        /\ at = "write" => name = Same
    OBVIOUS
  <2>1. unitReq' = [unitReq EXCEPT ![h] = d]
    BY <1>3
  <2> HIDE DEF at
  <2>2. d \in UnitReqs
    BY <1>1, <2>0 DEF UnitReqs
  <2>3. AskShape(d)
    BY <1>1, <2>0 DEF AskShape
  <2>4. AskFits(d)
    BY <1>1, <2>0, <2>3 DEF AskFits
  <2> HIDE DEF d
  <2> QED BY <1>0, <2>1, <2>2, <2>4, UnitAskGoes
<1>4. CASE AskDelete(h)
  <2>1. PICK n \in Units :
          unitReq' = IF n \notin LiveUnits THEN unitReq
                     ELSE [unitReq EXCEPT ![h] = [NoUnitReq EXCEPT !.op = "delete",
                                                                   !.at = "write", !.id = n]]
    BY <1>4 DEF AskDelete
  <2> DEFINE d == [NoUnitReq EXCEPT !.op = "delete", !.at = "write", !.id = n]
  <2>2. CASE n \notin LiveUnits
    <3>1. /\ unitReq' = [unitReq EXCEPT ![h] = unitReq[h]]
          /\ unitReq[h] \in UnitReqs /\ AskFits(unitReq[h])
      BY <2>1, <2>2 DEF TreeIInv, TreeTypeOK, AsksFit
    <3> QED BY <1>0, <3>1, UnitAskGoes
  <2>3. CASE n \in LiveUnits
    <3>1. unitReq' = [unitReq EXCEPT ![h] = d]
      BY <2>1, <2>3
    <3>2. d \in UnitReqs
      BY <2>1 DEF NoUnitReq, UnitReqs
    <3>3. /\ d.op = "delete" /\ d.at = "write" /\ d.id = n /\ d.under = Same
          /\ d.parent = Same
      BY DEF NoUnitReq
    <3> HIDE DEF d
    <3>4. AskFits(d)
      BY <1>1, <2>1, <2>3, <3>3, OrgAssumption DEF AskFits, AskShape
    <3> QED BY <1>0, <3>1, <3>2, <3>4, UnitAskGoes
  <2> QED BY <2>2, <2>3
<1> QED BY <1>2, <1>3, <1>4 DEF AskCreate, AskUpdate

LEMMA ReturnsOK ==
  ASSUME TreeIInv, NEW h \in OrgReqs, unitReq' = Returned(h),
         UNCHANGED <<unit, looped, raced, tagVars>>
  PROVE  TreeIInv'
BY UnitAskGoes, NoUnitReqFits DEF Returned

LEMMA UnitLooksOK ==
  ASSUME TreeIInv, NEW h \in OrgReqs, AssertParent(h) \/ ReadCurrent(h) \/ FindName(h)
  PROVE  TreeIInv'
<1> DEFINE q == unitReq[h]
<1>0. /\ UNCHANGED <<unit, looped, raced, tagVars>> /\ q \in UnitReqs /\ AskFits(q)
      /\ unitReq \in [OrgReqs -> UnitReqs]
  BY DEF AssertParent, ReadCurrent, FindName, TreeIInv, TreeTypeOK, AsksFit
<1>1. CASE unitReq' = Returned(h)
  BY <1>0, <1>1, ReturnsOK
<1>2. CASE AssertParent(h) /\ unitReq' # Returned(h)
  <2> DEFINE at == IF q.name = Same THEN "write" ELSE "current"
             d == [q EXCEPT !.at = at]
  <2>1. /\ q.op = "update" /\ q.at = "parent" /\ q.parent \in LiveUnits
        /\ unitReq' = [unitReq EXCEPT ![h] = d]
    BY <1>0, <1>2 DEF AssertParent, OnUnit
  <2>2. /\ at \in {"write", "current"}
        /\ at = "write" <=> q.name = Same
    OBVIOUS
  <2> HIDE DEF at
  <2>3. /\ d \in UnitReqs /\ d.op = "update" /\ d.at = at /\ d.id = q.id /\ d.parent = q.parent
        /\ d.name = q.name /\ d.under = q.under /\ d.stale = q.stale
    BY <1>0, <2>1, <2>2 DEF UnitReqs
  <2> HIDE DEF d
  <2>4. q.id \in Units /\ HasRow(q.id) /\ q.under = Same /\ HasRow(q.parent)
    BY <1>0, <2>1, UnitRowsThere DEF AskFits, AskShape, TreeIInv, LiveUnits, NoUnitReq
  <2>5. AskFits(d)
    BY <2>2, <2>3, <2>4 DEF AskFits, AskShape
  <2> QED BY <1>0, <2>1, <2>3, <2>5, UnitAskGoes
<1>3. CASE ReadCurrent(h)
  <2> DEFINE under == IF q.parent \in Units THEN q.parent ELSE unit[q.id].parent
             d == [q EXCEPT !.at = "names", !.under = under]
  <2>1. /\ q.op = "update" /\ q.at = "current" /\ unitReq' = [unitReq EXCEPT ![h] = d]
    BY <1>0, <1>3 DEF ReadCurrent, OnUnit
  <2>2. q.id \in Units /\ HasRow(q.id) /\ q.name # Same
    BY <1>0, <2>1 DEF AskFits, AskShape, NoUnitReq
  <2>3. under \in Units \union {Top} /\ under # Same
    BY <2>2, UnitRowsThere, OrgAssumption DEF TreeIInv, UnitRows
  <2> HIDE DEF under
  <2>4. /\ d \in UnitReqs /\ d.op = "update" /\ d.at = "names" /\ d.id = q.id /\ d.parent = q.parent
        /\ d.name = q.name /\ d.under = under /\ d.stale = q.stale
    BY <1>0, <2>1, <2>3 DEF UnitReqs
  <2> HIDE DEF d
  <2>5. AskFits(d)
    BY <1>0, <2>1, <2>2, <2>3, <2>4 DEF AskFits, AskShape
  <2> QED BY <1>0, <2>1, <2>4, <2>5, UnitAskGoes
<1>4. CASE FindName(h) /\ unitReq' # Returned(h)
  <2> DEFINE d == [q EXCEPT !.at = "write", !.stale = FALSE]
  <2>1. /\ q.at = "names" /\ ~NameTaken(q) /\ unitReq' = [unitReq EXCEPT ![h] = d]
    BY <1>0, <1>4 DEF FindName
  <2>2. /\ d \in UnitReqs /\ d.op = q.op /\ d.at = "write" /\ d.id = q.id /\ d.parent = q.parent
        /\ d.name = q.name /\ d.under = q.under /\ d.stale = FALSE
    BY <1>0, <2>1 DEF UnitReqs
  <2> HIDE DEF d
  <2>3. ~NameTaken(d)
    BY <2>1, <2>2 DEF NameTaken
  <2>4. AskShape(d)
    BY <1>0, <2>1, <2>2 DEF AskFits, AskShape, NoUnitReq
  <2>5. AskFits(d)
    BY <1>0, <2>1, <2>2, <2>3, <2>4 DEF AskFits
  <2> QED BY <1>0, <2>1, <2>2, <2>5, UnitAskGoes
<1> QED BY <1>1, <1>2, <1>3, <1>4

(* A new unit: nothing hangs under it yet.                                 *)
LEMMA CreateUnitOK ==
  ASSUME TreeIInv, NEW h \in OrgReqs, CreateOrgUnit(h)
  PROVE  TreeIInv'
<1> DEFINE q == unitReq[h]
           row == [parent |-> q.parent, name |-> q.name, live |-> TRUE]
<1>0. /\ UNCHANGED <<looped, tagVars>> /\ q \in UnitReqs /\ AskFits(q)
      /\ q.op = "create" /\ q.at = "write"
  BY DEF CreateOrgUnit, OnUnit, TreeIInv, TreeTypeOK, AsksFit
<1>1. /\ q.id = Top /\ q.under = q.parent /\ q.parent \in Units \union {Top} /\ q.name \in Names
      /\ q.parent \in Units => HasRow(q.parent)
      /\ ~q.stale => ~NameTaken(q)
  BY <1>0, OrgAssumption DEF AskFits, AskShape, NoUnitReq, UnitReqs
<1>2. row \in UnitRows /\ row.parent = q.parent /\ row.name = q.name /\ row.live
  BY <1>1 DEF UnitRows
<1>3. CASE unitReq' = Returned(h) /\ UNCHANGED <<unit, raced>>
  BY <1>0, <1>3, ReturnsOK
<1>4. ASSUME KeyFree(Top, row), NEW n \in Units, ~HasRow(n), Store(h, n, row),
             raced' = (raced \/ q.stale)
      PROVE  TreeIInv'
  <2> HIDE DEF row
  <2>1. KeyFree(n, row)
    BY <1>4, OrgAssumption DEF KeyFree
  <2>2. ~raced' /\ row.parent = Top =>
          \A m \in LiveUnits \ {n} : ~(unit[m].parent = Top /\ unit[m].name = row.name)
    BY <1>1, <1>2, <1>4, OrgAssumption DEF NameTaken, LiveUnits
  <2>3. ASSUME ~looped' PROVE Grounded'
    <3> SUFFICES ASSUME NEW X \in SUBSET LiveUnits', X # {},
                        \A m \in X : unit'[m].parent \in X
                 PROVE  FALSE
      BY DEF Grounded
    <3>1. /\ unit' = [unit EXCEPT ![n] = row] /\ X \in SUBSET Units
          /\ unit \in [Units -> UnitRows \union {NoUnit}]
      BY <1>4 DEF Store, LiveUnits, TreeIInv, TreeTypeOK
    <3>2. unit'[n] = row /\ \A m \in Units \ {n} : unit'[m] = unit[m]
      BY <3>1
    <3> DEFINE Y == X \ {n}
    <3>3. Y \in SUBSET LiveUnits
      BY <3>1, <3>2 DEF LiveUnits
    <3>4. ASSUME NEW m \in Y PROVE unit[m].parent \in Y
      <4>1. unit[m].parent \in X
        BY <3>1, <3>2
      <4>2. HasRow(unit[m].parent)
        BY <3>1, <4>1 DEF TreeIInv, RowsOK
      <4> QED BY <1>4, <4>1, <4>2
    <3>5. Y # {}
      <4>1. CASE n \in X
        <5>1. row.parent \in X
          BY <3>2, <4>1
        <5>2. row.parent # n
          BY <1>1, <1>2, <1>4
        <5> QED BY <5>1, <5>2
      <4> QED BY <4>1
    <3> QED BY <1>0, <2>3, <3>3, <3>4, <3>5 DEF TreeIInv, Grounded
  <2> QED BY <1>0, <1>1, <1>2, <1>4, <2>1, <2>2, <2>3, StoreOK DEF TreeIInv, TreeTypeOK, UnitReqs
<1> QED BY <1>3, <1>4 DEF CreateOrgUnit

(* A unit moves, its subtree with it: a loop would have to pass through it *)
(* and be below it, unless some units went around already.                 *)
LEMMA UpdateUnitOK ==
  ASSUME TreeIInv, NEW h \in OrgReqs, UpdateOrgUnit(h)
  PROVE  TreeIInv'
<1> DEFINE q == unitReq[h]
           n == q.id
           parent == Given(q.parent, unit[n].parent)
           name == Given(q.name, unit[n].name)
           row == [parent |-> parent, name |-> name, live |-> unit[n].live]
<1>0. /\ UNCHANGED tagVars /\ q \in UnitReqs /\ AskFits(q)
      /\ q.op = "update" /\ q.at = "write" /\ looped \in BOOLEAN /\ raced \in BOOLEAN
  BY DEF UpdateOrgUnit, OnUnit, TreeIInv, TreeTypeOK, AsksFit
<1>1. /\ n \in Units /\ HasRow(n) /\ (q.under = Same <=> q.name = Same)
      /\ q.parent \in Units => HasRow(q.parent)
      /\ q.under # Same /\ ~q.stale => ~NameTaken(q)
      /\ q.parent \in Units \union {Top, Same} /\ q.name \in Names \union {Same}
  BY <1>0 DEF AskFits, AskShape, NoUnitReq, UnitReqs
<1>2. unit[n] \in UnitRows
  BY <1>1, UnitRowsThere DEF TreeIInv
<1>3. /\ parent \in Units \union {Top} /\ name \in Names
      /\ parent \in Units => HasRow(parent)
      /\ q.name # Same => name = q.name
  BY <1>1, <1>2, OrgAssumption DEF Given, UnitRows, TreeIInv, RowsOK
<1>4. CASE unitReq' = Returned(h) /\ UNCHANGED <<unit, raced, looped>>
  BY <1>0, <1>4, ReturnsOK
<1>5. ASSUME KeyFree(n, row), Store(h, n, row),
             raced' = (raced \/ (row # unit[n] /\ (q.stale \/ row.parent # q.under))),
             looped' = (looped \/ row.parent \in Below({n}))
      PROVE  TreeIInv'
  <2> HIDE DEF parent, name
  <2>1. row \in UnitRows /\ row.parent = parent /\ row.name = name /\ row.live = unit[n].live
    BY <1>2, <1>3 DEF UnitRows
  <2> HIDE DEF row
  <2>2. ASSUME ~raced', row.live, row.parent = Top, NEW m \in LiveUnits \ {n},
               unit[m].parent = Top, unit[m].name = row.name
        PROVE  FALSE
    <3>1. CASE row = unit[n]
      <4>1. n \in LiveUnits
        BY <1>1, <2>2, <3>1 DEF LiveUnits
      <4> QED BY <1>5, <2>2, <3>1, <4>1 DEF TreeIInv, TopNamesOK
    <3>2. CASE row # unit[n]
      <4>1. ~q.stale /\ q.under = Top /\ q.under # Same
        BY <1>5, <2>2, <3>2, OrgAssumption
      <4>2. ~NameTaken(q) /\ row.name = q.name
        BY <1>1, <1>3, <2>1, <4>1
      <4> QED BY <2>2, <4>1, <4>2 DEF NameTaken
    <3> QED BY <3>1, <3>2
  <2>3. ASSUME ~looped' PROVE Grounded'
    <3> SUFFICES ASSUME NEW X \in SUBSET LiveUnits', X # {},
                        \A m \in X : unit'[m].parent \in X
                 PROVE  FALSE
      BY DEF Grounded
    <3> DEFINE B == Below({n})
               Y == X \ B
    <3>1. /\ unit' = [unit EXCEPT ![n] = row] /\ X \in SUBSET Units
          /\ unit \in [Units -> UnitRows \union {NoUnit}]
      BY <1>5 DEF Store, LiveUnits, TreeIInv, TreeTypeOK
    <3>2. unit'[n] = row /\ \A m \in Units \ {n} : unit'[m] = unit[m]
      BY <1>1, <3>1
    <3>3. X \in SUBSET LiveUnits
      BY <2>1, <3>1, <3>2 DEF LiveUnits
    <3>4. n \in B /\ Children(B) \subseteq B
      BY <1>1, BelowClosed
    <3>5. ~looped /\ row.parent \notin B /\ Grounded
      BY <1>5, <2>3 DEF TreeIInv
    <3> HIDE DEF B
    <3>6. ASSUME NEW m \in Y PROVE unit[m].parent \in Y
      <4>1. m \in LiveUnits /\ m # n /\ m \notin B
        BY <3>3, <3>4
      <4>2. unit[m].parent \in X
        BY <3>1, <3>2, <4>1
      <4>3. unit[m].parent \notin B
        BY <3>4, <4>1 DEF Children
      <4> QED BY <4>2, <4>3
    <3>7. Y # {}
      <4>1. CASE n \in X
        BY <3>2, <3>5, <4>1
      <4>2. CASE n \notin X
        <5>1. \A m \in X : unit[m].parent \in X
          BY <3>1, <3>2, <4>2
        <5> QED BY <3>3, <3>5, <5>1 DEF Grounded
      <4> QED BY <4>1, <4>2
    <3>8. Y \in SUBSET LiveUnits
      BY <3>3
    <3> QED BY <3>5, <3>6, <3>7, <3>8 DEF Grounded
  <2> QED BY <1>0, <1>1, <1>3, <1>5, <2>1, <2>2, <2>3, StoreOK
<1> QED BY <1>4, <1>5 DEF UpdateOrgUnit

LEMMA DeleteUnitOK ==
  ASSUME TreeIInv, NEW h \in OrgReqs, DeleteOrgUnit(h)
  PROVE  TreeIInv'
<1> DEFINE q == unitReq[h]
           n == q.id
           row == [unit[n] EXCEPT !.live = FALSE]
<1>0. /\ UNCHANGED <<looped, raced, tagVars>> /\ q \in UnitReqs /\ AskFits(q)
      /\ q.op = "delete" /\ q.at = "write" /\ looped \in BOOLEAN /\ raced \in BOOLEAN
      /\ Store(h, n, row)
  BY DEF DeleteOrgUnit, OnUnit, TreeIInv, TreeTypeOK, AsksFit
<1>1. n \in Units /\ HasRow(n)
  BY <1>0 DEF AskFits, AskShape, NoUnitReq
<1>2. unit[n] \in UnitRows
  BY <1>1, UnitRowsThere DEF TreeIInv
<1>3. /\ row \in UnitRows /\ row.parent = unit[n].parent /\ row.name = unit[n].name /\ ~row.live
  BY <1>2 DEF UnitRows
<1> HIDE DEF row
<1>4. KeyFree(n, row) /\ (row.parent \in Units => HasRow(row.parent))
  BY <1>1, <1>3 DEF KeyFree, TreeIInv, RowsOK
<1>5. ASSUME ~looped' PROVE Grounded'
  <2> SUFFICES ASSUME NEW X \in SUBSET LiveUnits', X # {},
                      \A m \in X : unit'[m].parent \in X
               PROVE  FALSE
    BY DEF Grounded
  <2>1. /\ unit' = [unit EXCEPT ![n] = row] /\ X \in SUBSET Units
        /\ unit \in [Units -> UnitRows \union {NoUnit}]
    BY <1>0 DEF Store, LiveUnits, TreeIInv, TreeTypeOK
  <2>2. X \in SUBSET LiveUnits /\ n \notin X
    BY <1>1, <1>3, <2>1 DEF LiveUnits
  <2>3. \A m \in X : unit[m].parent \in X
    BY <2>1, <2>2
  <2> QED BY <1>0, <1>5, <2>2, <2>3 DEF TreeIInv, Grounded
<1> QED BY <1>0, <1>1, <1>3, <1>4, <1>5, StoreOK

LEMMA UnitStepOK == ASSUME TreeIInv, NEW h \in OrgReqs, UnitStep(h) PROVE TreeIInv'
BY UnitAsksOK, UnitLooksOK, CreateUnitOK, UpdateUnitOK, DeleteUnitOK DEF UnitStep

LEMMA TagStepOK == ASSUME TreeIInv, TagStep PROVE TreeIInv'
<1>0. /\ UNCHANGED unitVars
      /\ tag \in [Tags -> {"none", "live", "deleted"}] /\ tagged \subseteq Units \X Tags
  BY DEF TagStep, CreateTag, DeleteTag, AssignTags, RemoveTag, TreeIInv, TreeTypeOK
<1>1. tag' \in [Tags -> {"none", "live", "deleted"}] /\ tagged' \subseteq Units \X Tags
  <2>1. CASE \E t \in Tags : CreateTag(t) \/ DeleteTag(t)
    BY <1>0, <2>1 DEF CreateTag, DeleteTag
  <2>2. CASE \E n \in Units, S \in (SUBSET Tags) \ {{}} : AssignTags(n, S)
    BY <1>0, <2>2 DEF AssignTags, LiveTags
  <2>3. CASE \E n \in Units, t \in Tags : RemoveTag(n, t)
    BY <1>0, <2>3 DEF RemoveTag
  <2> QED BY <2>1, <2>2, <2>3 DEF TagStep
<1> QED BY <1>0, <1>1, UnitAskStays DEF unitVars

LEMMA TreeIdles == ASSUME TreeIInv, UNCHANGED treeVars PROVE TreeIInv'
<1>1. UNCHANGED <<unit, unitReq, looped, raced, tag, tagged>>
  BY DEF treeVars, unitVars, tagVars
<1> QED BY <1>1, UnitAskStays DEF TreeIInv, TreeTypeOK

LEMMA TreeStarts == TreeInit => TreeIInv
<1> SUFFICES ASSUME TreeInit PROVE TreeIInv
  OBVIOUS
<1>1. \A n \in Units : unit[n] = NoUnit
  BY DEF TreeInit
<1>2. LiveUnits = {} /\ RowsOK
  BY <1>1, NoUnitThere, OrgAssumption DEF LiveUnits, RowsOK, HasRow
<1>3. AsksFit /\ TreeTypeOK
  BY NoUnitReqFits DEF TreeInit, AsksFit, TreeTypeOK
<1> QED BY <1>2, <1>3 DEF TreeIInv, TopNamesOK, Grounded

(* What getOrgUnitTree shows: a set of live units that are not shown would *)
(* have one that hangs outside of it, at a root or at a unit that is.      *)
LEMMA TreeIsSound == ASSUME TreeIInv PROVE TreeSound
<1>1. SiblingNamesUnlessRaced
  <2> SUFFICES ASSUME NEW m \in LiveUnits, NEW n \in LiveUnits, m # n,
                      unit[m].parent = unit[n].parent, unit[m].name = unit[n].name
               PROVE  raced /\ unit[m].parent = Top
    BY DEF SiblingNamesUnlessRaced
  <2>1. m \in Units /\ n \in Units /\ HasRow(m) /\ HasRow(n)
    BY UnitRowsThere DEF TreeIInv, LiveUnits
  <2>2. unit[m].parent = Top
    BY <2>1 DEF TreeIInv, RowsOK
  <2> QED BY <2>2 DEF TreeIInv, TopNamesOK
<1>2. AllShownUnlessLooped
  <2> SUFFICES ASSUME ~looped PROVE TreeShown = LiveUnits
    BY DEF AllShownUnlessLooped
  <2>1. TreeRoots \in SUBSET Units /\ TreeRoots \subseteq LiveUnits
    BY DEF TreeRoots, LiveUnits
  <2>2. /\ TreeRoots \subseteq TreeShown /\ Children(TreeShown) \subseteq TreeShown
        /\ \A T : TreeRoots \subseteq T /\ Children(T) \subseteq T => TreeShown \subseteq T
    BY <2>1, BelowClosed DEF TreeShown
  <2>3. TreeShown \subseteq LiveUnits
    BY <2>1, <2>2 DEF Children
  <2> DEFINE X == LiveUnits \ TreeShown
  <2>4. ASSUME X # {} PROVE FALSE
    <3>1. PICK n \in X : unit[n].parent \notin X
      BY <2>4 DEF TreeIInv, Grounded
    <3>2. CASE unit[n].parent \in LiveUnits
      BY <2>2, <3>1, <3>2 DEF Children
    <3>3. CASE unit[n].parent \notin LiveUnits
      BY <2>2, <3>1, <3>3 DEF TreeRoots
    <3> QED BY <3>2, <3>3
  <2> QED BY <2>3, <2>4
<1> QED BY <1>1, <1>2 DEF TreeSound

(* The tree for every number of units and requests: siblings keep their    *)
(* names apart and getOrgUnitTree leaves no unit out (org-units.service).  *)
THEOREM TreeStaysSound == TreeSpec => []TreeSound
<1>1. TreeInit => TreeIInv
  BY TreeStarts
<1>2. TreeIInv /\ [TreeNext]_treeVars => TreeIInv'
  BY UnitStepOK, TagStepOK, TreeIdles DEF TreeNext
<1>3. TreeIInv => TreeSound
  BY TreeIsSound
<1> QED BY <1>1, <1>2, <1>3, PTL DEF TreeSpec

------------------------------------------------------------------------------
(* Who serves where *)

LEMMA PostsOK ==
  ASSUME StaffTypeOK, PostStep
  PROVE  StaffTypeOK'
<1>0. post \in [Posts -> PostRows \union {NoPost}] /\ UNCHANGED <<member, postRole>>
  BY DEF StaffTypeOK, PostStep, CreatePosition, UpdatePosition, DeletePosition
<1>1. ASSUME NEW p \in Posts, post[p].live
      PROVE  post[p] \in PostRows
  BY <1>0, <1>1 DEF NoPost
<1>2. ASSUME NEW p \in Posts, NEW title \in Titles, post[p].title = title
      PROVE  post[p] \in PostRows
  BY <1>0, <1>2, StaffingAssumption DEF NoPost
<1>3. ASSUME NEW p \in Posts, NEW row \in PostRows, post' = [post EXCEPT ![p] = row]
      PROVE  StaffTypeOK'
  BY <1>0, <1>3 DEF StaffTypeOK
<1>4. ASSUME NEW title \in Titles, CreatePosition(title)
      PROVE  StaffTypeOK'
  <2>1. ASSUME NEW p \in Titled(title) \ LivePosts, post' = [post EXCEPT ![p].live = TRUE]
        PROVE  StaffTypeOK'
    <3>1. p \in Posts /\ post[p] \in PostRows
      BY <1>2 DEF Titled
    <3>2. [post[p] EXCEPT !.live = TRUE] \in PostRows
      BY <3>1 DEF PostRows
    <3> QED BY <1>0, <1>3, <2>1, <3>1, <3>2
  <2>2. ASSUME NEW p \in Posts, post' = [post EXCEPT ![p] = [title |-> title, live |-> TRUE]]
        PROVE  StaffTypeOK'
    <3>1. [title |-> title, live |-> TRUE] \in PostRows
      BY DEF PostRows
    <3> QED BY <1>3, <2>2, <3>1
  <2> QED BY <1>4, <2>1, <2>2 DEF CreatePosition
<1>5. ASSUME NEW p \in Posts, NEW title \in Titles, UpdatePosition(p, title)
      PROVE  StaffTypeOK'
  <2>1. post[p] \in PostRows
    BY <1>1, <1>5 DEF UpdatePosition, LivePosts
  <2>2. [post[p] EXCEPT !.title = title] \in PostRows
    BY <2>1 DEF PostRows
  <2> QED BY <1>0, <1>3, <1>5, <2>2 DEF UpdatePosition
<1>6. ASSUME NEW p \in Posts, DeletePosition(p)
      PROVE  StaffTypeOK'
  <2>1. post[p] \in PostRows
    BY <1>1, <1>6 DEF DeletePosition, LivePosts
  <2>2. [post[p] EXCEPT !.live = FALSE] \in PostRows
    BY <2>1 DEF PostRows
  <2> QED BY <1>0, <1>3, <1>6, <2>2 DEF DeletePosition
<1> QED BY <1>4, <1>5, <1>6 DEF PostStep

LEMMA MembersOK ==
  ASSUME StaffTypeOK, MemberStep
  PROVE  StaffTypeOK'
<1>0. member \subseteq Users \X Units \X Posts
  BY DEF StaffTypeOK
<1>1. ASSUME NEW u \in Users, NEW n \in Units, NEW p \in Posts, NEW to \in Posts,
             \/ AddMember(u, n, p) \/ RemoveMember(u, n, p)
             \/ ChangeMemberPosition(u, n, p, to)
      PROVE  member' \subseteq Users \X Units \X Posts /\ UNCHANGED <<post, postRole>>
  <2>1. <<u, n, p>> \in Users \X Units \X Posts /\ <<u, n, to>> \in Users \X Units \X Posts
    OBVIOUS
  <2>2. UNCHANGED <<post, postRole>> /\ member' \subseteq member \union {<<u, n, p>>, <<u, n, to>>}
    BY <1>1 DEF AddMember, RemoveMember, ChangeMemberPosition
  <2> QED BY <1>0, <2>1, <2>2
<1>2. member' \subseteq Users \X Units \X Posts /\ UNCHANGED <<post, postRole>>
  BY <1>1 DEF MemberStep
<1> QED BY <1>2 DEF StaffTypeOK

------------------------------------------------------------------------------
(* Groups *)

(* The least set with the units of U that children do not lead out of.     *)
Reached(U) ==
  {n \in Units : \A T \in SUBSET Units : U \subseteq T /\ Children(T) \subseteq T => n \in T}

Taken(q) == IF q.deep THEN Reached(q.units) ELSE q.units

CarryTag(q) == {n \in LiveUnits : \E t \in TagsMeant(q) : <<n, t>> \in tagged}

(* What a resolution has found by each statement, as long as no row that   *)
(* it reads changes: the walk leaves no child of a unit behind but those   *)
(* of its last level, and finds none that is not reached.                  *)
Resolving(q) ==
  /\ q.at \in {"expand", "walk"} =>
       /\ q.deep /\ q.todo \subseteq q.units /\ q.units \ q.todo \subseteq q.found
       /\ q.found \subseteq Reached(q.units)
  /\ q.at = "expand" => Children(q.found) \subseteq q.found
  /\ q.at = "walk" => q.level \subseteq q.found /\ Children(q.found \ q.level) \subseteq q.found
  /\ q.at = "members" => q.found = Taken(q)
  /\ q.at \in {"tags", "tagMembers"} => q.users = MembersOf(Taken(q) \intersect LiveUnits)
  /\ q.at = "tagMembers" => q.found = CarryTag(q)
  /\ q.at = "answer" =>
       q.users = MembersOf(Taken(q) \intersect LiveUnits) \union MembersOf(CarryTag(q))

GroupsOK ==
  \A h \in OrgReqs : /\ groupReq[h].op = "none" => groupReq[h].at = "idle"
                     /\ ~groupReq[h].stale => Resolving(groupReq[h])

GroupIInv == StaffTypeOK /\ GroupTypeOK /\ GroupsOK

OrgIInv == TreeIInv /\ GroupIInv

LEMMA ReachedClosed ==
  ASSUME NEW U \in SUBSET Units
  PROVE  /\ U \subseteq Reached(U) /\ Reached(U) \subseteq Units
         /\ Children(Reached(U)) \subseteq Reached(U)
         /\ \A T \in SUBSET Units : U \subseteq T /\ Children(T) \subseteq T => Reached(U) \subseteq T
<1>1. U \subseteq Reached(U) /\ Reached(U) \subseteq Units
  BY DEF Reached
<1>2. \A T \in SUBSET Units : U \subseteq T /\ Children(T) \subseteq T => Reached(U) \subseteq T
  BY DEF Reached
<1>3. ASSUME NEW n \in Children(Reached(U)) PROVE n \in Reached(U)
  <2>1. n \in Units
    BY DEF Children, LiveUnits
  <2>2. ASSUME NEW T \in SUBSET Units, U \subseteq T, Children(T) \subseteq T PROVE n \in T
    <3>1. n \in Children(T)
      BY <1>2, <2>2 DEF Children
    <3> QED BY <2>2, <3>1
  <2> QED BY <2>1, <2>2 DEF Reached
<1> QED BY <1>1, <1>2, <1>3

(* The rows a resolution reads, and that nothing else matters to it.       *)
LEMMA ResolvingReads ==
  ASSUME NEW q, UNCHANGED <<unit, tag, tagged, member>>
  PROVE  Resolving(q)' <=> Resolving(q)
<1>1. LiveUnits' = LiveUnits /\ LiveTags' = LiveTags
  BY DEF LiveUnits, LiveTags
<1>2. \A S : Children(S)' = Children(S)
  BY <1>1 DEF Children
<1>3. \A S : MembersOf(S)' = MembersOf(S)
  BY DEF MembersOf
<1>4. Reached(q.units)' = Reached(q.units)
  BY <1>2 DEF Reached
<1>5. Taken(q)' = Taken(q) /\ CarryTag(q)' = CarryTag(q)
  BY <1>1, <1>4 DEF Taken, CarryTag, TagsMeant
<1> QED BY <1>1, <1>2, <1>3, <1>4, <1>5 DEF Resolving

LEMMA GroupAskGoes ==
  ASSUME GroupTypeOK, GroupsOK, NEW h \in OrgReqs, NEW d \in GroupReqs,
         d.op = "none" => d.at = "idle", ~d.stale => Resolving(d),
         groupReq' = [groupReq EXCEPT ![h] = d], UnchangedOrg
  PROVE  GroupTypeOK' /\ GroupsOK'
<1>1. groupReq \in [OrgReqs -> GroupReqs] /\ UNCHANGED <<unit, tag, tagged, member>>
  BY DEF GroupTypeOK, UnchangedOrg, treeVars, unitVars, tagVars, staffVars
<1>2. ASSUME NEW k \in OrgReqs, NEW e, e = groupReq'[k], ~e.stale
      PROVE  Resolving(e)'
  <2>1. Resolving(e)
    BY <1>1, <1>2 DEF GroupsOK
  <2> QED BY <1>1, <2>1, ResolvingReads
<1>3. ASSUME NEW k \in OrgReqs, groupReq'[k].op = "none" PROVE groupReq'[k].at = "idle"
  BY <1>1, <1>3 DEF GroupsOK
<1>4. GroupsOK'
  BY <1>2, <1>3 DEF GroupsOK
<1> QED BY <1>1, <1>4 DEF GroupTypeOK

LEMMA AskGroupOK ==
  ASSUME GroupIInv, NEW h \in OrgReqs, AskGroup(h)
  PROVE  GroupTypeOK' /\ GroupsOK'
<1>1. PICK op \in {"invite", "preview"}, U \in SUBSET Units, T \in SUBSET Tags, deep \in BOOLEAN :
        /\ U \union T # {} /\ (op = "preview" => Cardinality(U) <= 1)
        /\ groupReq' = [groupReq EXCEPT ![h] =
                         [NoGroupReq EXCEPT
                            !.op = op, !.units = U, !.deep = deep, !.tags = T,
                            !.at = IF U = {} THEN "tags" ELSE IF deep THEN "expand" ELSE "members",
                            !.todo = IF deep THEN U ELSE {}, !.found = IF deep THEN {} ELSE U]]
  BY Zenon DEF AskGroup
<1> DEFINE at == IF U = {} THEN "tags" ELSE IF deep THEN "expand" ELSE "members"
           todo == IF deep THEN U ELSE {}
           found == IF deep THEN {} ELSE U
           d == [NoGroupReq EXCEPT !.op = op, !.units = U, !.deep = deep, !.tags = T,
                                   !.at = at, !.todo = todo, !.found = found]
<1>2. groupReq' = [groupReq EXCEPT ![h] = d] /\ UnchangedOrg
  BY <1>1 DEF AskGroup
<1>3. /\ at \in {"tags", "expand", "members"}
      /\ at = "tags" <=> U = {}
      /\ at = "expand" => deep /\ todo = U /\ found = {}
      /\ at = "members" => ~deep /\ found = U
      /\ todo \in SUBSET Units /\ found \in SUBSET Units
  OBVIOUS
<1> HIDE DEF at, todo, found
<1>4. /\ d.op = op /\ d.at = at /\ d.units = U /\ d.deep = deep /\ d.tags = T /\ d.todo = todo
      /\ d.level = {} /\ d.found = found /\ d.users = {} /\ ~d.stale
      /\ d \in GroupReqs
  BY <1>3 DEF NoGroupReq, GroupReqs
<1> HIDE DEF d
<1>5. CASE at = "expand"
  <2>1. Children({}) = {}
    BY DEF Children
  <2>2. Resolving(d)
    BY <1>3, <1>4, <1>5, <2>1 DEF Resolving
  <2> QED BY <1>2, <1>4, <2>2, GroupAskGoes DEF GroupIInv
<1>6. CASE at = "members"
  <2>1. Resolving(d)
    BY <1>3, <1>4, <1>6 DEF Resolving, Taken
  <2> QED BY <1>2, <1>4, <2>1, GroupAskGoes DEF GroupIInv
<1>7. CASE at = "tags"
  <2>1. Children({}) = {}
    BY DEF Children
  <2>2. Reached({}) = {}
    BY <2>1 DEF Reached
  <2>3. MembersOf(Taken(d) \intersect LiveUnits) = {}
    BY <1>3, <1>4, <1>7, <2>2 DEF Taken, MembersOf
  <2>4. Resolving(d)
    BY <1>3, <1>4, <1>7, <2>3 DEF Resolving
  <2> QED BY <1>2, <1>4, <2>4, GroupAskGoes DEF GroupIInv
<1> QED BY <1>3, <1>5, <1>6, <1>7

LEMMA WalkOK ==
  ASSUME GroupIInv, NEW h \in OrgReqs, ExpandUnit(h) \/ WalkLevel(h)
  PROVE  GroupTypeOK' /\ GroupsOK'
<1> DEFINE q == groupReq[h]
<1>0. /\ groupReq \in [OrgReqs -> GroupReqs] /\ q \in GroupReqs /\ UnchangedOrg
      /\ q.op = "none" => q.at = "idle"
      /\ ~q.stale => Resolving(q)
  BY DEF GroupIInv, GroupTypeOK, GroupsOK, ExpandUnit, WalkLevel
<1>1. CASE ExpandUnit(h) /\ q.todo = {}
  <2> DEFINE d == [q EXCEPT !.at = "members"]
  <2>1. q.at = "expand" /\ groupReq' = [groupReq EXCEPT ![h] = d]
    BY <1>0, <1>1 DEF ExpandUnit
  <2>2. /\ d \in GroupReqs /\ d.at = "members" /\ d.op = q.op /\ d.units = q.units /\ d.deep = q.deep
        /\ d.found = q.found /\ d.stale = q.stale
    BY <1>0, <2>1 DEF GroupReqs
  <2> HIDE DEF d
  <2>3. ASSUME ~d.stale PROVE Resolving(d)
    <3>1. /\ q.deep /\ q.units \subseteq q.found /\ q.found \subseteq Reached(q.units)
          /\ Children(q.found) \subseteq q.found
      BY <1>0, <1>1, <2>1, <2>2, <2>3 DEF Resolving
    <3>2. q.units \in SUBSET Units /\ q.found \in SUBSET Units
      BY <1>0 DEF GroupReqs
    <3>3. q.found = Reached(q.units)
      BY <3>1, <3>2, ReachedClosed
    <3> QED BY <2>2, <3>1, <3>3 DEF Resolving, Taken
  <2> QED BY <1>0, <2>1, <2>2, <2>3, GroupAskGoes DEF GroupIInv
<1>2. ASSUME NEW n \in q.todo, q.at = "expand",
             groupReq' = [groupReq EXCEPT ![h].at = "walk", ![h].todo = q.todo \ {n},
                                          ![h].level = {n}, ![h].found = q.found \union {n}]
      PROVE  GroupTypeOK' /\ GroupsOK'
  <2> DEFINE d == [q EXCEPT !.at = "walk", !.todo = q.todo \ {n}, !.level = {n},
                            !.found = q.found \union {n}]
  <2>1. groupReq' = [groupReq EXCEPT ![h] = d]
    BY <1>0, <1>2
  <2>2. n \in Units
    BY <1>0 DEF GroupReqs
  <2>3. /\ d \in GroupReqs /\ d.at = "walk" /\ d.op = q.op /\ d.units = q.units /\ d.deep = q.deep
        /\ d.todo = q.todo \ {n} /\ d.level = {n} /\ d.found = q.found \union {n}
        /\ d.stale = q.stale
    BY <1>0, <2>2 DEF GroupReqs
  <2> HIDE DEF d
  <2>4. ASSUME ~d.stale PROVE Resolving(d)
    <3>1. /\ q.deep /\ q.todo \subseteq q.units /\ q.units \ q.todo \subseteq q.found
          /\ q.found \subseteq Reached(q.units) /\ Children(q.found) \subseteq q.found
      BY <1>0, <1>2, <2>3, <2>4 DEF Resolving
    <3>2. n \in Reached(q.units)
      BY <1>0, <3>1, ReachedClosed DEF GroupReqs
    <3>3. Children((q.found \union {n}) \ {n}) \subseteq q.found
      BY <3>1 DEF Children
    <3> QED BY <2>3, <3>1, <3>2, <3>3 DEF Resolving
  <2> QED BY <1>0, <1>2, <2>1, <2>3, <2>4, GroupAskGoes DEF GroupIInv
<1>3. CASE WalkLevel(h) /\ q.level = {}
  <2> DEFINE d == [q EXCEPT !.at = "expand"]
  <2>1. q.at = "walk" /\ groupReq' = [groupReq EXCEPT ![h] = d]
    BY <1>0, <1>3 DEF WalkLevel
  <2>2. /\ d \in GroupReqs /\ d.at = "expand" /\ d.op = q.op /\ d.units = q.units /\ d.deep = q.deep
        /\ d.todo = q.todo /\ d.found = q.found /\ d.stale = q.stale
    BY <1>0, <2>1 DEF GroupReqs
  <2> HIDE DEF d
  <2>3. q.found \ {} = q.found
    OBVIOUS
  <2>4. ~d.stale => Resolving(d)
    BY <1>0, <1>3, <2>1, <2>2, <2>3 DEF Resolving
  <2> QED BY <1>0, <2>1, <2>2, <2>4, GroupAskGoes DEF GroupIInv
<1>4. CASE WalkLevel(h) /\ q.level # {}
  <2> DEFINE next == Children(q.level)
             d == [q EXCEPT !.level = next, !.found = q.found \union next]
  <2>1. q.at = "walk" /\ groupReq' = [groupReq EXCEPT ![h] = d]
    BY <1>0, <1>4 DEF WalkLevel
  <2>2. next \in SUBSET Units
    BY DEF Children, LiveUnits
  <2> HIDE DEF next
  <2>3. /\ d \in GroupReqs /\ d.at = q.at /\ d.op = q.op /\ d.units = q.units /\ d.deep = q.deep
        /\ d.todo = q.todo /\ d.level = next /\ d.found = q.found \union next
        /\ d.stale = q.stale
    BY <1>0, <2>1, <2>2 DEF GroupReqs
  <2> HIDE DEF d
  <2>4. ASSUME ~d.stale PROVE Resolving(d)
    <3>1. /\ q.deep /\ q.todo \subseteq q.units /\ q.units \ q.todo \subseteq q.found
          /\ q.found \subseteq Reached(q.units) /\ q.level \subseteq q.found
          /\ Children(q.found \ q.level) \subseteq q.found
      BY <1>0, <2>1, <2>3, <2>4 DEF Resolving
    <3>2. next \subseteq Reached(q.units)
      <4>1. Children(Reached(q.units)) \subseteq Reached(q.units)
        BY <1>0, ReachedClosed DEF GroupReqs
      <4> QED BY <3>1, <4>1 DEF Children, next
    <3>3. Children(q.found) \subseteq q.found \union next
      BY <3>1 DEF Children, next
    <3>4. Children((q.found \union next) \ next) \subseteq q.found \union next
      BY <3>3 DEF Children
    <3> QED BY <2>1, <2>3, <3>1, <3>2, <3>4 DEF Resolving
  <2> QED BY <1>0, <2>1, <2>3, <2>4, GroupAskGoes DEF GroupIInv
<1> QED BY <1>1, <1>2, <1>3, <1>4 DEF ExpandUnit, WalkLevel

LEMMA TakeOK ==
  ASSUME GroupIInv, NEW h \in OrgReqs,
         TakeMembers(h) \/ FindTagged(h) \/ TakeTagMembers(h) \/ AnswerGroup(h)
  PROVE  GroupTypeOK' /\ GroupsOK'
<1> DEFINE q == groupReq[h]
<1>0. /\ groupReq \in [OrgReqs -> GroupReqs] /\ q \in GroupReqs /\ UnchangedOrg
      /\ q.op = "none" => q.at = "idle"
      /\ ~q.stale => Resolving(q)
  BY DEF GroupIInv, GroupTypeOK, GroupsOK, TakeMembers, FindTagged, TakeTagMembers, AnswerGroup
<1>1. \A S : MembersOf(S) \in SUBSET Users
  BY DEF MembersOf, GroupIInv, StaffTypeOK
<1>2. CASE TakeMembers(h)
  <2> DEFINE users == MembersOf(q.found \intersect LiveUnits)
             d == [q EXCEPT !.at = "tags", !.users = users]
  <2>1. q.at = "members" /\ groupReq' = [groupReq EXCEPT ![h] = d]
    BY <1>0, <1>2 DEF TakeMembers
  <2>2. users \in SUBSET Users
    BY <1>1
  <2> HIDE DEF users
  <2>3. /\ d \in GroupReqs /\ d.at = "tags" /\ d.op = q.op /\ d.units = q.units /\ d.deep = q.deep
        /\ d.users = users /\ d.stale = q.stale
    BY <1>0, <2>1, <2>2 DEF GroupReqs
  <2> HIDE DEF d
  <2>4. ASSUME ~d.stale PROVE Resolving(d)
    <3>1. q.found = Taken(q) /\ Taken(d) = Taken(q)
      BY <1>0, <2>1, <2>3, <2>4 DEF Resolving, Taken
    <3> QED BY <2>3, <3>1 DEF Resolving, users
  <2> QED BY <1>0, <2>1, <2>3, <2>4, GroupAskGoes DEF GroupIInv
<1>3. CASE FindTagged(h)
  <2> DEFINE found == CarryTag(q)
             d == [q EXCEPT !.at = "tagMembers", !.found = found]
  <2>1. q.at = "tags" /\ groupReq' = [groupReq EXCEPT ![h] = d]
    BY <1>0, <1>3 DEF FindTagged, CarryTag
  <2>2. found \in SUBSET Units
    BY DEF CarryTag, LiveUnits
  <2> HIDE DEF found
  <2>3. /\ d \in GroupReqs /\ d.at = "tagMembers" /\ d.op = q.op /\ d.units = q.units
        /\ d.deep = q.deep /\ d.tags = q.tags /\ d.found = found /\ d.users = q.users
        /\ d.stale = q.stale
    BY <1>0, <2>1, <2>2 DEF GroupReqs
  <2> HIDE DEF d
  <2>4. ASSUME ~d.stale PROVE Resolving(d)
    <3>1. Taken(d) = Taken(q) /\ CarryTag(d) = CarryTag(q)
      BY <2>3 DEF Taken, CarryTag, TagsMeant
    <3>2. q.users = MembersOf(Taken(q) \intersect LiveUnits)
      BY <1>0, <2>1, <2>3, <2>4 DEF Resolving
    <3> QED BY <2>3, <3>1, <3>2 DEF Resolving, found
  <2> QED BY <1>0, <2>1, <2>3, <2>4, GroupAskGoes DEF GroupIInv
<1>4. CASE TakeTagMembers(h)
  <2> DEFINE users == q.users \union MembersOf(q.found)
             d == [q EXCEPT !.at = "answer", !.users = users]
  <2>1. q.at = "tagMembers" /\ groupReq' = [groupReq EXCEPT ![h] = d]
    BY <1>0, <1>4 DEF TakeTagMembers
  <2>2. users \in SUBSET Users
    BY <1>0, <1>1 DEF GroupReqs
  <2> HIDE DEF users
  <2>3. /\ d \in GroupReqs /\ d.at = "answer" /\ d.op = q.op /\ d.units = q.units
        /\ d.deep = q.deep /\ d.tags = q.tags /\ d.users = users /\ d.stale = q.stale
    BY <1>0, <2>1, <2>2 DEF GroupReqs
  <2> HIDE DEF d
  <2>4. ASSUME ~d.stale PROVE Resolving(d)
    <3>1. Taken(d) = Taken(q) /\ CarryTag(d) = CarryTag(q)
      BY <2>3 DEF Taken, CarryTag, TagsMeant
    <3>2. q.users = MembersOf(Taken(q) \intersect LiveUnits) /\ q.found = CarryTag(q)
      BY <1>0, <2>1, <2>3, <2>4 DEF Resolving
    <3> QED BY <2>3, <3>1, <3>2 DEF Resolving, users
  <2> QED BY <1>0, <2>1, <2>3, <2>4, GroupAskGoes DEF GroupIInv
<1>5. CASE AnswerGroup(h)
  <2>1. /\ groupReq' = [groupReq EXCEPT ![h] = NoGroupReq] /\ NoGroupReq \in GroupReqs
        /\ NoGroupReq.at = "idle"
    BY <1>5 DEF AnswerGroup, NoGroupReq, GroupReqs
  <2>2. Resolving(NoGroupReq)
    BY DEF Resolving, NoGroupReq
  <2> QED BY <1>0, <2>1, <2>2, GroupAskGoes DEF GroupIInv
<1> QED BY <1>2, <1>3, <1>4, <1>5

(* A change of the rows makes every resolution in flight stale.            *)
LEMMA RowsChange ==
  ASSUME GroupTypeOK, GroupsOK,
         groupReq' = IF UNCHANGED <<unit, tagVars, member>> THEN groupReq
                     ELSE [h \in OrgReqs |-> [groupReq[h] EXCEPT !.stale = (groupReq[h].op # "none")]]
  PROVE  GroupTypeOK' /\ GroupsOK'
<1>0. groupReq \in [OrgReqs -> GroupReqs]
  BY DEF GroupTypeOK
<1>1. CASE UNCHANGED <<unit, tagVars, member>>
  <2>1. groupReq' = groupReq /\ UNCHANGED <<unit, tag, tagged, member>>
    BY <1>1 DEF tagVars
  <2>2. ASSUME NEW k \in OrgReqs, NEW e, e = groupReq'[k], ~e.stale
        PROVE  Resolving(e)'
    BY <2>1, <2>2, ResolvingReads DEF GroupsOK
  <2>3. GroupsOK'
    BY <2>1, <2>2 DEF GroupsOK
  <2> QED BY <1>0, <2>1, <2>3 DEF GroupTypeOK
<1>2. CASE ~(UNCHANGED <<unit, tagVars, member>>)
  <2>1. groupReq' = [h \in OrgReqs |-> [groupReq[h] EXCEPT !.stale = (groupReq[h].op # "none")]]
    BY <1>2
  <2>2. ASSUME NEW k \in OrgReqs
        PROVE  /\ groupReq'[k] \in GroupReqs
               /\ groupReq'[k].op = groupReq[k].op /\ groupReq'[k].at = groupReq[k].at
               /\ groupReq'[k].stale = (groupReq[k].op # "none")
    <3> DEFINE stale == groupReq[k].op # "none"
    <3>1. groupReq'[k] = [groupReq[k] EXCEPT !.stale = stale] /\ stale \in BOOLEAN
      BY <2>1
    <3> HIDE DEF stale
    <3>2. /\ groupReq'[k] \in GroupReqs
          /\ groupReq'[k].op = groupReq[k].op /\ groupReq'[k].at = groupReq[k].at
          /\ groupReq'[k].stale = stale
      BY <1>0, <3>1 DEF GroupReqs
    <3> QED BY <3>2 DEF stale
  <2>3. ASSUME NEW k \in OrgReqs
        PROVE  /\ groupReq'[k].op = "none" => groupReq'[k].at = "idle"
               /\ ~groupReq'[k].stale => groupReq'[k].at = "idle"
    BY <2>2, <2>3 DEF GroupsOK
  <2>4. GroupsOK'
    BY <2>3 DEF GroupsOK, Resolving
  <2>5. groupReq' = [k \in OrgReqs |-> groupReq'[k]]
    BY <2>1
  <2>6. GroupTypeOK'
    BY <2>2, <2>5 DEF GroupTypeOK
  <2> QED BY <2>4, <2>6
<1> QED BY <1>1, <1>2

------------------------------------------------------------------------------
(* What a group means is said with paths, what is found with closed sets   *)

(* A path up from n to top through k different units.                      *)
Trail(n, top, k, p) ==
  /\ p \in [1..k -> Units] /\ p[1] = n /\ p[k] = top
  /\ \A i \in 1..(k - 1) : p[i] \in LiveUnits /\ unit[p[i]].parent = p[i + 1]
  /\ \A i, j \in 1..k : p[i] = p[j] => i = j

LEMMA HeightOfOne == ASSUME NEW n \in Units PROVE Height \in Nat /\ 1 <= Height
<1>1. IsFiniteSet({n}) /\ Cardinality({n}) = 1
  BY FS_Singleton
<1>2. Cardinality({n}) <= Cardinality(Units)
  BY OrgAssumption, FS_Subset
<1> QED BY <1>1, <1>2, HeightType DEF Height

LEMMA TrailShort ==
  ASSUME NEW k \in Nat, NEW p \in [1..k -> Units], \A i, j \in 1..k : p[i] = p[j] => i = j
  PROVE  k <= Height
<1> SUFFICES ASSUME ~(k <= Height) PROVE FALSE
  OBVIOUS
<1>1. IsFiniteSet(1..k) /\ Cardinality(1..k) = k
  <2> DEFINE a == 1
  <2>1. a \in Int /\ k \in Int
    OBVIOUS
  <2>2. IsFiniteSet(a..k) /\ Cardinality(a..k) = IF a > k THEN 0 ELSE k - a + 1
    BY <2>1, FS_Interval
  <2> QED BY <2>2
<1>2. Cardinality(Units) < Cardinality(1..k)
  BY <1>1, HeightType DEF Height
<1>3. \E i, j \in 1..k : i # j /\ p[i] = p[j]
  BY <1>1, <1>2, OrgAssumption, FS_PigeonHole
<1> QED BY <1>3

LEMMA TrailIsUnder ==
  ASSUME NEW n \in Units, NEW top \in Units, NEW k \in Nat, 1 <= k, NEW p, Trail(n, top, k, p)
  PROVE  IsUnder(n, top)
<1>1. p \in [1..k -> Units] /\ k <= Height
  BY TrailShort DEF Trail
<1> DEFINE path == [i \in 1..Height |-> IF i <= k THEN p[i] ELSE n]
<1>2. \A i \in 1..k : i \in 1..Height /\ path[i] = p[i]
  BY <1>1, HeightType
<1>3. path \in [1..Height -> Units] /\ k \in 1..Height
  BY <1>1, HeightType
<1> HIDE DEF path
<1>4. path[1] = n /\ path[k] = top
  BY <1>2 DEF Trail
<1>5. ASSUME NEW i \in 1..(k - 1)
      PROVE  path[i] \in LiveUnits /\ unit[path[i]].parent = path[i + 1]
  <2>1. i \in 1..k /\ i + 1 \in 1..k
    OBVIOUS
  <2> QED BY <1>2, <2>1 DEF Trail
<1> QED BY <1>3, <1>4, <1>5 DEF IsUnder, Height

LEMMA UnderIsReached ==
  ASSUME NEW U \in SUBSET Units, NEW n \in Units, NEW top \in U, IsUnder(n, top)
  PROVE  n \in Reached(U)
<1> SUFFICES ASSUME NEW T \in SUBSET Units, U \subseteq T, Children(T) \subseteq T
             PROVE  n \in T
  BY DEF Reached
<1>1. PICK path \in [1..Height -> Units] : \E k \in 1..Height :
        /\ path[1] = n /\ path[k] = top
        /\ \A i \in 1..(k - 1) : path[i] \in LiveUnits /\ unit[path[i]].parent = path[i + 1]
  BY DEF IsUnder, Height
<1>2. PICK k \in 1..Height :
        /\ path[1] = n /\ path[k] = top
        /\ \A i \in 1..(k - 1) : path[i] \in LiveUnits /\ unit[path[i]].parent = path[i + 1]
  BY <1>1
<1> DEFINE l == k - 1
           K == {j \in 0..l : path[k - j] \in T}
<1>3. k \in Nat /\ l \in Nat /\ k = l + 1
  BY <1>2, HeightType
<1>4. 0 \in K
  BY <1>2, <1>3
<1>5. ASSUME NEW j \in K, j < l PROVE j + 1 \in K
  <2> DEFINE i == k - (j + 1)
  <2>1. i \in 1..(k - 1) /\ i + 1 = k - j /\ j + 1 \in 0..l
    BY <1>3, <1>5
  <2>2. path[i] \in LiveUnits /\ unit[path[i]].parent = path[i + 1]
    BY <1>2, <2>1
  <2>3. path[i] \in T
    BY <2>1, <2>2, <1>5 DEF Children
  <2> QED BY <2>1, <2>3
<1>6. K \in SUBSET (0..l)
  OBVIOUS
<1>7. k - l = 1
  BY <1>3
<1> HIDE DEF K, l
<1>8. l \in K
  BY <1>3, <1>4, <1>5, <1>6, UpTo
<1> QED BY <1>2, <1>7, <1>8 DEF K

LEMMA ReachedIsUnder ==
  ASSUME NEW U \in SUBSET Units, NEW n \in Reached(U)
  PROVE  \E top \in U : IsUnder(n, top)
<1> DEFINE Up(m) == \E top \in U, k \in Nat : 1 <= k /\ \E p : Trail(m, top, k, p)
           T == {m \in Units : Up(m)}
<1>1. ASSUME NEW m \in U PROVE m \in T
  <2> DEFINE p == [i \in 1..1 |-> m]
  <2>1. p \in [1..1 -> Units] /\ p[1] = m
    OBVIOUS
  <2>2. \A i \in 1..(1 - 1) : FALSE
    OBVIOUS
  <2>3. \A i, j \in 1..1 : i = j
    OBVIOUS
  <2> HIDE DEF p
  <2>4. Trail(m, m, 1, p)
    BY <2>1, <2>2, <2>3 DEF Trail
  <2> QED BY <2>4
<1>2. ASSUME NEW m \in Children(T) PROVE m \in T
  <2> DEFINE parent == unit[m].parent
  <2>1. m \in LiveUnits /\ m \in Units /\ parent \in T
    BY <1>2 DEF Children, LiveUnits
  <2>2. PICK top \in U, k \in Nat : 1 <= k /\ \E p : Trail(parent, top, k, p)
    BY <2>1
  <2>3. PICK p : Trail(parent, top, k, p)
    BY <2>2
  <2>4. /\ p \in [1..k -> Units] /\ p[1] = parent /\ p[k] = top
        /\ \A i \in 1..(k - 1) : p[i] \in LiveUnits /\ unit[p[i]].parent = p[i + 1]
        /\ \A i, j \in 1..k : p[i] = p[j] => i = j
    BY <2>3 DEF Trail
  <2>5. CASE \E j \in 1..k : p[j] = m
    <3>1. PICK j \in 1..k : p[j] = m
      BY <2>5
    <3> DEFINE l == k - j + 1
               s == [i \in 1..l |-> p[i + j - 1]]
    <3>2. l \in Nat /\ 1 <= l /\ \A i \in 1..l : i + j - 1 \in 1..k
      BY <2>2, <3>1
    <3>3. /\ s \in [1..l -> Units] /\ \A i \in 1..l : s[i] = p[i + j - 1]
      BY <2>4, <3>2
    <3>4. 1 + j - 1 = j /\ l + j - 1 = k /\ 1 \in 1..l /\ l \in 1..l
      BY <3>1, <3>2
    <3>5. ASSUME NEW i \in 1..(l - 1)
          PROVE  s[i] \in LiveUnits /\ unit[s[i]].parent = s[i + 1]
      <4>1. /\ i \in 1..l /\ i + 1 \in 1..l /\ i + j - 1 \in 1..(k - 1)
            /\ (i + 1) + j - 1 = (i + j - 1) + 1
        BY <2>2, <3>1, <3>2
      <4> QED BY <2>4, <3>3, <4>1
    <3>6. ASSUME NEW a \in 1..l, NEW b \in 1..l, s[a] = s[b] PROVE a = b
      <4>1. a + j - 1 = b + j - 1
        BY <2>4, <3>2, <3>3, <3>6
      <4> QED BY <3>1, <3>2, <4>1
    <3> HIDE DEF s, l
    <3>7. s[1] = m /\ s[l] = top
      BY <2>4, <3>1, <3>3, <3>4
    <3>8. Trail(m, top, l, s)
      BY <3>3, <3>5, <3>6, <3>7 DEF Trail
    <3> QED BY <2>1, <3>2, <3>8
  <2>6. CASE \A j \in 1..k : p[j] # m
    <3> DEFINE l == k + 1
               s == [i \in 1..l |-> IF i = 1 THEN m ELSE p[i - 1]]
    <3>1. l \in Nat /\ 1 <= l /\ \A i \in 1..l : i # 1 => i - 1 \in 1..k
      BY <2>2
    <3>2. /\ s \in [1..l -> Units] /\ s[1] = m
          /\ \A i \in 1..l : i # 1 => s[i] = p[i - 1]
      BY <2>1, <2>4, <3>1
    <3>3. s[l] = top
      <4>1. l \in 1..l /\ l # 1 /\ l - 1 = k
        BY <2>2, <3>1
      <4> QED BY <2>4, <3>2, <4>1
    <3>4. ASSUME NEW i \in 1..(l - 1)
          PROVE  s[i] \in LiveUnits /\ unit[s[i]].parent = s[i + 1]
      <4>1. i \in 1..l /\ i + 1 \in 1..l /\ i + 1 # 1 /\ (i + 1) - 1 = i /\ s[i + 1] = p[i]
        BY <2>2, <3>1, <3>2
      <4>2. CASE i = 1
        BY <2>1, <2>4, <3>2, <4>1, <4>2
      <4>3. CASE i # 1
        <5>1. i - 1 \in 1..(k - 1) /\ (i - 1) + 1 = i /\ s[i] = p[i - 1]
          BY <2>2, <3>1, <3>2, <4>1, <4>3
        <5> QED BY <2>4, <4>1, <5>1
      <4> QED BY <4>2, <4>3
    <3>5. ASSUME NEW a \in 1..l, NEW b \in 1..l, s[a] = s[b] PROVE a = b
      <4>1. CASE a = 1 /\ b = 1
        BY <4>1
      <4>2. CASE a # 1 /\ b # 1
        <5>1. a - 1 \in 1..k /\ b - 1 \in 1..k /\ p[a - 1] = p[b - 1]
          BY <3>1, <3>2, <3>5, <4>2
        <5>2. a - 1 = b - 1
          BY <2>4, <5>1
        <5> QED BY <3>1, <5>2
      <4>3. CASE a = 1 /\ b # 1
        BY <2>6, <3>1, <3>2, <3>5, <4>3
      <4>4. CASE a # 1 /\ b = 1
        BY <2>6, <3>1, <3>2, <3>5, <4>4
      <4> QED BY <4>1, <4>2, <4>3, <4>4
    <3> HIDE DEF s, l
    <3>6. Trail(m, top, l, s)
      BY <3>2, <3>3, <3>4, <3>5 DEF Trail
    <3> QED BY <2>1, <3>1, <3>6
  <2> QED BY <2>5, <2>6
<1> HIDE DEF T
<1>3. n \in T
  <2>1. T \in SUBSET Units
    BY DEF T
  <2>2. Reached(U) \subseteq T
    BY <1>1, <1>2, <2>1, ReachedClosed
  <2> QED BY <2>2
<1>4. n \in Units /\ Up(n)
  BY <1>3 DEF T
<1>5. PICK top \in U, k \in Nat : 1 <= k /\ \E p : Trail(n, top, k, p)
  BY <1>4
<1>6. PICK p : Trail(n, top, k, p)
  BY <1>5
<1>7. IsUnder(n, top)
  BY <1>4, <1>5, <1>6, TrailIsUnder
<1> QED BY <1>7

LEMMA MeantIsTaken ==
  ASSUME TreeTypeOK, StaffTypeOK, NEW q \in GroupReqs
  PROVE  Meant(q) = MembersOf(Taken(q) \intersect LiveUnits) \union MembersOf(CarryTag(q))
<1>1. member \subseteq Users \X Units \X Posts /\ q.units \in SUBSET Units
      /\ LiveUnits \subseteq Units
  BY DEF StaffTypeOK, GroupReqs, LiveUnits
<1>2. ASSUME NEW n \in LiveUnits
      PROVE  n \in Taken(q) <=> \/ n \in q.units
                                \/ q.deep /\ \E top \in q.units : IsUnder(n, top)
  <2>1. n \in Reached(q.units) <=> \E top \in q.units : IsUnder(n, top)
    BY <1>1, UnderIsReached, ReachedIsUnder
  <2>2. q.units \subseteq Reached(q.units)
    BY <1>1, ReachedClosed
  <2> QED BY <2>1, <2>2 DEF Taken
<1> DEFINE S == (Taken(q) \intersect LiveUnits) \union CarryTag(q)
<1>3. S \subseteq LiveUnits
  BY DEF CarryTag
<1>4. ASSUME NEW n \in LiveUnits
      PROVE  n \in S <=> \/ n \in q.units
                         \/ q.deep /\ \E top \in q.units : IsUnder(n, top)
                         \/ \E t \in TagsMeant(q) : <<n, t>> \in tagged
  BY <1>2 DEF CarryTag
<1>5. MembersOf(Taken(q) \intersect LiveUnits) \union MembersOf(CarryTag(q)) = MembersOf(S)
  BY DEF MembersOf
<1> HIDE DEF S
<1>6. MembersOf(S) = {u \in Users : \E n \in S, p \in Posts : <<u, n, p>> \in member}
  <2>1. ASSUME NEW u \in MembersOf(S)
        PROVE  u \in Users /\ \E n \in S, p \in Posts : <<u, n, p>> \in member
    <3>1. PICK m \in member : m[2] \in S /\ m[1] = u
      BY <2>1 DEF MembersOf
    <3>2. m \in Users \X Units \X Posts
      BY <1>1, <3>1
    <3>3. m = <<m[1], m[2], m[3]>> /\ m[1] \in Users /\ m[3] \in Posts
      BY <3>2
    <3> QED BY <3>1, <3>3
  <2>2. ASSUME NEW u \in Users, NEW n \in S, NEW p \in Posts, <<u, n, p>> \in member
        PROVE  u \in MembersOf(S)
    <3> DEFINE m == <<u, n, p>>
    <3>1. m \in member /\ m[2] \in S /\ m[1] = u
      BY <2>2
    <3> HIDE DEF m
    <3> QED BY <3>1 DEF MembersOf
  <2> QED BY <2>1, <2>2
<1>7. Meant(q) = {u \in Users : \E n \in LiveUnits, p \in Posts : <<u, n, p>> \in member /\ n \in S}
  BY <1>4 DEF Meant
<1>8. MembersOf(S) = Meant(q)
  BY <1>3, <1>6, <1>7
<1> QED BY <1>5, <1>8

LEMMA GroupsStay ==
  ASSUME UNCHANGED <<treeVars, staffVars, groupReq>>, GroupsOK
  PROVE  GroupsOK'
<1>1. UNCHANGED <<unit, tag, tagged, member>>
  BY DEF treeVars, unitVars, tagVars, staffVars
<1>2. ASSUME NEW k \in OrgReqs, NEW e, e = groupReq'[k], ~e.stale PROVE Resolving(e)'
  BY <1>1, <1>2, ResolvingReads DEF GroupsOK
<1> QED BY <1>2 DEF GroupsOK

LEMMA GroupStarts == GroupInit => GroupTypeOK /\ GroupsOK
<1>1. NoGroupReq \in GroupReqs /\ NoGroupReq.at = "idle"
  BY DEF NoGroupReq, GroupReqs
<1> QED BY <1>1 DEF GroupInit, GroupTypeOK, GroupsOK, Resolving

LEMMA GroupStepOK ==
  ASSUME GroupIInv, NEW h \in OrgReqs, AskGroup(h) \/ ResolveStep(h)
  PROVE  UnchangedOrg /\ GroupIInv'
<1>1. UnchangedOrg
  BY DEF ResolveStep, AskGroup, ExpandUnit, WalkLevel, TakeMembers, FindTagged,
         TakeTagMembers, AnswerGroup
<1>2. StaffTypeOK'
  BY <1>1 DEF UnchangedOrg, GroupIInv, staffVars, StaffTypeOK
<1>3. GroupTypeOK' /\ GroupsOK'
  BY AskGroupOK, WalkOK, TakeOK DEF ResolveStep
<1> QED BY <1>1, <1>2, <1>3 DEF GroupIInv

LEMMA OrgInvariance == OrgSpec => []OrgIInv
<1>1. TreeInit /\ StaffInit /\ GroupInit => OrgIInv
  <2> SUFFICES ASSUME TreeInit, StaffInit, GroupInit PROVE OrgIInv
    OBVIOUS
  <2>1. StaffTypeOK
    BY DEF StaffInit, StaffTypeOK
  <2>3. GroupTypeOK /\ GroupsOK
    BY GroupStarts
  <2> QED BY <2>1, <2>3, TreeStarts DEF OrgIInv, GroupIInv
<1>2. OrgIInv /\ [GroupNext]_groupVars => OrgIInv'
  <2> SUFFICES ASSUME OrgIInv, [GroupNext]_groupVars PROVE OrgIInv'
    OBVIOUS
  <2>1. CASE OrgStep
    <3>1. GroupTypeOK' /\ GroupsOK'
      BY <2>1, RowsChange DEF OrgStep, OrgIInv, GroupIInv
    <3>2. TreeIInv'
      BY <2>1, UnitStepOK, TagStepOK, TreeIdles DEF OrgStep, OrgIInv, GroupIInv
    <3>3. StaffTypeOK'
      <4>1. CASE UNCHANGED staffVars
        BY <4>1 DEF OrgIInv, GroupIInv, staffVars, StaffTypeOK
      <4> QED BY <2>1, <4>1, MembersOK, PostsOK DEF OrgStep, OrgIInv, GroupIInv
    <3> QED BY <3>1, <3>2, <3>3 DEF OrgIInv, GroupIInv
  <2>2. ASSUME UnchangedOrg, GroupTypeOK', GroupsOK' PROVE OrgIInv'
    <3>1. TreeIInv'
      BY <2>2, TreeIdles DEF UnchangedOrg, OrgIInv, GroupIInv
    <3>2. StaffTypeOK'
      BY <2>2 DEF UnchangedOrg, OrgIInv, GroupIInv, staffVars, StaffTypeOK
    <3> QED BY <2>2, <3>1, <3>2 DEF OrgIInv, GroupIInv
  <2>3. ASSUME NEW h \in OrgReqs, AskGroup(h) \/ ResolveStep(h) PROVE OrgIInv'
    <3>1. UnchangedOrg
      BY <2>3, GroupStepOK DEF OrgIInv
    <3>2. GroupTypeOK' /\ GroupsOK'
      BY <2>3, GroupStepOK DEF OrgIInv, GroupIInv
    <3> QED BY <2>2, <3>1, <3>2
  <2>4. CASE UNCHANGED groupVars
    <3>1. UnchangedOrg /\ groupReq' = groupReq /\ UNCHANGED <<unit, tag, tagged, member>>
      BY <2>4 DEF groupVars, UnchangedOrg, treeVars, unitVars, tagVars, staffVars
    <3>2. GroupTypeOK'
      BY <3>1 DEF OrgIInv, GroupIInv, GroupTypeOK
    <3>3. GroupsOK'
      BY <3>1, GroupsStay DEF OrgIInv, GroupIInv, UnchangedOrg
    <3> QED BY <2>2, <3>1, <3>2, <3>3
  <2> QED BY <2>1, <2>3, <2>4 DEF GroupNext
<1> QED BY <1>1, <1>2, PTL DEF OrgSpec

(* The organisation for every number of units, tags, users and requests:   *)
(* its tree is sound, and resolveByOrgIds and resolveUserIds take exactly  *)
(* the users a group stands for, however deep and wide the tree is, unless *)
(* rows changed while they walked it level by level.                       *)
THEOREM OrgIsSound == OrgSpec => []OrgSound
<1>1. OrgIInv => OrgSound
  <2> SUFFICES ASSUME OrgIInv PROVE ResolvedExact
    BY TreeIsSound DEF OrgIInv, GroupIInv, OrgSound
  <2>1. ASSUME NEW h \in OrgReqs, NEW q, q = groupReq[h], q.at = "answer", ~q.stale
        PROVE  q.users = Meant(q)
    <3>1. q \in GroupReqs /\ Resolving(q)
      BY <2>1 DEF OrgIInv, GroupIInv, GroupTypeOK, GroupsOK
    <3>2. q.users = MembersOf(Taken(q) \intersect LiveUnits) \union MembersOf(CarryTag(q))
      BY <2>1, <3>1 DEF Resolving
    <3> QED BY <3>1, <3>2, MeantIsTaken DEF OrgIInv, GroupIInv, TreeIInv
  <2> QED BY <2>1 DEF ResolvedExact
<1> QED BY <1>1, OrgInvariance, PTL

------------------------------------------------------------------------------
(* The walk comes to an end *)

(* The live units below those of a level.                                  *)
Beneath(level) == Reached(Children(level))

(* How far a resolution is: subtrees, members, tags, their members.        *)
Stage == [expand |-> 1, walk |-> 1, members |-> 2, tags |-> 3, tagMembers |-> 4, answer |-> 5]

(* What is left of a walk gets less: the subtrees to be walked, or the     *)
(* units below the last level, or that level itself.                       *)
LeavesLess(q, d) ==
  \/ d.todo \subseteq q.todo /\ d.todo # q.todo
  \/ d.todo = q.todo /\ q.at = "walk" /\ d.at = "expand"
  \/ /\ d.todo = q.todo /\ q.at = "walk" /\ d.at = "walk"
     /\ Beneath(d.level) \subseteq Beneath(q.level)
     /\ Beneath(d.level) = Beneath(q.level) => q.level # {} /\ d.level = {}

GoesOn(q, d) ==
  \/ d = NoGroupReq
  \/ Stage[d.at] > Stage[q.at]
  \/ q.at \in {"expand", "walk"} /\ d.at \in {"expand", "walk"} /\ LeavesLess(q, d)

(* One level further down leaves units out, if no unit is below itself.    *)
LEMMA LevelsEnd ==
  ASSUME Grounded, NEW L \in SUBSET Units
  PROVE  /\ Beneath(Children(L)) \subseteq Beneath(L)
         /\ Beneath(Children(L)) = Beneath(L) => Children(L) = {}
<1> DEFINE M == Children(L)
           D == Reached(M)
<1>1. M \in SUBSET LiveUnits /\ Children(M) \in SUBSET Units /\ LiveUnits \subseteq Units
  BY DEF Children, LiveUnits
<1>2. M \subseteq D /\ D \subseteq Units /\ Children(D) \subseteq D
  BY <1>1, ReachedClosed
<1>3. Children(M) \subseteq D
  BY <1>2 DEF Children
<1>4. Reached(Children(M)) \subseteq D
  BY <1>1, <1>2, <1>3, ReachedClosed
<1>5. D \subseteq LiveUnits
  <2>1. M \subseteq D \intersect LiveUnits /\ Children(D \intersect LiveUnits) \subseteq D \intersect LiveUnits
    BY <1>1, <1>2 DEF Children
  <2>2. D \intersect LiveUnits \in SUBSET Units
    BY <1>2
  <2> QED BY <1>1, <2>1, <2>2, ReachedClosed
<1>6. ASSUME M # {} PROVE Reached(Children(M)) # D
  <2>1. PICK n \in D : unit[n].parent \notin D
    BY <1>2, <1>5, <1>6 DEF Grounded
  <2>2. Children(M) \subseteq D \ {n} /\ Children(D \ {n}) \subseteq D \ {n}
    BY <1>2, <1>3, <2>1 DEF Children
  <2>3. D \ {n} \in SUBSET Units
    BY <1>2
  <2>4. Reached(Children(M)) \subseteq D \ {n}
    BY <1>1, <2>2, <2>3, ReachedClosed
  <2> QED BY <2>1, <2>4
<1> QED BY <1>4, <1>6 DEF Beneath

LEMMA ResolveGoesOn ==
  ASSUME OrgIInv, ~looped, NEW h \in OrgReqs, ResolveStep(h)
  PROVE  GoesOn(groupReq[h], groupReq'[h])
<1> DEFINE q == groupReq[h]
<1>0. groupReq \in [OrgReqs -> GroupReqs] /\ q \in GroupReqs /\ Grounded
  BY DEF OrgIInv, GroupIInv, GroupTypeOK, TreeIInv
<1> USE DEF GoesOn, Stage
<1>1. CASE ExpandUnit(h) /\ q.todo = {}
  <2>1. q.at = "expand" /\ groupReq' = [groupReq EXCEPT ![h].at = "members"]
    BY <1>1 DEF ExpandUnit
  <2>2. groupReq'[h].at = "members"
    BY <1>0, <2>1 DEF GroupReqs
  <2> QED BY <2>1, <2>2
<1>2. CASE ExpandUnit(h) /\ q.todo # {}
  <2>1. q.at = "expand"
    BY <1>2 DEF ExpandUnit
  <2>2. PICK n \in q.todo :
          groupReq' = [groupReq EXCEPT ![h].at = "walk", ![h].todo = q.todo \ {n},
                                       ![h].level = {n}, ![h].found = q.found \union {n}]
    BY <1>2 DEF ExpandUnit
  <2>3. groupReq'[h].at = "walk" /\ groupReq'[h].todo = q.todo \ {n}
    BY <1>0, <2>2 DEF GroupReqs
  <2> QED BY <2>1, <2>2, <2>3 DEF LeavesLess
<1>3. CASE WalkLevel(h) /\ q.level = {}
  <2>1. q.at = "walk" /\ groupReq' = [groupReq EXCEPT ![h].at = "expand"]
    BY <1>3 DEF WalkLevel
  <2>2. groupReq'[h].at = "expand" /\ groupReq'[h].todo = q.todo
    BY <1>0, <2>1 DEF GroupReqs
  <2> QED BY <2>1, <2>2 DEF LeavesLess
<1>4. CASE WalkLevel(h) /\ q.level # {}
  <2>1. /\ q.at = "walk"
        /\ groupReq' = [groupReq EXCEPT ![h].level = Children(q.level),
                                        ![h].found = q.found \union Children(q.level)]
    BY <1>4 DEF WalkLevel
  <2>2. /\ groupReq'[h].at = "walk" /\ groupReq'[h].todo = q.todo
        /\ groupReq'[h].level = Children(q.level)
    BY <1>0, <2>1 DEF GroupReqs
  <2>3. q.level \in SUBSET Units
    BY <1>0 DEF GroupReqs
  <2>4. /\ Beneath(Children(q.level)) \subseteq Beneath(q.level)
        /\ Beneath(Children(q.level)) = Beneath(q.level) => Children(q.level) = {}
    BY <1>0, <2>3, LevelsEnd
  <2> QED BY <1>4, <2>1, <2>2, <2>4 DEF LeavesLess
<1>5. CASE TakeMembers(h)
  <2>1. /\ q.at = "members"
        /\ groupReq' = [groupReq EXCEPT ![h].at = "tags",
                                        ![h].users = MembersOf(q.found \intersect LiveUnits)]
    BY <1>5 DEF TakeMembers
  <2>2. groupReq'[h].at = "tags"
    BY <1>0, <2>1 DEF GroupReqs
  <2> QED BY <2>1, <2>2
<1>6. CASE FindTagged(h)
  <2>1. q.at = "tags" /\ groupReq'[h].at = "tagMembers"
    BY <1>0, <1>6 DEF FindTagged, GroupReqs
  <2> QED BY <2>1
<1>7. CASE TakeTagMembers(h)
  <2>1. q.at = "tagMembers" /\ groupReq'[h].at = "answer"
    BY <1>0, <1>7 DEF TakeTagMembers, GroupReqs
  <2> QED BY <2>1
<1>8. CASE AnswerGroup(h)
  BY <1>0, <1>8 DEF AnswerGroup
<1> QED BY <1>1, <1>2, <1>3, <1>4, <1>5, <1>6, <1>7, <1>8 DEF ResolveStep

(* Every statement of a resolution is possible when it is its turn.        *)
AtWork == \A h \in OrgReqs : groupReq[h] # NoGroupReq => groupReq[h].at \in DOMAIN Stage

(* A statement of a resolution answers it or leaves less to do, as long as *)
(* no unit is below itself; all that others change is what is stale, and,  *)
(* if they write units, what is beneath a level.                           *)
WalkGoesOn(h) ==
  /\ ResolveStep(h) /\ ~looped => GoesOn(groupReq[h], groupReq'[h])
  /\ (groupReq[h] # NoGroupReq /\ ~ResolveStep(h)) =>
       groupReq'[h] = [groupReq[h] EXCEPT !.stale = groupReq'[h].stale]
LEMMA AskGroupAt ==
  ASSUME groupReq \in [OrgReqs -> GroupReqs], NEW h \in OrgReqs, AskGroup(h)
  PROVE  /\ groupReq'[h].at \in {"tags", "expand", "members"}
         /\ \A k \in OrgReqs \ {h} : groupReq'[k] = groupReq[k]
<1>1. PICK op \in {"invite", "preview"}, U \in SUBSET Units, T \in SUBSET Tags, deep \in BOOLEAN :
        /\ U \union T # {} /\ (op = "preview" => Cardinality(U) <= 1)
        /\ groupReq' = [groupReq EXCEPT ![h] =
                         [NoGroupReq EXCEPT
                            !.op = op, !.units = U, !.deep = deep, !.tags = T,
                            !.at = IF U = {} THEN "tags" ELSE IF deep THEN "expand" ELSE "members",
                            !.todo = IF deep THEN U ELSE {}, !.found = IF deep THEN {} ELSE U]]
  BY Zenon DEF AskGroup
<1> DEFINE at == IF U = {} THEN "tags" ELSE IF deep THEN "expand" ELSE "members"
<1>2. at \in {"tags", "expand", "members"}
  OBVIOUS
<1>3. groupReq'[h].at = at
  BY <1>1 DEF NoGroupReq
<1>4. \A k \in OrgReqs \ {h} : groupReq'[k] = groupReq[k]
  BY <1>1
<1> QED BY <1>2, <1>3, <1>4

LEMMA ResolveAt ==
  ASSUME groupReq \in [OrgReqs -> GroupReqs], NEW h \in OrgReqs, ResolveStep(h)
  PROVE  /\ groupReq'[h] = NoGroupReq \/ groupReq'[h].at \in DOMAIN Stage
         /\ \A k \in OrgReqs \ {h} : groupReq'[k] = groupReq[k]
<1>1. CASE ExpandUnit(h)
  BY <1>1 DEF ExpandUnit, Stage, GroupReqs
<1>2. CASE WalkLevel(h)
  BY <1>2 DEF WalkLevel, Stage, GroupReqs
<1>3. CASE TakeMembers(h) \/ FindTagged(h) \/ TakeTagMembers(h)
  BY <1>3 DEF TakeMembers, FindTagged, TakeTagMembers, Stage, GroupReqs
<1>4. CASE AnswerGroup(h)
  BY <1>4 DEF AnswerGroup
<1> QED BY <1>1, <1>2, <1>3, <1>4 DEF ResolveStep

LEMMA AtWorkStays ==
  ASSUME OrgIInv, AtWork, [GroupNext]_groupVars
  PROVE  AtWork'
<1>0. groupReq \in [OrgReqs -> GroupReqs]
  BY DEF OrgIInv, GroupIInv, GroupTypeOK
<1>1. CASE groupReq' = groupReq
  BY <1>1 DEF AtWork
<1>2. CASE groupReq' = [h \in OrgReqs |-> [groupReq[h] EXCEPT !.stale = (groupReq[h].op # "none")]]
  <2> SUFFICES ASSUME NEW h \in OrgReqs, groupReq'[h] # NoGroupReq
               PROVE  groupReq'[h].at \in DOMAIN Stage
    BY DEF AtWork
  <2> DEFINE stale == groupReq[h].op # "none"
  <2>1. groupReq'[h] = [groupReq[h] EXCEPT !.stale = stale]
    BY <1>2
  <2>2. groupReq[h] # NoGroupReq
    <3> SUFFICES ASSUME groupReq[h] = NoGroupReq PROVE FALSE
      OBVIOUS
    <3>1. stale = FALSE
      BY DEF NoGroupReq
    <3>2. NoGroupReq.stale = FALSE
      BY DEF NoGroupReq
    <3> HIDE DEF stale
    <3>3. [groupReq[h] EXCEPT !.stale = FALSE] = groupReq[h]
      BY <1>0, <3>2 DEF GroupReqs
    <3> QED BY <2>1, <3>1, <3>3
  <2> HIDE DEF stale
  <2>3. groupReq'[h].at = groupReq[h].at
    BY <1>0, <2>1 DEF GroupReqs
  <2> QED BY <2>2, <2>3 DEF AtWork
<1>3. ASSUME NEW h \in OrgReqs, \A k \in OrgReqs \ {h} : groupReq'[k] = groupReq[k],
             groupReq'[h] = NoGroupReq \/ groupReq'[h].at \in DOMAIN Stage
      PROVE  AtWork'
  BY <1>3 DEF AtWork
<1>4. ASSUME NEW h \in OrgReqs, AskGroup(h) PROVE AtWork'
  <2>1. groupReq'[h].at \in {"tags", "expand", "members"}
    BY <1>0, <1>4, AskGroupAt
  <2>2. \A k \in OrgReqs \ {h} : groupReq'[k] = groupReq[k]
    BY <1>0, <1>4 DEF AskGroup
  <2> QED BY <1>3, <2>1, <2>2 DEF Stage
<1>5. ASSUME NEW h \in OrgReqs, ResolveStep(h) PROVE AtWork'
  <2>1. \A k \in OrgReqs \ {h} : groupReq'[k] = groupReq[k]
    BY <1>0, <1>5, ResolveAt
  <2>2. groupReq'[h] = NoGroupReq \/ groupReq'[h].at \in DOMAIN Stage
    BY <1>0, <1>5, ResolveAt
  <2> QED BY <1>3, <2>1, <2>2
<1>6. CASE UNCHANGED groupVars
  BY <1>1, <1>6 DEF groupVars
<1> QED BY <1>1, <1>2, <1>4, <1>5, <1>6 DEF GroupNext, OrgStep

(* A resolution under way has a statement to execute, and each statement   *)
(* answers it or leaves less of a walk to do, if no unit is below itself;  *)
(* nobody else's step but one that writes units gives anything back.  This *)
(* is what WalkEnds needs besides fairness (getSubtreeIds).                *)
THEOREM WalksGoOn == OrgSpec => []AtWork /\ [][\A h \in OrgReqs : WalkGoesOn(h)]_groupVars
<1>1. OrgSpec => [](OrgIInv /\ AtWork)
  <2>1. GroupInit => AtWork
    BY DEF GroupInit, AtWork
  <2>2. OrgIInv /\ AtWork /\ [GroupNext]_groupVars => AtWork'
    BY AtWorkStays
  <2> QED BY <2>1, <2>2, OrgInvariance, PTL DEF OrgSpec
<1>2. OrgIInv /\ [GroupNext]_groupVars => [\A h \in OrgReqs : WalkGoesOn(h)]_groupVars
  <2> SUFFICES ASSUME OrgIInv, GroupNext, NEW h \in OrgReqs PROVE WalkGoesOn(h)
    OBVIOUS
  <2>0. groupReq \in [OrgReqs -> GroupReqs]
    BY DEF OrgIInv, GroupIInv, GroupTypeOK
  <2>1. ResolveStep(h) /\ ~looped => GoesOn(groupReq[h], groupReq'[h])
    BY ResolveGoesOn
  <2>2. ASSUME groupReq[h] # NoGroupReq, ~ResolveStep(h)
        PROVE  groupReq'[h] = [groupReq[h] EXCEPT !.stale = groupReq'[h].stale]
    <3>1. CASE groupReq'[h] = groupReq[h]
      BY <2>0, <3>1 DEF GroupReqs
    <3>2. CASE OrgStep /\ groupReq' # groupReq
      <4> DEFINE stale == groupReq[h].op # "none"
      <4>1. groupReq'[h] = [groupReq[h] EXCEPT !.stale = stale]
        BY <3>2 DEF OrgStep
      <4> HIDE DEF stale
      <4>2. groupReq'[h].stale = stale
        BY <2>0, <4>1 DEF GroupReqs
      <4> QED BY <4>1, <4>2
    <3>3. ASSUME NEW k \in OrgReqs, AskGroup(k) \/ ResolveStep(k) PROVE groupReq'[h] = groupReq[h]
      <4>1. k # h
        BY <2>2, <3>3 DEF AskGroup
      <4> QED BY <2>0, <3>3, <4>1, ResolveAt, AskGroupAt
    <3> QED BY <3>1, <3>2, <3>3 DEF GroupNext
  <2> QED BY <2>1, <2>2 DEF WalkGoesOn
<1> QED BY <1>1, <1>2, PTL DEF OrgSpec

------------------------------------------------------------------------------
(* Registration *)

(* Handler d is past the look at the application it processes.             *)
Processing(d, q) == d.form = q /\ d.at # "readPending"

(* An account has been made or revived and not been noted yet.             *)
Unsettled(d) == d.op = "approve" /\ d.at = "settle"

(* What a handler carries, by its operation and statement.                 *)
DeskShape(d) ==
  /\ d.at \in CASE d.op = "register" -> {"findLive", "findPending", "submit"}
                [] d.op = "approve" -> {"readPending", "findLive", "takenMail", "findDeleted",
                                        "revive", "create", "settle"}
                [] d.op = "reject" -> {"readPending", "settle"}
                [] d.op = "adminCreate" -> {"findLive", "create"}
                [] d.op = "update" -> {"assertUser", "findOther", "rename"}
                [] OTHER -> {"idle"}
  /\ d.op = "none" => d = NoDesk
  /\ d.form \in Applications <=> d.op \in {"approve", "reject"}
  /\ d.op # "none" /\ d.at # "readPending" => d.mail \in Mails
  /\ d.account \in Accounts <=> d.op = "update" \/ d.at = "revive" \/ Unsettled(d)

(* The rows it names are there.                                            *)
DesksOK ==
  \A h \in Desks :
    /\ DeskShape(desk[h])
    /\ desk[h].form # Nobody => application[desk[h].form] # NoApplication
    /\ desk[h].account # Nobody => person[desk[h].account] # NoPerson

(* An undisturbed application is processed by one handler at a time, which *)
(* has made nothing from it before it settles; and what is not being       *)
(* processed is settled.                                                   *)
Claim(desks, row, mine, q) ==
  /\ \A h, k \in Desks : Processing(desks[h], q) /\ Processing(desks[k], q) => h = k
  /\ \A h \in Desks : Processing(desks[h], q) =>
       /\ row.status = "PENDING"
       /\ mine = IF Unsettled(desks[h]) THEN {desks[h].account} ELSE {}
  /\ (\A h \in Desks : ~Processing(desks[h], q)) =>
       mine = IF row.status = "APPROVED" THEN {row.account} ELSE {}

ClaimsOK == \A q \in Applications \ disturbed : Claim(desk, application[q], made[q], q)

RegIInv == RegTypeOK /\ DesksOK /\ ClaimsOK

LEMMA NoRows ==
  NoPerson \notin Persons /\ NoApplication \notin ApplicationRows /\ ~NoPerson.live
BY RegistrationAssumption DEF NoPerson, Persons, NoApplication, ApplicationRows

LEMMA NoDeskOK == NoDesk \in DeskRows /\ DeskShape(NoDesk)
BY RegistrationAssumption DEF NoDesk, DeskRows, DeskShape, Unsettled

(* Rows stay, so the handlers that do not move still find theirs.          *)
RowsStay ==
  /\ \A q \in Applications : application[q] # NoApplication => application'[q] # NoApplication
  /\ \A a \in Accounts : person[a] # NoPerson => person'[a] # NoPerson

LEMMA DesksGo ==
  ASSUME RegTypeOK, DesksOK, RowsStay, NEW h \in Desks, NEW d \in DeskRows, DeskShape(d),
         desk' = [desk EXCEPT ![h] = d],
         d.form # Nobody => application'[d.form] # NoApplication,
         d.account # Nobody => person'[d.account] # NoPerson
  PROVE  desk' \in [Desks -> DeskRows] /\ DesksOK'
<1>1. desk' \in [Desks -> DeskRows]
  BY DEF RegTypeOK
<1>2. ASSUME NEW k \in Desks
      PROVE  /\ DeskShape(desk[k])'
             /\ desk'[k].form # Nobody => application'[desk'[k].form] # NoApplication
             /\ desk'[k].account # Nobody => person'[desk'[k].account] # NoPerson
  <2>1. CASE k = h
    <3>1. desk'[k] = d
      BY <2>1 DEF RegTypeOK
    <3> QED BY <3>1 DEF DeskShape, Unsettled
  <2>2. CASE k # h
    <3>1. desk'[k] = desk[k] /\ desk[k] \in DeskRows
      BY <2>2 DEF RegTypeOK
    <3>2. /\ desk[k].form \in Applications \union {Nobody}
          /\ desk[k].account \in Accounts \union {Nobody}
      BY <3>1 DEF DeskRows
    <3>3. DeskShape(desk[k])'
      BY <3>1 DEF DesksOK, DeskShape, Unsettled
    <3> QED BY <3>1, <3>2, <3>3 DEF DesksOK, RowsStay
  <2> QED BY <2>1, <2>2
<1> QED BY <1>1, <1>2 DEF DesksOK

LEMMA DesksLeave ==
  ASSUME RegTypeOK, DesksOK, RowsStay, NEW h \in Desks, Leave(h)
  PROVE  desk' \in [Desks -> DeskRows] /\ DesksOK'
<1>1. desk' = [desk EXCEPT ![h] = NoDesk] /\ NoDesk.form = Nobody /\ NoDesk.account = Nobody
  BY DEF Leave, NoDesk
<1> QED BY <1>1, NoDeskOK, DesksGo

(* A handler that neither takes up nor puts down an application.           *)
LEMMA ClaimsGo ==
  ASSUME RegTypeOK, ClaimsOK, NEW h \in Desks, NEW d \in DeskRows,
         desk' = [desk EXCEPT ![h] = d], UNCHANGED <<application, made, disturbed>>,
         \A q \in Applications : Processing(d, q) <=> Processing(desk[h], q),
         ~Unsettled(d), ~Unsettled(desk[h])
  PROVE  ClaimsOK'
<1>1. ASSUME NEW k \in Desks
      PROVE  /\ \A q \in Applications : Processing(desk'[k], q) <=> Processing(desk[k], q)
             /\ Unsettled(desk'[k]) <=> Unsettled(desk[k])
             /\ Unsettled(desk[k]) => desk'[k] = desk[k]
  BY DEF RegTypeOK
<1>2. ASSUME NEW q \in Applications \ disturbed'
      PROVE  Claim(desk', application'[q], made'[q], q)
  BY <1>1 DEF ClaimsOK, Claim
<1> QED BY <1>2 DEF ClaimsOK

(* A handler that leaves: what it has made and not settled is disturbed.   *)
LEMMA ClaimsLeave ==
  ASSUME RegTypeOK, ClaimsOK, NEW h \in Desks, Leave(h), UNCHANGED <<application, made>>,
         disturbed \subseteq disturbed',
         Unsettled(desk[h]) => desk[h].form \in disturbed'
  PROVE  ClaimsOK'
<1>1. ASSUME NEW q \in Applications
      PROVE  /\ ~Processing(desk'[h], q)
             /\ \A k \in Desks \ {h} : desk'[k] = desk[k]
  BY RegistrationAssumption DEF RegTypeOK, Leave, NoDesk, Processing
<1>2. ASSUME NEW q \in Applications \ disturbed'
      PROVE  Claim(desk', application'[q], made'[q], q)
  <2>1. CASE Processing(desk[h], q)
    <3>1. ~Unsettled(desk[h])
      BY <2>1 DEF Processing
    <3>2. Pending(q) /\ made[q] = {} /\ \A k \in Desks : Processing(desk[k], q) => k = h
      BY <2>1, <3>1 DEF ClaimsOK, Claim, Pending
    <3> QED BY <1>1, <3>2 DEF Claim, Pending
  <2>2. CASE ~Processing(desk[h], q)
    BY <1>1, <2>2 DEF ClaimsOK, Claim
  <2> QED BY <2>1, <2>2
<1> QED BY <1>2 DEF ClaimsOK

(* A handler makes an account from the application it processes.           *)
LEMMA ClaimsMade ==
  ASSUME RegTypeOK, ClaimsOK, NEW h \in Desks, NEW d, NEW q \in Applications, NEW a,
         desk' = [desk EXCEPT ![h] = d], UNCHANGED <<application, disturbed>>,
         made' = [made EXCEPT ![q] = @ \union {a}],
         Processing(desk[h], q), ~Unsettled(desk[h]),
         d.form = q, d.account = a, Unsettled(d)
  PROVE  ClaimsOK'
<1>1. /\ desk'[h] = d /\ \A k \in Desks \ {h} : desk'[k] = desk[k]
      /\ \A p \in Applications : Processing(d, p) <=> Processing(desk[h], p)
  BY DEF RegTypeOK, Processing, Unsettled
<1>2. ASSUME NEW p \in Applications \ disturbed'
      PROVE  Claim(desk', application'[p], made'[p], p)
  <2>0. Claim(desk, application[p], made[p], p)
    BY DEF ClaimsOK
  <2>1. CASE p = q
    <3>1. /\ application[q].status = "PENDING" /\ made[q] = {}
          /\ \A k \in Desks : Processing(desk[k], q) => k = h
      BY <2>0, <2>1 DEF Claim
    <3>2. application'[q] = application[q] /\ made'[q] = {a}
      BY <3>1 DEF RegTypeOK
    <3>3. Processing(desk'[h], q) /\ \A k \in Desks : Processing(desk'[k], q) => k = h
      BY <1>1, <3>1
    <3> QED BY <1>1, <2>1, <3>1, <3>2, <3>3 DEF Claim
  <2>2. CASE p # q
    <3>1. application'[p] = application[p] /\ made'[p] = made[p] /\ ~Processing(desk[h], p)
      BY <2>2 DEF RegTypeOK, Processing
    <3> QED BY <1>1, <2>0, <3>1 DEF Claim
  <2> QED BY <2>1, <2>2
<1> QED BY <1>2 DEF ClaimsOK

(* A desk that only changes what it carries, and no application with it.   *)
LEMMA StepsOn ==
  ASSUME RegIInv, NEW h \in Desks, NEW d \in DeskRows, DeskShape(d),
         desk' = [desk EXCEPT ![h] = d], UNCHANGED Tabled,
         \A q \in Applications : Processing(d, q) <=> Processing(desk[h], q),
         ~Unsettled(d), ~Unsettled(desk[h]),
         d.form # Nobody => application[d.form] # NoApplication,
         d.account # Nobody => person[d.account] # NoPerson
  PROVE  RegIInv'
<1>1. RowsStay
  BY DEF RowsStay, Tabled
<1>2. desk' \in [Desks -> DeskRows] /\ DesksOK'
  BY <1>1, DesksGo DEF RegIInv, Tabled
<1>3. ClaimsOK'
  BY ClaimsGo DEF RegIInv, Tabled
<1> QED BY <1>2, <1>3 DEF RegIInv, RegTypeOK, Tabled

LEMMA LeavesOn ==
  ASSUME RegIInv, NEW h \in Desks, Leave(h), ~Unsettled(desk[h]), UNCHANGED Tabled
  PROVE  RegIInv'
<1>1. desk' \in [Desks -> DeskRows] /\ DesksOK'
  BY DesksLeave DEF RegIInv, Tabled, RowsStay
<1>2. ClaimsOK'
  BY ClaimsLeave DEF RegIInv, Tabled
<1> QED BY <1>1, <1>2 DEF RegIInv, RegTypeOK, Tabled

(* A handler takes up a request.                                           *)
LEMMA TakesOn ==
  ASSUME RegIInv, NEW h \in Desks, NEW d \in DeskRows, DeskShape(d), Take(h, d),
         d.form # Nobody => d.at = "readPending" /\ application[d.form] # NoApplication,
         d.account # Nobody => person[d.account] # NoPerson
  PROVE  RegIInv'
<1>1. /\ desk[h] = NoDesk /\ desk' = [desk EXCEPT ![h] = d] /\ UNCHANGED Tabled
  BY DEF Take
<1>2. \A q \in Applications : ~Processing(d, q) /\ ~Processing(desk[h], q)
  BY <1>1, RegistrationAssumption DEF Processing, NoDesk
<1>3. ~Unsettled(desk[h])
  BY <1>1 DEF Unsettled, NoDesk
<1>4. ~Unsettled(d)
  BY RegistrationAssumption DEF Unsettled, DeskShape, DeskRows
<1> QED BY <1>1, <1>2, <1>3, <1>4, StepsOn

LEMMA StartsOK ==
  ASSUME RegIInv, NEW h \in Desks,
         StartRegister(h) \/ StartProcess(h) \/ StartAdminCreate(h) \/ StartUpdateUser(h)
  PROVE  RegIInv'
<1>1. ASSUME NEW op \in {"register", "adminCreate"}, NEW mail \in Mails,
             Take(h, [NoDesk EXCEPT !.op = op, !.at = "findLive", !.mail = mail])
      PROVE  RegIInv'
  <2> DEFINE d == [NoDesk EXCEPT !.op = op, !.at = "findLive", !.mail = mail]
  <2>1. d \in DeskRows
    BY DEF NoDesk, DeskRows
  <2>2. /\ d.op = op /\ d.at = "findLive" /\ d.mail = mail
        /\ d.form = Nobody /\ d.account = Nobody
    BY DEF NoDesk
  <2> HIDE DEF d
  <2>3. DeskShape(d)
    BY <2>2, RegistrationAssumption DEF DeskShape, Unsettled
  <2> QED BY <1>1, <2>1, <2>2, <2>3, TakesOn DEF d
<1>2. ASSUME NEW op \in {"approve", "reject"}, NEW q \in Applications,
             application[q] # NoApplication,
             Take(h, [NoDesk EXCEPT !.op = op, !.at = "readPending", !.form = q])
      PROVE  RegIInv'
  <2> DEFINE d == [NoDesk EXCEPT !.op = op, !.at = "readPending", !.form = q]
  <2>1. d \in DeskRows
    BY DEF NoDesk, DeskRows
  <2>2. d.op = op /\ d.at = "readPending" /\ d.form = q /\ d.account = Nobody
    BY DEF NoDesk
  <2> HIDE DEF d
  <2>3. DeskShape(d)
    BY <2>2, RegistrationAssumption DEF DeskShape, Unsettled
  <2> QED BY <1>2, <2>1, <2>2, <2>3, TakesOn DEF d
<1>3. ASSUME NEW a \in Accounts, NEW mail \in Mails, person[a] # NoPerson,
             Take(h, [NoDesk EXCEPT !.op = "update", !.at = "assertUser",
                                    !.mail = mail, !.account = a])
      PROVE  RegIInv'
  <2> DEFINE d == [NoDesk EXCEPT !.op = "update", !.at = "assertUser", !.mail = mail, !.account = a]
  <2>1. d \in DeskRows
    BY DEF NoDesk, DeskRows
  <2>2. /\ d.op = "update" /\ d.at = "assertUser" /\ d.mail = mail
        /\ d.form = Nobody /\ d.account = a
    BY DEF NoDesk
  <2> HIDE DEF d
  <2>3. DeskShape(d)
    BY <2>2, RegistrationAssumption DEF DeskShape, Unsettled
  <2> QED BY <1>3, <2>1, <2>2, <2>3, TakesOn DEF d
<1>4. CASE StartRegister(h)
  BY <1>1, <1>4 DEF StartRegister
<1>5. CASE StartProcess(h)
  BY <1>2, <1>5 DEF StartProcess
<1>6. CASE StartAdminCreate(h)
  BY <1>1, <1>6 DEF StartAdminCreate
<1>7. CASE StartUpdateUser(h)
  BY <1>3, <1>7 DEF StartUpdateUser
<1> QED BY <1>4, <1>5, <1>6, <1>7

(* A handler goes to its next statement, the rows staying as they are.     *)
LEMMA ProceedsOn ==
  ASSUME RegIInv, NEW h \in Desks,
         NEW at \in {"findPending", "submit", "takenMail", "findDeleted", "create",
                     "findOther", "rename"},
         Proceed(h, at), DeskShape([desk[h] EXCEPT !.at = at]),
         desk[h].at \notin {"readPending", "settle"}, UNCHANGED Tabled
  PROVE  RegIInv'
<1> DEFINE d == [desk[h] EXCEPT !.at = at]
<1>1. desk[h] \in DeskRows
  BY DEF RegIInv, RegTypeOK
<1>2. /\ d \in DeskRows /\ d.at = at /\ d.form = desk[h].form /\ d.account = desk[h].account
  BY <1>1 DEF DeskRows
<1>3. desk' = [desk EXCEPT ![h] = d] /\ DeskShape(d)
  BY DEF Proceed, RegIInv, RegTypeOK
<1> HIDE DEF d
<1>4. \A q \in Applications : Processing(d, q) <=> Processing(desk[h], q)
  BY <1>2 DEF Processing
<1>5. ~Unsettled(d) /\ ~Unsettled(desk[h])
  BY <1>2 DEF Unsettled
<1> QED BY <1>2, <1>3, <1>4, <1>5, StepsOn DEF RegIInv, DesksOK

LEMMA LooksOK ==
  ASSUME RegIInv, NEW h \in Desks,
         \/ FindPendingRequest(h) \/ FindByEmail(h) \/ AssertUserExists(h) \/ FindOther(h)
  PROVE  RegIInv'
<1> DEFINE d == desk[h]
<1>0. d \in DeskRows /\ DeskShape(d)
  BY DEF RegIInv, RegTypeOK, DesksOK
<1>1. CASE FindPendingRequest(h)
  <2>1. UNCHANGED Tabled /\ d.at = "findPending" /\ ~Unsettled(d)
    BY <1>1 DEF FindPendingRequest, OnDesk, Unsettled
  <2>2. DeskShape([d EXCEPT !.at = "submit"])
    BY <1>0, <2>1 DEF DeskShape, DeskRows, Unsettled
  <2> QED BY <1>1, <2>1, <2>2, LeavesOn, ProceedsOn DEF FindPendingRequest
<1>2. CASE FindByEmail(h)
  <2>1. UNCHANGED Tabled /\ d.at = "findLive" /\ ~Unsettled(d)
    BY <1>2 DEF FindByEmail, OnDesk, Unsettled
  <2>2. d.op \in {"register", "adminCreate", "approve"}
    BY <1>0, <2>1 DEF DeskShape
  <2>3. CASE d.op = "register"
    <3>1. DeskShape([d EXCEPT !.at = "findPending"])
      BY <1>0, <2>1, <2>3 DEF DeskShape, DeskRows, Unsettled
    <3>2. Leave(h) \/ Proceed(h, "findPending")
      BY <1>2, <2>3 DEF FindByEmail
    <3> QED BY <2>1, <3>1, <3>2, LeavesOn, ProceedsOn
  <2>4. CASE d.op = "adminCreate"
    <3>1. DeskShape([d EXCEPT !.at = "create"])
      BY <1>0, <2>1, <2>4 DEF DeskShape, DeskRows, Unsettled
    <3>2. Leave(h) \/ Proceed(h, "create")
      BY <1>2, <2>4 DEF FindByEmail
    <3> QED BY <2>1, <3>1, <3>2, LeavesOn, ProceedsOn
  <2>5. CASE d.op = "approve"
    <3>1. DeskShape([d EXCEPT !.at = "takenMail"]) /\ DeskShape([d EXCEPT !.at = "findDeleted"])
      BY <1>0, <2>1, <2>5 DEF DeskShape, DeskRows, Unsettled
    <3>2. Proceed(h, "takenMail") \/ Proceed(h, "findDeleted")
      BY <1>2, <2>5 DEF FindByEmail
    <3> QED BY <2>1, <3>1, <3>2, ProceedsOn
  <2> QED BY <2>2, <2>3, <2>4, <2>5
<1>3. CASE AssertUserExists(h)
  <2>1. UNCHANGED Tabled /\ d.at = "assertUser" /\ ~Unsettled(d)
    BY <1>3 DEF AssertUserExists, OnDesk, Unsettled
  <2>2. DeskShape([d EXCEPT !.at = "findOther"])
    BY <1>0, <2>1 DEF DeskShape, DeskRows, Unsettled
  <2> QED BY <1>3, <2>1, <2>2, LeavesOn, ProceedsOn DEF AssertUserExists
<1>4. CASE FindOther(h)
  <2>1. UNCHANGED Tabled /\ d.at = "findOther" /\ ~Unsettled(d)
    BY <1>4 DEF FindOther, OnDesk, Unsettled
  <2>2. DeskShape([d EXCEPT !.at = "rename"])
    BY <1>0, <2>1 DEF DeskShape, DeskRows, Unsettled
  <2> QED BY <1>4, <2>1, <2>2, LeavesOn, ProceedsOn DEF FindOther
<1> QED BY <1>1, <1>2, <1>3, <1>4

LEMMA FindDeletedOK == ASSUME RegIInv, NEW h \in Desks, FindDeleted(h) PROVE RegIInv'
<1>0. /\ desk[h] \in DeskRows /\ DeskShape(desk[h]) /\ desk[h].at = "findDeleted"
      /\ UNCHANGED Tabled
  BY DEF RegIInv, RegTypeOK, DesksOK, FindDeleted, OnDesk
<1>1. desk[h].op = "approve" /\ desk[h].mail \in Mails /\ ~Unsettled(desk[h])
  BY <1>0 DEF DeskShape, Unsettled
<1>2. CASE Proceed(h, "create")
  <2>1. DeskShape([desk[h] EXCEPT !.at = "create"])
    BY <1>0, <1>1 DEF DeskShape, DeskRows, Unsettled
  <2> QED BY <1>0, <1>2, <2>1, ProceedsOn
<1>3. ASSUME NEW a \in Accounts \ Alive, person[a].mail = desk[h].mail,
             desk' = [desk EXCEPT ![h].at = "revive", ![h].account = a]
      PROVE  RegIInv'
  <2> DEFINE d == [desk[h] EXCEPT !.at = "revive", !.account = a]
  <2>1. /\ d \in DeskRows /\ d.op = "approve" /\ d.at = "revive" /\ d.account = a
        /\ d.form = desk[h].form /\ d.mail = desk[h].mail
    BY <1>0, <1>1 DEF DeskRows
  <2>2. desk' = [desk EXCEPT ![h] = d]
    BY <1>3 DEF RegIInv, RegTypeOK
  <2> HIDE DEF d
  <2>3. DeskShape(d)
    BY <1>0, <1>1, <2>1 DEF DeskShape, Unsettled
  <2>4. person[a] # NoPerson
    BY <1>1, <1>3, RegistrationAssumption DEF NoPerson
  <2>5. /\ \A q \in Applications : Processing(d, q) <=> Processing(desk[h], q)
        /\ ~Unsettled(d)
    BY <1>0, <2>1 DEF Processing, Unsettled
  <2>6. d.form # Nobody => application[d.form] # NoApplication
    BY <2>1 DEF RegIInv, DesksOK
  <2> QED BY <1>0, <1>1, <2>1, <2>2, <2>3, <2>4, <2>5, <2>6, StepsOn
<1> QED BY <1>2, <1>3 DEF FindDeleted

LEMMA SubmitOK == ASSUME RegIInv, NEW h \in Desks, SubmitRequest(h) PROVE RegIInv'
<1>0. /\ desk[h] \in DeskRows /\ DeskShape(desk[h]) /\ desk[h].at = "submit"
      /\ Leave(h) /\ UNCHANGED <<person, made, disturbed>>
  BY DEF RegIInv, RegTypeOK, DesksOK, SubmitRequest, OnDesk
<1>1. desk[h].op = "register" /\ desk[h].mail \in Mails /\ desk[h].form \notin Applications
  BY <1>0 DEF DeskShape
<1>2. PICK p \in Applications :
        /\ application[p] = NoApplication
        /\ application' = [application EXCEPT ![p] =
                             [mail |-> desk[h].mail, status |-> "PENDING", account |-> Nobody]]
  BY DEF SubmitRequest
<1> DEFINE row == [mail |-> desk[h].mail, status |-> "PENDING", account |-> Nobody]
<1>3. row \in ApplicationRows /\ row.status = "PENDING"
  BY <1>1 DEF ApplicationRows
<1> HIDE DEF row
<1>4. /\ application' = [application EXCEPT ![p] = row]
      /\ application \in [Applications -> ApplicationRows \union {NoApplication}]
  BY <1>2 DEF row, RegIInv, RegTypeOK
<1>5. RegTypeOK'
  <2>1. desk' \in [Desks -> DeskRows]
    BY <1>0, NoDeskOK DEF Leave, RegIInv, RegTypeOK
  <2> QED BY <1>0, <1>3, <1>4, <2>1 DEF RegIInv, RegTypeOK
<1>6. DesksOK'
  <2>1. RowsStay
    BY <1>0, <1>3, <1>4, NoRows DEF RowsStay
  <2> QED BY <1>0, <2>1, DesksLeave DEF RegIInv
<1>7. ClaimsOK'
  <2>1. ASSUME NEW q \in Applications
        PROVE  /\ ~Processing(desk'[h], q) /\ ~Processing(desk[h], q)
               /\ \A k \in Desks \ {h} : desk'[k] = desk[k]
    BY <1>0, <1>1, RegistrationAssumption DEF RegIInv, RegTypeOK, Leave, NoDesk, Processing
  <2>2. \A k \in Desks : ~Processing(desk[k], p)
    BY <1>2, RegistrationAssumption DEF RegIInv, DesksOK, Processing
  <2>3. ASSUME NEW q \in Applications \ disturbed'
        PROVE  Claim(desk', application'[q], made'[q], q)
    <3>1. CASE q = p
      <4>1. made[p] = {}
        <5>1. p \in Applications \ disturbed
          BY <1>0, <3>1
        <5>2. Claim(desk, application[p], made[p], p) /\ application[p].status = "none"
          BY <1>2, <5>1 DEF RegIInv, ClaimsOK, NoApplication
        <5> QED BY <2>2, <5>2 DEF Claim
      <4>2. \A k \in Desks : ~Processing(desk'[k], p)
        BY <2>1, <2>2
      <4>3. application'[p].status = "PENDING" /\ made'[p] = {}
        BY <1>0, <1>3, <1>4, <4>1
      <4> QED BY <3>1, <4>2, <4>3 DEF Claim
    <3>2. CASE q # p
      <4>1. application'[q] = application[q]
        BY <1>4, <3>2
      <4> QED BY <1>0, <2>1, <4>1 DEF RegIInv, ClaimsOK, Claim, Pending
    <3> QED BY <3>1, <3>2
  <2> QED BY <2>3 DEF ClaimsOK
<1> QED BY <1>5, <1>6, <1>7 DEF RegIInv

(* The look at the application: an undisturbed one is nobody else's.       *)
LEMMA ReadRequestOK == ASSUME RegIInv, NEW h \in Desks, ReadRequest(h) PROVE RegIInv'
<1> DEFINE q == desk[h].form
           at == IF desk[h].op = "approve" THEN "findLive" ELSE "settle"
           d == [desk[h] EXCEPT !.mail = application[q].mail, !.at = at]
<1>0. /\ desk[h] \in DeskRows /\ DeskShape(desk[h]) /\ desk[h].at = "readPending"
      /\ UNCHANGED <<person, application, made>>
  BY DEF RegIInv, RegTypeOK, DesksOK, ReadRequest, OnDesk
<1>1. /\ desk[h].op \in {"approve", "reject"} /\ q \in Applications
      /\ desk[h].account = Nobody /\ ~Unsettled(desk[h])
  BY <1>0 DEF DeskShape, DeskRows, Unsettled
<1>2. CASE Leave(h) /\ UNCHANGED disturbed
  BY <1>0, <1>1, <1>2, LeavesOn DEF Tabled
<1>3. CASE /\ Pending(q) /\ desk' = [desk EXCEPT ![h].mail = application[q].mail, ![h].at = at]
           /\ disturbed' = IF Processed(q) THEN disturbed \union {q} ELSE disturbed
  <2>1. application[q].mail \in Mails
    BY <1>1, <1>3 DEF Pending, RegIInv, RegTypeOK, ApplicationRows, NoApplication
  <2>2. /\ at \in {"findLive", "settle"}
        /\ at = "settle" <=> desk[h].op = "reject"
    BY <1>1
  <2> HIDE DEF at
  <2>3. /\ d \in DeskRows /\ d.op = desk[h].op /\ d.at = at /\ d.account = Nobody
        /\ d.form = desk[h].form /\ d.mail \in Mails
    BY <1>0, <1>1, <2>1, <2>2 DEF DeskRows
  <2>4. desk' = [desk EXCEPT ![h] = d]
    BY <1>3 DEF RegIInv, RegTypeOK
  <2> HIDE DEF d
  <2>5. DeskShape(d)
    BY <1>1, <2>2, <2>3, RegistrationAssumption DEF DeskShape, Unsettled
  <2>6. desk' \in [Desks -> DeskRows] /\ DesksOK'
    <3>1. RowsStay
      BY <1>0 DEF RowsStay
    <3>2. application'[d.form] # NoApplication
      BY <1>0, <1>1, <2>3, RegistrationAssumption DEF RegIInv, DesksOK
    <3> QED BY <2>3, <2>4, <2>5, <3>1, <3>2, DesksGo DEF RegIInv
  <2>7. RegTypeOK'
    BY <1>0, <1>1, <1>3, <2>6 DEF RegIInv, RegTypeOK
  <2>8. ClaimsOK'
    <3>1. /\ desk'[h] = d /\ \A k \in Desks \ {h} : desk'[k] = desk[k]
      BY <2>4 DEF RegIInv, RegTypeOK
    <3>2. ASSUME NEW p \in Applications
          PROVE  /\ ~Processing(desk[h], p)
                 /\ Processing(d, p) <=> p = q
                 /\ ~Unsettled(d)
      BY <1>0, <2>2, <2>3 DEF Processing, Unsettled
    <3>3. q \notin disturbed' => \A k \in Desks : ~Processing(desk[k], q)
      BY <1>3 DEF Processed, Processing
    <3>4. ASSUME NEW p \in Applications \ disturbed'
          PROVE  Claim(desk', application'[p], made'[p], p)
      <4>0. p \in Applications \ disturbed
        BY <1>3
      <4>1. CASE p = q
        <5>1. made[q] = {}
          BY <1>3, <3>3, <4>0, <4>1 DEF RegIInv, ClaimsOK, Claim, Pending
        <5>2. application'[q].status = "PENDING" /\ made'[q] = {}
          BY <1>0, <1>3, <5>1 DEF Pending
        <5>3. \A k \in Desks : Processing(desk'[k], q) <=> k = h
          BY <1>1, <3>1, <3>2, <3>3, <4>0, <4>1, <1>3
        <5> QED BY <3>1, <3>2, <4>1, <5>2, <5>3 DEF Claim
      <4>2. CASE p # q
        BY <1>0, <3>1, <3>2, <4>0, <4>2 DEF RegIInv, ClaimsOK, Claim, Pending
      <4> QED BY <4>1, <4>2
    <3> QED BY <3>4 DEF ClaimsOK
  <2> QED BY <2>6, <2>7, <2>8 DEF RegIInv
<1> QED BY <1>2, <1>3 DEF ReadRequest

LEMMA ReviveOK == ASSUME RegIInv, NEW h \in Desks, Revive(h) PROVE RegIInv'
<1> DEFINE q == desk[h].form
           a == desk[h].account
           d == [desk[h] EXCEPT !.at = "settle"]
<1>0. /\ desk[h] \in DeskRows /\ DeskShape(desk[h]) /\ desk[h].at = "revive"
      /\ UNCHANGED <<application, disturbed>>
  BY DEF RegIInv, RegTypeOK, DesksOK, Revive, OnDesk
<1>1. desk[h].op = "approve" /\ q \in Applications /\ a \in Accounts /\ ~Unsettled(desk[h])
  BY <1>0 DEF DeskShape, Unsettled
<1>2. /\ d \in DeskRows /\ d.op = "approve" /\ d.at = "settle" /\ d.account = a
      /\ d.form = q /\ d.mail = desk[h].mail
  BY <1>0, <1>1 DEF DeskRows
<1>3. desk' = [desk EXCEPT ![h] = d]
  BY DEF Revive, Proceed, RegIInv, RegTypeOK
<1>4. DeskShape(d) /\ Unsettled(d)
  BY <1>0, <1>1, <1>2, RegistrationAssumption DEF DeskShape, Unsettled
<1>5. person[a] # NoPerson
  BY <1>1, RegistrationAssumption DEF RegIInv, DesksOK
<1>6. person[a] \in Persons /\ person' = [person EXCEPT ![a].live = TRUE]
  BY <1>1, <1>5 DEF RegIInv, RegTypeOK, Revive
<1>7. made' = [made EXCEPT ![q] = @ \union {a}]
  BY <1>1, RegistrationAssumption DEF Revive, MadeFrom
<1>8. [person[a] EXCEPT !.live = TRUE] \in Persons
  BY <1>6 DEF Persons
<1>9. person' \in [Accounts -> Persons \union {NoPerson}] /\ RowsStay
  BY <1>0, <1>1, <1>6, <1>8, NoRows DEF RowsStay, RegIInv, RegTypeOK
<1> HIDE DEF d
<1>10. desk' \in [Desks -> DeskRows] /\ DesksOK'
  <2>1. d.form # Nobody => application'[d.form] # NoApplication
    BY <1>0, <1>2 DEF RegIInv, DesksOK
  <2>2. person'[d.account] # NoPerson
    BY <1>1, <1>2, <1>5, <1>9 DEF RowsStay
  <2> QED BY <1>2, <1>3, <1>4, <1>9, <2>1, <2>2, DesksGo DEF RegIInv
<1>11. RegTypeOK'
  BY <1>0, <1>1, <1>7, <1>9, <1>10 DEF RegIInv, RegTypeOK
<1>12. ClaimsOK'
  <2>1. Processing(desk[h], q)
    BY <1>0 DEF Processing
  <2> QED BY <1>0, <1>1, <1>2, <1>3, <1>4, <1>7, <2>1, ClaimsMade DEF RegIInv
<1> QED BY <1>10, <1>11, <1>12 DEF RegIInv

LEMMA CreateUserOK == ASSUME RegIInv, NEW h \in Desks, CreateUser(h) PROVE RegIInv'
<1> DEFINE q == desk[h].form
<1>0. /\ desk[h] \in DeskRows /\ DeskShape(desk[h]) /\ desk[h].at = "create"
      /\ UNCHANGED <<application, disturbed>>
  BY DEF RegIInv, RegTypeOK, DesksOK, CreateUser, OnDesk
<1>1. /\ desk[h].op \in {"approve", "adminCreate"} /\ desk[h].mail \in Mails
      /\ ~Unsettled(desk[h]) /\ desk[h].account = Nobody
      /\ q \in Applications <=> desk[h].op = "approve"
  BY <1>0 DEF DeskShape, DeskRows, Unsettled
<1>2. CASE Leave(h) /\ UNCHANGED <<person, made>>
  BY <1>0, <1>1, <1>2, LeavesOn DEF Tabled
<1>3. ASSUME NEW a \in Accounts, person[a] = NoPerson,
             person' = [person EXCEPT ![a] = [mail |-> desk[h].mail, live |-> TRUE]],
             MadeFrom(q, a),
             desk' = [desk EXCEPT ![h] = IF desk[h].op = "adminCreate" THEN NoDesk
                                         ELSE [@ EXCEPT !.at = "settle", !.account = a]]
      PROVE  RegIInv'
  <2> DEFINE row == [mail |-> desk[h].mail, live |-> TRUE]
             d == [desk[h] EXCEPT !.at = "settle", !.account = a]
  <2>1. row \in Persons
    BY <1>1 DEF Persons
  <2>2. person' = [person EXCEPT ![a] = row]
    BY <1>3
  <2> HIDE DEF row
  <2>3. person' \in [Accounts -> Persons \union {NoPerson}] /\ RowsStay /\ person'[a] # NoPerson
    BY <1>0, <2>1, <2>2, NoRows DEF RowsStay, RegIInv, RegTypeOK
  <2>4. CASE desk[h].op = "adminCreate"
    <3>1. Leave(h) /\ UNCHANGED made
      BY <1>0, <1>1, <1>3, <2>4 DEF Leave, MadeFrom, DeskRows
    <3>2. desk' \in [Desks -> DeskRows] /\ DesksOK'
      BY <2>3, <3>1, DesksLeave DEF RegIInv
    <3>3. ClaimsOK'
      BY <1>0, <1>1, <3>1, ClaimsLeave DEF RegIInv
    <3> QED BY <1>0, <2>3, <3>1, <3>2, <3>3 DEF RegIInv, RegTypeOK
  <2>5. CASE desk[h].op = "approve"
    <3>1. q \in Applications /\ made' = [made EXCEPT ![q] = @ \union {a}]
      BY <1>1, <1>3, <2>5, RegistrationAssumption DEF MadeFrom
    <3>2. /\ d \in DeskRows /\ d.op = "approve" /\ d.at = "settle" /\ d.account = a
          /\ d.form = q /\ d.mail = desk[h].mail
      BY <1>0, <2>5 DEF DeskRows
    <3>3. desk' = [desk EXCEPT ![h] = d]
      BY <1>3, <2>5
    <3> HIDE DEF d
    <3>4. DeskShape(d) /\ Unsettled(d)
      BY <1>1, <3>1, <3>2, RegistrationAssumption DEF DeskShape, Unsettled
    <3>5. desk' \in [Desks -> DeskRows] /\ DesksOK'
      <4>1. d.form # Nobody => application'[d.form] # NoApplication
        BY <1>0, <3>2 DEF RegIInv, DesksOK
      <4> QED BY <2>3, <3>2, <3>3, <3>4, <4>1, DesksGo DEF RegIInv
    <3>6. RegTypeOK'
      BY <1>0, <2>3, <3>1, <3>5 DEF RegIInv, RegTypeOK
    <3>7. ClaimsOK'
      <4>1. Processing(desk[h], q)
        BY <1>0 DEF Processing
      <4> QED BY <1>0, <1>1, <3>1, <3>2, <3>3, <3>4, <4>1, ClaimsMade DEF RegIInv
    <3> QED BY <3>5, <3>6, <3>7 DEF RegIInv
  <2> QED BY <1>1, <2>4, <2>5
<1> QED BY <1>2, <1>3 DEF CreateUser

(* The end of the processing: an undisturbed application has had no other. *)
LEMMA SettleOK == ASSUME RegIInv, NEW h \in Desks, SettleRequest(h) PROVE RegIInv'
<1> DEFINE q == desk[h].form
           status == IF desk[h].op = "approve" /\ desk[h].at = "settle"
                     THEN "APPROVED" ELSE "REJECTED"
           account == IF desk[h].account = Nobody THEN application[q].account
                      ELSE desk[h].account
           row == [application[q] EXCEPT !.status = status, !.account = account]
<1>0. /\ desk[h] \in DeskRows /\ DeskShape(desk[h]) /\ desk[h].at \in {"settle", "takenMail"}
      /\ Leave(h) /\ UNCHANGED <<person, made, disturbed>>
  BY DEF RegIInv, RegTypeOK, DesksOK, SettleRequest
<1>1. /\ q \in Applications
      /\ desk[h].account \in Accounts <=> Unsettled(desk[h])
      /\ desk[h].account \in Accounts \union {Nobody}
  BY <1>0 DEF DeskShape, DeskRows, Unsettled
<1>2. application[q] \in ApplicationRows
  BY <1>1, RegistrationAssumption DEF RegIInv, RegTypeOK, DesksOK
<1>3. /\ status \in {"APPROVED", "REJECTED"}
      /\ status = "APPROVED" <=> Unsettled(desk[h])
      /\ account \in Accounts \union {Nobody}
      /\ Unsettled(desk[h]) => account = desk[h].account
  BY <1>1, <1>2, RegistrationAssumption DEF ApplicationRows, Unsettled
<1>4. application' = [application EXCEPT ![q] = row]
  BY <1>1, <1>2 DEF SettleRequest, RegIInv, RegTypeOK, ApplicationRows
<1> HIDE DEF status, account
<1>5. row \in ApplicationRows /\ row.status = status /\ row.account = account
  BY <1>2, <1>3 DEF ApplicationRows
<1> HIDE DEF row
<1>6. RowsStay
  BY <1>0, <1>4, <1>5, NoRows DEF RowsStay, RegIInv, RegTypeOK
<1>7. desk' \in [Desks -> DeskRows] /\ DesksOK'
  BY <1>0, <1>6, DesksLeave DEF RegIInv
<1>8. RegTypeOK'
  BY <1>0, <1>4, <1>5, <1>7 DEF RegIInv, RegTypeOK
<1>9. ClaimsOK'
  <2>1. ASSUME NEW p \in Applications
        PROVE  ~Processing(desk'[h], p) /\ \A k \in Desks \ {h} : desk'[k] = desk[k]
    BY <1>0, RegistrationAssumption DEF RegIInv, RegTypeOK, Leave, NoDesk, Processing
  <2>2. ASSUME NEW p \in Applications \ disturbed'
        PROVE  Claim(desk', application'[p], made'[p], p)
    <3>0. Claim(desk, application[p], made[p], p)
      BY <1>0 DEF RegIInv, ClaimsOK
    <3>1. CASE p = q
      <4>1. Processing(desk[h], q)
        BY <1>0 DEF Processing
      <4>2. \A k \in Desks : ~Processing(desk'[k], q)
        BY <2>1, <3>0, <3>1, <4>1 DEF Claim
      <4>3. made[q] = IF Unsettled(desk[h]) THEN {desk[h].account} ELSE {}
        BY <3>0, <3>1, <4>1 DEF Claim
      <4>4. application'[q] = row /\ made'[q] = made[q]
        BY <1>0, <1>1, <1>4 DEF RegIInv, RegTypeOK
      <4>5. made'[q] = IF row.status = "APPROVED" THEN {row.account} ELSE {}
        BY <1>3, <1>5, <4>3, <4>4
      <4> QED BY <3>1, <4>2, <4>4, <4>5 DEF Claim
    <3>2. CASE p # q
      <4>1. application'[p] = application[p] /\ made'[p] = made[p]
        BY <1>0, <1>4, <3>2 DEF RegIInv, RegTypeOK
      <4>2. ~Processing(desk[h], p)
        BY <3>2 DEF Processing
      <4> QED BY <2>1, <3>0, <4>1, <4>2 DEF Claim
    <3> QED BY <3>1, <3>2
  <2> QED BY <2>2 DEF ClaimsOK
<1> QED BY <1>7, <1>8, <1>9 DEF RegIInv

LEMMA UpdateUserOK == ASSUME RegIInv, NEW h \in Desks, UpdateUser(h) PROVE RegIInv'
<1> DEFINE a == desk[h].account
<1>0. /\ desk[h] \in DeskRows /\ DeskShape(desk[h]) /\ desk[h].at = "rename"
      /\ Leave(h) /\ UNCHANGED <<application, made, disturbed>>
  BY DEF RegIInv, RegTypeOK, DesksOK, UpdateUser, OnDesk
<1>1. a \in Accounts /\ desk[h].mail \in Mails /\ ~Unsettled(desk[h])
  BY <1>0 DEF DeskShape, Unsettled
<1>2. person[a] \in Persons
  BY <1>1, RegistrationAssumption DEF RegIInv, RegTypeOK, DesksOK
<1>3. [person[a] EXCEPT !.mail = desk[h].mail] \in Persons
  BY <1>1, <1>2 DEF Persons
<1>4. person' = person \/ person' = [person EXCEPT ![a] = [person[a] EXCEPT !.mail = desk[h].mail]]
  BY <1>1 DEF UpdateUser, RegIInv, RegTypeOK
<1>5. person' \in [Accounts -> Persons \union {NoPerson}] /\ RowsStay
  BY <1>0, <1>3, <1>4, NoRows DEF RowsStay, RegIInv, RegTypeOK
<1>6. desk' \in [Desks -> DeskRows] /\ DesksOK'
  BY <1>0, <1>5, DesksLeave DEF RegIInv
<1>7. ClaimsOK'
  BY <1>0, <1>1, ClaimsLeave DEF RegIInv
<1> QED BY <1>0, <1>5, <1>6, <1>7 DEF RegIInv, RegTypeOK

LEMMA SoftDeleteOK == ASSUME RegIInv, NEW a \in Accounts, SoftDelete(a) PROVE RegIInv'
<1>0. /\ person[a].live /\ UNCHANGED <<application, desk, made, disturbed>>
      /\ person' = [person EXCEPT ![a] = [person[a] EXCEPT !.live = FALSE]]
  BY DEF SoftDelete, Alive, RegIInv, RegTypeOK
<1>1. person[a] \in Persons
  BY <1>0, NoRows DEF RegIInv, RegTypeOK
<1>2. [person[a] EXCEPT !.live = FALSE] \in Persons
  BY <1>1 DEF Persons
<1>3. person' \in [Accounts -> Persons \union {NoPerson}] /\ RowsStay
  BY <1>0, <1>2, NoRows DEF RowsStay, RegIInv, RegTypeOK
<1>4. DesksOK'
  <2>1. ASSUME NEW h \in Desks
        PROVE  /\ DeskShape(desk[h])'
               /\ desk'[h].form # Nobody => application'[desk'[h].form] # NoApplication
               /\ desk'[h].account # Nobody => person'[desk'[h].account] # NoPerson
    <3>1. desk'[h] = desk[h] /\ desk[h] \in DeskRows
      BY <1>0 DEF RegIInv, RegTypeOK
    <3>2. desk[h].account \in Accounts \union {Nobody}
      BY <3>1 DEF DeskRows
    <3>3. DeskShape(desk[h])'
      BY <3>1 DEF RegIInv, DesksOK, DeskShape, Unsettled
    <3> QED BY <1>0, <1>3, <3>1, <3>2, <3>3 DEF RegIInv, DesksOK, RowsStay
  <2> QED BY <2>1 DEF DesksOK
<1>5. ClaimsOK'
  BY <1>0 DEF RegIInv, ClaimsOK, Claim
<1> QED BY <1>0, <1>3, <1>4, <1>5 DEF RegIInv, RegTypeOK

LEMMA FailDeskOK == ASSUME RegIInv, NEW h \in Desks, FailDesk(h) PROVE RegIInv'
<1>0. /\ desk[h] \in DeskRows /\ DeskShape(desk[h])
      /\ Leave(h) /\ UNCHANGED <<person, application, made>>
      /\ disturbed' = IF desk[h].at = "settle" THEN disturbed \union {desk[h].form} ELSE disturbed
  BY DEF RegIInv, RegTypeOK, DesksOK, FailDesk
<1>1. desk[h].at = "settle" => desk[h].form \in Applications
  BY <1>0 DEF DeskShape
<1>2. desk' \in [Desks -> DeskRows] /\ DesksOK'
  BY <1>0, DesksLeave DEF RegIInv, RowsStay
<1>3. ClaimsOK'
  BY <1>0, ClaimsLeave DEF RegIInv, Unsettled
<1> QED BY <1>0, <1>1, <1>2, <1>3 DEF RegIInv, RegTypeOK

LEMMA RegStepOK == ASSUME RegIInv, [RegNext]_regVars PROVE RegIInv'
<1>1. CASE UNCHANGED regVars
  <2>1. /\ UNCHANGED <<person, application, desk, made, disturbed>>
    BY <1>1 DEF regVars
  <2>2. DesksOK'
    BY <2>1 DEF RegIInv, DesksOK, DeskShape, Unsettled
  <2>3. ClaimsOK'
    BY <2>1 DEF RegIInv, ClaimsOK, Claim
  <2> QED BY <2>1, <2>2, <2>3 DEF RegIInv, RegTypeOK
<1>2. ASSUME NEW a \in Accounts, SoftDelete(a) PROVE RegIInv'
  BY <1>2, SoftDeleteOK
<1>3. ASSUME NEW h \in Desks,
             \/ StartRegister(h) \/ StartProcess(h) \/ StartAdminCreate(h) \/ StartUpdateUser(h)
             \/ FindPendingRequest(h) \/ FindByEmail(h) \/ AssertUserExists(h) \/ FindOther(h)
      PROVE  RegIInv'
  BY <1>3, StartsOK, LooksOK
<1>4. ASSUME NEW h \in Desks,
             \/ SubmitRequest(h) \/ ReadRequest(h) \/ FindDeleted(h) \/ Revive(h)
             \/ CreateUser(h) \/ SettleRequest(h) \/ UpdateUser(h) \/ FailDesk(h)
      PROVE  RegIInv'
  BY <1>4, SubmitOK, ReadRequestOK, FindDeletedOK, ReviveOK, CreateUserOK, SettleOK,
     UpdateUserOK, FailDeskOK
<1> QED BY <1>1, <1>2, <1>3, <1>4 DEF RegNext

LEMMA RegStarts == RegInit => RegIInv
<1> SUFFICES ASSUME RegInit PROVE RegIInv
  OBVIOUS
<1>1. \A h \in Desks : desk[h] = NoDesk
  BY DEF RegInit
<1>2. RegTypeOK
  BY NoDeskOK DEF RegInit, RegTypeOK
<1>3. DesksOK
  BY <1>1, NoDeskOK DEF DesksOK, NoDesk
<1>4. ClaimsOK
  <2>1. ASSUME NEW q \in Applications
        PROVE  /\ \A h \in Desks : ~Processing(desk[h], q)
               /\ made[q] = {} /\ application[q].status = "none"
    BY <1>1, RegistrationAssumption DEF Processing, NoDesk, RegInit, NoApplication
  <2> QED BY <2>1 DEF ClaimsOK, Claim
<1> QED BY <1>2, <1>3, <1>4 DEF RegIInv

(* Types, what each handler of registrations and accounts carries at each  *)
(* of its statements, and that one handler at a time processes an          *)
(* application nobody disturbed.                                           *)
THEOREM RegInvariance == RegSpec => []RegIInv
<1>1. RegInit => RegIInv
  BY RegStarts
<1>2. RegIInv /\ [RegNext]_regVars => RegIInv'
  BY RegStepOK
<1> QED BY <1>1, <1>2, PTL DEF RegSpec

(* From an application that no two administrators processed at a time, and *)
(* whose processing did not fail half-way, exactly the account it names    *)
(* was made or revived, or none: auth.service.ts asks for the status once, *)
(* and writes the account before it notes it.                              *)
THEOREM SettledIfUndisturbed == RegSpec => []SettledUnlessDisturbed
<1>1. RegIInv => SettledUnlessDisturbed
  <2> SUFFICES ASSUME RegIInv, NEW q \in Applications \ disturbed
               PROVE  made[q] = CASE application[q].status = "APPROVED" -> {application[q].account}
                                  [] Pending(q) -> BeingMade(q)
                                  [] OTHER -> {}
    BY DEF SettledUnlessDisturbed
  <2>0. Claim(desk, application[q], made[q], q)
    BY DEF RegIInv, ClaimsOK
  <2>1. CASE \E h \in Desks : Processing(desk[h], q)
    <3>1. PICK h \in Desks : Processing(desk[h], q)
      BY <2>1
    <3>2. /\ Pending(q) /\ made[q] = IF Unsettled(desk[h]) THEN {desk[h].account} ELSE {}
          /\ \A k \in Desks : Processing(desk[k], q) => k = h
      BY <2>0, <3>1 DEF Claim, Pending
    <3>3. desk[h] \in DeskRows /\ DeskShape(desk[h])
      BY DEF RegIInv, RegTypeOK, DesksOK
    <3>4. {k \in Desks : desk[k].form = q /\ desk[k].at = "settle"}
            = IF desk[h].at = "settle" THEN {h} ELSE {}
      BY <3>1, <3>2 DEF Processing
    <3>5. desk[h].at = "settle" => desk[h].account = Nobody \/ Unsettled(desk[h])
      BY <3>3 DEF DeskShape, DeskRows, Unsettled
    <3>6. Unsettled(desk[h]) => desk[h].account # Nobody /\ desk[h].at = "settle"
      BY <3>3, RegistrationAssumption DEF DeskShape, Unsettled
    <3>7. BeingMade(q) = IF Unsettled(desk[h]) THEN {desk[h].account} ELSE {}
      BY <3>4, <3>5, <3>6 DEF BeingMade
    <3> QED BY <3>2, <3>7 DEF Pending
  <2>2. CASE \A h \in Desks : ~Processing(desk[h], q)
    <3>1. made[q] = IF application[q].status = "APPROVED" THEN {application[q].account} ELSE {}
      BY <2>0, <2>2 DEF Claim
    <3>2. BeingMade(q) = {}
      BY <2>2 DEF BeingMade, Processing
    <3> QED BY <3>1, <3>2 DEF Pending
  <2> QED BY <2>1, <2>2
<1> QED BY <1>1, RegInvariance, PTL

------------------------------------------------------------------------------
(* Rights *)

LEMMA PostRolesOK ==
  ASSUME StaffTypeOK, PostRoleStep
  PROVE  StaffTypeOK'
BY DEF StaffTypeOK, PostRoleStep, AssignRolesToPosition, RemoveRoleFromPosition, LiveRoles

LEMMA RolesOK ==
  ASSUME RightsTypeOK, RoleStep \/ UserRoleStep
  PROVE  /\ role' \in [Roles -> RoleRows \union {NoRole}]
         /\ roleCode' \subseteq Roles \X Permissions
         /\ userRole' \subseteq Users \X Roles
<1>0. /\ role \in [Roles -> RoleRows \union {NoRole}]
      /\ roleCode \subseteq Roles \X Permissions
      /\ userRole \subseteq Users \X Roles
  BY DEF RightsTypeOK
<1>1. ASSUME NEW name \in RoleNames, CreateRole(name)
      PROVE  role' \in [Roles -> RoleRows \union {NoRole}] /\ UNCHANGED <<roleCode, userRole>>
  <2>1. [name |-> name, live |-> TRUE] \in RoleRows
    BY DEF RoleRows
  <2> QED BY <1>0, <1>1, <2>1 DEF CreateRole
<1>2. ASSUME NEW r \in Roles, NEW name \in RoleNames, UpdateRole(r, name)
      PROVE  role' \in [Roles -> RoleRows \union {NoRole}] /\ UNCHANGED <<roleCode, userRole>>
  <2>1. [role[r] EXCEPT !.name = name] \in RoleRows
    BY <1>0, <1>2 DEF UpdateRole, HasRole, RoleRows
  <2> QED BY <1>0, <1>2, <2>1 DEF UpdateRole
<1>3. ASSUME NEW r \in Roles, DeleteRole(r)
      PROVE  role' \in [Roles -> RoleRows \union {NoRole}] /\ UNCHANGED <<roleCode, userRole>>
  <2>1. [role[r] EXCEPT !.live = FALSE] \in RoleRows
    BY <1>0, <1>3 DEF DeleteRole, HasRole, RoleRows
  <2> QED BY <1>0, <1>3, <2>1 DEF DeleteRole
<1>4. CASE RoleStep
  BY <1>0, <1>1, <1>2, <1>3, <1>4 DEF RoleStep, AddPermissionsToRole, RemovePermissionFromRole
<1>5. CASE UserRoleStep
  BY <1>0, <1>5 DEF UserRoleStep, AssignRolesToUser, RemoveRoleFromUser, LiveRoles
<1> QED BY <1>4, <1>5

LEMMA StaffStarts == StaffInit => StaffTypeOK
BY DEF StaffInit, StaffTypeOK

LEMMA RightsStarts == RightsInit => RightsTypeOK
<1> SUFFICES ASSUME RightsInit PROVE RightsTypeOK
  OBVIOUS
<1>1. PICK r \in Roles, name \in RoleNames :
        /\ role = [x \in Roles |-> IF x = r THEN [name |-> name, live |-> TRUE] ELSE NoRole]
        /\ roleCode = {r} \X Permissions
        /\ userRole = {<<Admin, r>>}
  BY DEF RightsInit
<1>2. [name |-> name, live |-> TRUE] \in RoleRows
  BY DEF RoleRows
<1>3. role \in [Roles -> RoleRows \union {NoRole}]
  BY <1>1, <1>2
<1>4. roleCode \subseteq Roles \X Permissions /\ userRole \subseteq Users \X Roles
  BY <1>1, RightsAssumption
<1> QED BY <1>3, <1>4 DEF RightsInit, RightsTypeOK

LEMMA RightsStepOK ==
  ASSUME RightsTypeOK, StaffTypeOK, [RightsNext]_rightsVars
  PROVE  RightsTypeOK' /\ StaffTypeOK'
<1>1. ASSUME NEW h \in Managers, Admit(h) \/ Refuse(h)
      PROVE  RightsTypeOK' /\ StaffTypeOK'
  BY <1>1 DEF Admit, Refuse, Return, RightsTypeOK, StaffTypeOK, staffVars
<1>2. ASSUME NEW h \in Managers, Manage(h)
      PROVE  RightsTypeOK' /\ StaffTypeOK'
  <2>1. admitted' \in [Managers -> ManagingCodes \union {Same}]
    BY <1>2 DEF Manage, Return, RightsTypeOK
  <2>2. CASE (RoleStep \/ UserRoleStep) /\ UNCHANGED staffVars
    BY <2>1, <2>2, RolesOK DEF RightsTypeOK, StaffTypeOK, staffVars
  <2>3. CASE (MemberStep \/ PostStep \/ PostRoleStep) /\ UNCHANGED <<role, roleCode, userRole>>
    BY <2>1, <2>3, MembersOK, PostRolesOK, PostsOK DEF RightsTypeOK
  <2> QED BY <1>2, <2>2, <2>3 DEF Manage
<1>3. CASE UNCHANGED rightsVars
  BY <1>3 DEF rightsVars, rightVars, staffVars, RightsTypeOK, StaffTypeOK
<1> QED BY <1>1, <1>2, <1>3 DEF RightsNext

(* Rows of roles, positions and memberships keep their types, and what a   *)
(* managing request has passed the guard with is a managing permission.    *)
THEOREM RightsTypes == RightsSpec => [](RightsTypeOK /\ StaffTypeOK)
<1>1. StaffInit /\ RightsInit => RightsTypeOK /\ StaffTypeOK
  BY StaffStarts, RightsStarts
<1>2. RightsTypeOK /\ StaffTypeOK /\ [RightsNext]_rightsVars => RightsTypeOK' /\ StaffTypeOK'
  BY RightsStepOK
<1> QED BY <1>1, <1>2, PTL DEF RightsSpec

(* Nobody gets a permission once nobody has one to manage with and no      *)
(* request is past the guard: what the guard of the controllers and the    *)
(* operations of rbac.service.ts can add up to starts from a permission    *)
(* that somebody has.                                                      *)
THEOREM NothingComesOfNothing == RightsSpec => NothingFromNothing
<1>1. [RightsNext]_rightsVars =>
        [LockedOut => /\ LockedOut'
                      /\ \A u \in Users : PermissionCodes(u)' = PermissionCodes(u)]_rightsVars
  <2> SUFFICES ASSUME RightsNext, LockedOut
               PROVE  LockedOut' /\ \A u \in Users : PermissionCodes(u)' = PermissionCodes(u)
    OBVIOUS
  <2>1. PICK h \in Managers : Admit(h) \/ Manage(h) \/ Refuse(h)
    BY DEF RightsNext
  <2>2. admitted[h] = Same /\ Same \notin ManagingCodes
    BY RightsAssumption DEF LockedOut
  <2>3. ~Manage(h) /\ ~Refuse(h)
    BY <2>2 DEF Manage, Refuse, ManagingCodes
  <2>4. /\ UNCHANGED <<role, roleCode, userRole, post, member, postRole>>
        /\ admitted' = admitted
    BY <2>1, <2>3 DEF Admit, LockedOut, staffVars
  <2>5. ASSUME NEW u \in Users
        PROVE  PermissionCodes(u)' = PermissionCodes(u)
    BY <2>4 DEF PermissionCodes, RolesOf, LiveRoles, LivePosts
  <2> QED BY <2>4, <2>5 DEF LockedOut
<1> QED BY <1>1, PTL DEF RightsSpec, NothingFromNothing

------------------------------------------------------------------------------
(* Events *)

(* An invitation is about somebody, and goes on from a number that is      *)
(* given, or from 0, as long as nobody was removed.                        *)
AskOK(q, removed, numbers) ==
  q.op = "add" =>
    /\ q.who # {}
    /\ q.at = "numbered" => q.last <= NumberBound /\ (removed \/ q.last \in numbers \union {0})

AsksOK == \A h \in Handlers : AskOK(eventReq[h], everRemoved, Numbers)

(* The numbers are bounded, so that there is a highest one.                *)
HighestNumber == NumberBound + Cardinality(Users)

EventIInv == EventTypeOK /\ EventsSound /\ AsksOK /\ Numbers \subseteq 1..HighestNumber

LEMMA HighestNumberOK == HighestNumber \in Nat
BY EventsAssumption, FS_CardinalityType DEF HighestNumber

LEMMA SeatedNumbers ==
  ASSUME EventTypeOK
  PROVE  /\ \A u \in Seated : seat[u] \in Seats /\ seat[u].number \in Nat \ {0}
         /\ Numbers \subseteq Nat \ {0}
         /\ Seated \in SUBSET Users /\ IsFiniteSet(Seated) /\ Cardinality(Seated) \in Nat
<1>1. Seated \in SUBSET Users
  BY DEF Seated
<1>2. \A u \in Seated : seat[u] \in Seats /\ seat[u].number \in Nat \ {0}
  BY DEF EventTypeOK, Seated, Seats
<1> QED BY <1>1, <1>2, EventsAssumption, FS_Subset, FS_CardinalityType DEF Numbers

LEMMA NoSeatIsNone == NoSeat \notin Seats
BY DEF NoSeat, Seats

LEMMA MaxNumberOK ==
  ASSUME EventTypeOK, Numbers \subseteq 1..HighestNumber
  PROVE  MaxNumber \in Nat /\ MaxNumber \in Numbers \union {0}
<1>1. CASE Numbers = {}
  BY <1>1 DEF MaxNumber
<1>2. CASE Numbers # {}
  <2>1. \E n \in Numbers : \A m \in Numbers : m <= n
    BY <1>2, GreatestOf, HighestNumberOK
  <2>2. MaxNumber \in Numbers
    BY <1>2, <2>1 DEF MaxNumber
  <2> QED BY <2>2, SeatedNumbers
<1> QED BY <1>1, <1>2

(* Numbers are given one after the other, all of them.                     *)
LEMMA NumberingsFill ==
  ASSUME NEW S, IsFiniteSet(S), NEW last \in Nat, NEW f \in Numberings(S, last)
  PROVE  {f[u] : u \in S} = (last + 1)..(last + Cardinality(S))
<1> DEFINE T == (last + 1)..(last + Cardinality(S))
<1>1. Cardinality(S) \in Nat
  BY FS_CardinalityType
<1>2. IsFiniteSet(T) /\ Cardinality(T) = Cardinality(S)
  <2> DEFINE a == last + 1
             b == last + Cardinality(S)
  <2>1. a \in Int /\ b \in Int /\ (IF a > b THEN 0 ELSE b - a + 1) = Cardinality(S)
    BY <1>1
  <2> HIDE DEF a, b
  <2>2. IsFiniteSet(a..b) /\ Cardinality(a..b) = IF a > b THEN 0 ELSE b - a + 1
    BY <2>1, FS_Interval
  <2> QED BY <2>1, <2>2 DEF a, b
<1> HIDE DEF T
<1>3. f \in [S -> T] /\ \A u, v \in S : f[u] = f[v] => u = v
  BY DEF Numberings, T
<1>4. f \in Injection(S, T)
  BY <1>3 DEF Injection, IsInjective
<1>5. f \in Surjection(S, T)
  BY <1>2, <1>4, FS_Injection
<1>6. {f[u] : u \in S} = T
  BY <1>3, <1>5 DEF Surjection
<1> QED BY <1>6 DEF T

(* A request goes on or ends, the participants staying as they are.        *)
LEMMA AskGoes ==
  ASSUME EventIInv, NEW h \in Handlers, NEW q \in EventReqs,
         eventReq' = [eventReq EXCEPT ![h] = q], UNCHANGED <<seat, everRemoved>>,
         AskOK(q, everRemoved, Numbers)
  PROVE  /\ eventReq' \in [Handlers -> EventReqs]
         /\ AsksOK' /\ NumbersSound' /\ Numbers' \subseteq 1..HighestNumber
<1>1. eventReq \in [Handlers -> EventReqs]
  BY DEF EventIInv, EventTypeOK
<1>2. Numbers' = Numbers /\ Seated' = Seated
  BY DEF Numbers, Seated
<1>3. NumbersSound'
  BY <1>2 DEF EventIInv, EventsSound, NumbersSound
<1>4. \A k \in Handlers : AskOK(eventReq'[k], everRemoved, Numbers)
  BY <1>1 DEF EventIInv, AsksOK
<1> QED BY <1>1, <1>2, <1>3, <1>4 DEF EventIInv, AsksOK, AskOK

LEMMA NoEventReqOK ==
  NoEventReq \in EventReqs /\ \A removed, numbers : AskOK(NoEventReq, removed, numbers)
BY DEF NoEventReq, EventReqs, AskOK

(* ...and the event, too.                                                  *)
LEMMA AskGoesOn ==
  ASSUME EventIInv, NEW h \in Handlers, NEW q \in EventReqs,
         eventReq' = [eventReq EXCEPT ![h] = q],
         UNCHANGED <<event, seat, timesRaced, everRemoved>>,
         AskOK(q, everRemoved, Numbers)
  PROVE  EventIInv'
<1>1. /\ eventReq' \in [Handlers -> EventReqs]
      /\ AsksOK' /\ NumbersSound' /\ Numbers' \subseteq 1..HighestNumber
  BY AskGoes
<1>2. HighestNumber' = HighestNumber
  BY DEF HighestNumber
<1> QED BY <1>1, <1>2 DEF EventIInv, EventTypeOK, EventsSound, OrderedUnlessRaced

LEMMA EventRequestOK ==
  ASSUME EventIInv, NEW h \in Handlers, EventRequest(h)
  PROVE  EventIInv'
<1>1. ASSUME NEW op \in {"update", "delete", "add", "remove", "confirm"}, NEW S \in SUBSET Users,
             NEW from \in Times \union {Unchanged}, NEW to \in Times \union {Unchanged},
             NEW answer \in BOOLEAN, op = "add" => S # {},
             AssertEvent(h, op, S, from, to, answer)
      PROVE  EventIInv'
  <2> DEFINE q == [op |-> op, at |-> "allowed", who |-> S, from |-> from, to |-> to,
                   start |-> event.start, end |-> event.end, last |-> 0, answer |-> answer]
  <2>0. UNCHANGED <<event, seat, timesRaced, everRemoved>>
    BY <1>1 DEF AssertEvent
  <2>1. event.start \in Nat /\ event.end \in Nat
    BY EventsAssumption DEF EventIInv, EventTypeOK
  <2>2. q \in EventReqs /\ q.op = op /\ q.at = "allowed" /\ q.who = S
    BY <2>1 DEF EventReqs
  <2>3. eventReq' = eventReq \/ eventReq' = [eventReq EXCEPT ![h] = q]
    BY <1>1 DEF AssertEvent
  <2> HIDE DEF q
  <2>4. AskOK(q, everRemoved, Numbers)
    BY <1>1, <2>2 DEF AskOK
  <2>5. CASE eventReq' = eventReq
    <3>1. eventReq' = [eventReq EXCEPT ![h] = eventReq[h]] /\ eventReq[h] \in EventReqs
      BY <2>5 DEF EventIInv, EventTypeOK
    <3> QED BY <2>0, <3>1, AskGoesOn DEF EventIInv, AsksOK
  <2>6. CASE eventReq' = [eventReq EXCEPT ![h] = q]
    BY <2>0, <2>2, <2>4, <2>6, AskGoesOn
  <2> QED BY <2>3, <2>5, <2>6
<1>2. CASE \E from, to \in Times \union {Unchanged} : AssertEvent(h, "update", {}, from, to, FALSE)
  BY <1>1, <1>2
<1>3. CASE AssertEvent(h, "delete", {}, Unchanged, Unchanged, FALSE)
  BY <1>1, <1>3
<1>4. CASE \E S \in (SUBSET Users) \ {{}} : AssertEvent(h, "add", S, Unchanged, Unchanged, FALSE)
  <2>1. PICK S \in (SUBSET Users) \ {{}} : AssertEvent(h, "add", S, Unchanged, Unchanged, FALSE)
    BY <1>4
  <2>2. S \in SUBSET Users /\ S # {}
    BY <2>1
  <2>3. ASSUME NEW from \in Times \union {Unchanged}, NEW to \in Times \union {Unchanged},
               NEW answer \in BOOLEAN, AssertEvent(h, "add", S, from, to, answer)
        PROVE  EventIInv'
    BY <1>1, <2>2, <2>3
  <2> QED BY <2>1, <2>3
<1>5. CASE \E u \in Users : AssertEvent(h, "remove", {u}, Unchanged, Unchanged, FALSE)
  BY <1>1, <1>5
<1>6. CASE \E u \in Users, answer \in BOOLEAN :
             AssertEvent(h, "confirm", {u}, Unchanged, Unchanged, answer)
  BY <1>1, <1>6
<1> QED BY <1>2, <1>3, <1>4, <1>5, <1>6 DEF EventRequest

(* updateEvent compares the times it has read, and deleteEvent none.       *)
LEMMA EventChangesOK ==
  ASSUME EventIInv, NEW h \in Handlers, UpdateEvent(h) \/ DeleteEvent(h)
  PROVE  EventIInv'
<1> DEFINE q == eventReq[h]
<1>1. /\ eventReq' = [eventReq EXCEPT ![h] = NoEventReq] /\ UNCHANGED <<seat, everRemoved>>
      /\ eventReq' \in [Handlers -> EventReqs]
      /\ AsksOK' /\ NumbersSound' /\ Numbers' \subseteq 1..HighestNumber
  <2>1. eventReq' = [eventReq EXCEPT ![h] = NoEventReq] /\ UNCHANGED <<seat, everRemoved>>
    BY DEF UpdateEvent, DeleteEvent, FinishEvent
  <2> QED BY <2>1, AskGoes, NoEventReqOK
<1>2. q \in EventReqs /\ event \in [deleted : BOOLEAN, start : Times, end : Times]
  BY DEF EventIInv, EventTypeOK
<1>3. /\ event' \in [deleted : BOOLEAN, start : Times, end : Times]
      /\ timesRaced' \in BOOLEAN /\ OrderedUnlessRaced'
  <2>1. CASE DeleteEvent(h)
    BY <1>2, <2>1 DEF DeleteEvent, EventIInv, EventTypeOK, EventsSound, OrderedUnlessRaced
  <2>2. CASE UpdateEvent(h) /\ ~OrderedWhenMerged(q)
    BY <1>2, <2>2 DEF UpdateEvent, EventIInv, EventTypeOK, EventsSound, OrderedUnlessRaced
  <2>3. CASE UpdateEvent(h) /\ OrderedWhenMerged(q)
    <3> DEFINE start == Merged(q.from, event.start)
               end == Merged(q.to, event.end)
    <3>1. /\ event' = [event EXCEPT !.start = start, !.end = end]
          /\ timesRaced' = (timesRaced \/ event.start # q.start \/ event.end # q.end)
      BY <2>3 DEF UpdateEvent
    <3>2. start \in Times /\ end \in Times
      BY <1>2, EventsAssumption DEF Merged, EventReqs
    <3>3. ~timesRaced' => start < end
      BY <2>3, <3>1 DEF OrderedWhenMerged, Merged, EventIInv, EventTypeOK
    <3> HIDE DEF start, end
    <3>4. event' \in [deleted : BOOLEAN, start : Times, end : Times]
          /\ event'.start = start /\ event'.end = end
      BY <1>2, <3>1, <3>2
    <3> QED BY <3>1, <3>3, <3>4 DEF OrderedUnlessRaced, EventIInv, EventTypeOK
  <2> QED BY <2>1, <2>2, <2>3
<1> QED BY <1>1, <1>3 DEF EventIInv, EventTypeOK, EventsSound, HighestNumber

LEMMA EventReadsOK ==
  ASSUME EventIInv, NEW h \in Handlers, ReadSeated(h) \/ ReadMaxNumber(h) \/ ReadSeat(h)
  PROVE  EventIInv'
<1> DEFINE q == eventReq[h]
<1>0. /\ UNCHANGED <<event, seat, timesRaced, everRemoved>> /\ q \in EventReqs
      /\ AskOK(q, everRemoved, Numbers) /\ everRemoved \in BOOLEAN
      /\ eventReq \in [Handlers -> EventReqs]
  BY DEF ReadSeated, ReadMaxNumber, ReadSeat, EventIInv, EventTypeOK, AsksOK
<1>1. CASE FinishEvent(h)
  BY <1>0, <1>1, AskGoesOn, NoEventReqOK DEF FinishEvent
<1>2. CASE ReadSeated(h) /\ ~FinishEvent(h)
  <2> DEFINE toAdd == q.who \ Seated
             d == [q EXCEPT !.at = "read", !.who = toAdd]
  <2>1. toAdd # {} /\ eventReq' = [eventReq EXCEPT ![h] = d]
    BY <1>0, <1>2 DEF ReadSeated
  <2>2. toAdd \in SUBSET Users
    BY <1>0 DEF EventReqs
  <2> HIDE DEF toAdd
  <2>3. d \in EventReqs /\ d.at = "read" /\ d.who = toAdd
    BY <1>0, <2>2 DEF EventReqs
  <2> HIDE DEF d
  <2>4. AskOK(d, everRemoved, Numbers)
    BY <2>1, <2>3 DEF AskOK
  <2> QED BY <1>0, <2>1, <2>3, <2>4, AskGoesOn
<1>3. CASE ReadMaxNumber(h) /\ ~FinishEvent(h)
  <2> DEFINE d == [q EXCEPT !.at = "numbered", !.last = MaxNumber]
  <2>1. ~(MaxNumber > NumberBound) /\ eventReq' = [eventReq EXCEPT ![h] = d] /\ q.op = "add"
    BY <1>0, <1>3 DEF ReadMaxNumber
  <2>2. MaxNumber \in Nat /\ MaxNumber \in Numbers \union {0}
    BY MaxNumberOK DEF EventIInv
  <2>3. /\ d \in EventReqs /\ d.op = "add" /\ d.at = "numbered" /\ d.last = MaxNumber
        /\ d.who = q.who
    BY <1>0, <2>1, <2>2 DEF EventReqs
  <2> HIDE DEF d
  <2>4. AskOK(d, everRemoved, Numbers)
    BY <1>0, <2>1, <2>2, <2>3, EventsAssumption DEF AskOK
  <2> QED BY <1>0, <2>1, <2>3, <2>4, AskGoesOn
<1>4. CASE ReadSeat(h) /\ ~FinishEvent(h)
  <2> DEFINE d == [q EXCEPT !.at = "read"]
  <2>1. eventReq' = [eventReq EXCEPT ![h] = d] /\ q.op # "add"
    BY <1>0, <1>4 DEF ReadSeat
  <2>2. d \in EventReqs /\ d.op = q.op
    BY <1>0 DEF EventReqs
  <2> HIDE DEF d
  <2> QED BY <1>0, <2>1, <2>2, AskGoesOn DEF AskOK
<1> QED BY <1>1, <1>2, <1>3, <1>4

(* A statement that writes participants and ends its request.              *)
LEMMA SeatsWritten ==
  ASSUME EventIInv, NEW h \in Handlers, FinishEvent(h), UNCHANGED <<event, timesRaced>>,
         seat' \in [Users -> Seats \union {NoSeat}], everRemoved' \in BOOLEAN,
         NumbersSound', Numbers' \subseteq 1..HighestNumber,
         everRemoved' \/ (~everRemoved /\ Numbers \subseteq Numbers')
                      \/ (everRemoved' = everRemoved /\ Numbers' = Numbers)
  PROVE  EventIInv'
<1>1. eventReq \in [Handlers -> EventReqs] /\ eventReq' = [eventReq EXCEPT ![h] = NoEventReq]
  BY DEF FinishEvent, EventIInv, EventTypeOK
<1>2. eventReq' \in [Handlers -> EventReqs]
  BY <1>1, NoEventReqOK
<1>3. ASSUME NEW k \in Handlers
      PROVE  AskOK(eventReq'[k], everRemoved', Numbers')
  <2>1. CASE k = h
    BY <1>1, <2>1, NoEventReqOK
  <2>2. CASE k # h
    <3>1. eventReq'[k] = eventReq[k] /\ AskOK(eventReq[k], everRemoved, Numbers)
      BY <1>1, <2>2 DEF EventIInv, AsksOK
    <3> QED BY <3>1 DEF AskOK
  <2> QED BY <2>1, <2>2
<1>4. AsksOK'
  BY <1>3 DEF AsksOK, AskOK
<1> QED BY <1>2, <1>4 DEF EventIInv, EventTypeOK, EventsSound, OrderedUnlessRaced, HighestNumber

LEMMA InsertSeatsOK ==
  ASSUME EventIInv, NEW h \in Handlers, InsertSeats(h)
  PROVE  EventIInv'
<1> DEFINE q == eventReq[h]
           S == q.who
           last == q.last
           new == (last + 1)..(last + Cardinality(S))
<1>0. /\ FinishEvent(h) /\ UNCHANGED <<event, timesRaced, everRemoved>>
      /\ q \in EventReqs /\ AskOK(q, everRemoved, Numbers) /\ q.op = "add" /\ q.at = "numbered"
      /\ seat \in [Users -> Seats \union {NoSeat}] /\ everRemoved \in BOOLEAN
  BY DEF InsertSeats, EventIInv, EventTypeOK, AsksOK
<1>1. CASE Conflicts(q)
  <2>1. seat' = seat
    BY <1>1 DEF InsertSeats
  <2>2. Numbers' = Numbers /\ Seated' = Seated
    BY <2>1 DEF Numbers, Seated
  <2>3. NumbersSound'
    BY <1>0, <2>1, <2>2 DEF EventIInv, EventsSound, NumbersSound
  <2> QED BY <1>0, <2>1, <2>2, <2>3, SeatsWritten DEF EventIInv
<1>2. CASE ~Conflicts(q)
  <2>1. PICK f \in Numberings(S, last) :
          seat' = [u \in Users |-> IF u \in S THEN [number |-> f[u], confirmed |-> FALSE]
                                   ELSE seat[u]]
    BY <1>2 DEF InsertSeats
  <2>2. /\ S \in SUBSET Users /\ IsFiniteSet(S) /\ Cardinality(S) \in Nat /\ S # {}
        /\ Cardinality(S) <= Cardinality(Users) /\ Cardinality(Users) \in Nat
        /\ last \in Nat /\ last <= NumberBound
    <3>1. S \in SUBSET Users /\ S # {} /\ last \in Nat /\ last <= NumberBound
      BY <1>0 DEF EventReqs, AskOK
    <3> QED BY <3>1, FS_Subset, FS_CardinalityType, EventsAssumption
  <2>3. /\ S \intersect Seated = {} /\ new \intersect Numbers = {}
    BY <1>2, <2>2, SeatedNumbers DEF Conflicts, EventIInv
  <2>4. {f[u] : u \in S} = new /\ \A u, v \in S : f[u] = f[v] => u = v
    <3>1. {f[u] : u \in S} = new
      BY <2>2, NumberingsFill
    <3> QED BY <3>1 DEF Numberings
  <2>5. ASSUME NEW u \in S
        PROVE  seat'[u] \in Seats /\ seat'[u].number = f[u] /\ f[u] \in new
    <3>1. f[u] \in new /\ f[u] \in Nat \ {0}
      BY <2>2, <2>4
    <3>2. seat'[u] = [number |-> f[u], confirmed |-> FALSE]
      BY <2>1, <2>2
    <3> QED BY <3>1, <3>2 DEF Seats
  <2>6. \A u \in Users \ S : seat'[u] = seat[u]
    BY <2>1
  <2>7. seat' \in [Users -> Seats \union {NoSeat}]
    BY <1>0, <2>1, <2>5, <2>6
  <2>8. Seated' = Seated \union S
    BY <2>2, <2>5, <2>6, NoSeatIsNone DEF Seated
  <2>9. Numbers' = Numbers \union new
    <3>1. Numbers' = {seat'[u].number : u \in Seated \union S}
      BY <2>8 DEF Numbers
    <3>2. \A u \in Seated : seat'[u] = seat[u]
      BY <2>3, <2>6, SeatedNumbers DEF EventIInv
    <3> QED BY <2>4, <2>5, <3>1, <3>2 DEF Numbers
  <2>10. Numbers' \subseteq 1..HighestNumber
    <3>1. new \subseteq 1..HighestNumber
      BY <2>2, EventsAssumption DEF HighestNumber
    <3> QED BY <2>9, <3>1 DEF EventIInv
  <2>11. \A u, v \in Seated' : seat'[u].number = seat'[v].number => u = v
    <3>1. \A u \in Seated : seat'[u] = seat[u] /\ seat[u].number \in Numbers
      BY <2>3, <2>6, SeatedNumbers DEF EventIInv, Numbers
    <3>2. \A u, v \in Seated : seat[u].number = seat[v].number => u = v
      BY DEF EventIInv, EventsSound, NumbersSound
    <3> QED BY <2>3, <2>4, <2>5, <2>8, <3>1, <3>2
  <2>12. ~everRemoved => Numbers' = 1..Cardinality(Seated')
    <3> SUFFICES ASSUME ~everRemoved PROVE Numbers' = 1..Cardinality(Seated')
      OBVIOUS
    <3> DEFINE c == Cardinality(Seated)
    <3>1. /\ Numbers = 1..c /\ c \in Nat /\ IsFiniteSet(Seated)
          /\ last \in Numbers \union {0}
      BY <1>0, SeatedNumbers DEF EventIInv, EventsSound, NumbersSound, AskOK
    <3>2. Cardinality(S) # 0
      BY <2>2, FS_EmptySet
    <3>3. last = c
      <4>1. last <= c
        BY <2>2, <3>1
      <4>2. last + 1 \in new
        BY <2>2, <3>2
      <4>3. ~(last + 1 \in 1..c)
        BY <2>3, <3>1, <4>2
      <4> QED BY <2>2, <3>1, <4>1, <4>3
    <3>4. Cardinality(Seated') = c + Cardinality(S)
      <4>1. Seated \intersect S = {} /\ Cardinality(Seated \intersect S) = 0
        BY <2>3, FS_EmptySet
      <4>2. Cardinality(Seated \union S)
              = Cardinality(Seated) + Cardinality(S) - Cardinality(Seated \intersect S)
        BY <2>2, <3>1, FS_Union
      <4> QED BY <2>2, <2>8, <3>1, <4>1, <4>2
    <3> QED BY <2>2, <2>9, <3>1, <3>3, <3>4
  <2>13. NumbersSound'
    BY <1>0, <2>11, <2>12 DEF NumbersSound
  <2>14. Numbers \subseteq Numbers'
    BY <2>9
  <2> QED BY <1>0, <2>7, <2>10, <2>13, <2>14, SeatsWritten
<1> QED BY <1>1, <1>2

LEMMA RemoveSeatOK ==
  ASSUME EventIInv, NEW h \in Handlers, RemoveSeat(h)
  PROVE  EventIInv'
<1>0. /\ FinishEvent(h) /\ UNCHANGED <<event, timesRaced>> /\ everRemoved' = TRUE
      /\ seat \in [Users -> Seats \union {NoSeat}]
      /\ seat' = [u \in Users |-> IF u \in eventReq[h].who THEN NoSeat ELSE seat[u]]
  BY DEF RemoveSeat, EventIInv, EventTypeOK
<1>1. seat' \in [Users -> Seats \union {NoSeat}]
  BY <1>0
<1>2. Seated' \subseteq Seated /\ \A u \in Seated' : seat'[u] = seat[u]
  BY <1>0 DEF Seated
<1>3. Numbers' \subseteq Numbers
  BY <1>2 DEF Numbers
<1>4. NumbersSound'
  <2>1. \A u, v \in Seated : seat[u].number = seat[v].number => u = v
    BY DEF EventIInv, EventsSound, NumbersSound
  <2> QED BY <1>0, <1>2, <2>1 DEF NumbersSound
<1> QED BY <1>0, <1>1, <1>3, <1>4, SeatsWritten DEF EventIInv

LEMMA ConfirmSeatOK ==
  ASSUME EventIInv, NEW h \in Handlers, ConfirmSeat(h)
  PROVE  EventIInv'
<1> DEFINE q == eventReq[h]
<1>0. /\ FinishEvent(h) /\ UNCHANGED <<event, timesRaced, everRemoved>>
      /\ seat \in [Users -> Seats \union {NoSeat}] /\ q.answer \in BOOLEAN
      /\ everRemoved \in BOOLEAN
      /\ seat' = [u \in Users |-> IF u \in q.who /\ u \in Seated
                                  THEN [seat[u] EXCEPT !.confirmed = q.answer] ELSE seat[u]]
  BY DEF ConfirmSeat, EventIInv, EventTypeOK, EventReqs
<1>1. ASSUME NEW u \in Seated
      PROVE  seat'[u] \in Seats /\ seat'[u].number = seat[u].number
  <2>1. seat[u] \in Seats /\ u \in Users
    BY SeatedNumbers DEF EventIInv
  <2>2. /\ [seat[u] EXCEPT !.confirmed = q.answer] \in Seats
        /\ [seat[u] EXCEPT !.confirmed = q.answer].number = seat[u].number
    BY <1>0, <2>1 DEF Seats
  <2> QED BY <1>0, <2>1, <2>2
<1>2. \A u \in Users \ Seated : seat'[u] = seat[u] /\ seat[u] = NoSeat
  BY <1>0 DEF Seated
<1>3. seat' \in [Users -> Seats \union {NoSeat}]
  BY <1>0, <1>1, <1>2
<1>4. Seated' = Seated
  BY <1>1, <1>2, NoSeatIsNone DEF Seated
<1>5. Numbers' = Numbers
  BY <1>1, <1>4 DEF Numbers
<1>6. NumbersSound'
  <2>1. \A u, v \in Seated : seat[u].number = seat[v].number => u = v
    BY DEF EventIInv, EventsSound, NumbersSound
  <2>2. ~everRemoved => Numbers = 1..Cardinality(Seated)
    BY DEF EventIInv, EventsSound, NumbersSound
  <2>3. \A u, v \in Seated' : seat'[u].number = seat'[v].number => u = v
    BY <1>1, <1>4, <2>1
  <2>4. ~everRemoved' => Numbers' = 1..Cardinality(Seated')
    BY <1>0, <1>4, <1>5, <2>2
  <2> QED BY <2>3, <2>4 DEF NumbersSound
<1> QED BY <1>0, <1>3, <1>5, <1>6, SeatsWritten DEF EventIInv

LEMMA EventStepOK == ASSUME EventIInv, [EventNext]_eventVars PROVE EventIInv'
<1>1. CASE UNCHANGED eventVars
  <2>1. UNCHANGED <<event, seat, eventReq, timesRaced, everRemoved>>
    BY <1>1 DEF eventVars
  <2>2. Numbers' = Numbers /\ Seated' = Seated
    BY <2>1 DEF Numbers, Seated
  <2>3. AsksOK' /\ NumbersSound'
    BY <2>1, <2>2 DEF EventIInv, AsksOK, AskOK, EventsSound, NumbersSound
  <2> QED BY <2>1, <2>2, <2>3 DEF EventIInv, EventTypeOK, EventsSound, OrderedUnlessRaced, HighestNumber
<1>2. ASSUME NEW h \in Handlers, EventStep(h) PROVE EventIInv'
  BY <1>2, EventRequestOK, EventChangesOK, EventReadsOK, InsertSeatsOK, RemoveSeatOK, ConfirmSeatOK
     DEF EventStep
<1> QED BY <1>1, <1>2 DEF EventNext

LEMMA EventStarts == EventInit => EventIInv
<1> SUFFICES ASSUME EventInit PROVE EventIInv
  OBVIOUS
<1>1. Seated = {} /\ Numbers = {} /\ Cardinality(Seated) = 0
  <2>1. Seated = {}
    BY DEF EventInit, Seated
  <2> QED BY <2>1, FS_EmptySet DEF Numbers
<1>2. EventTypeOK
  BY NoEventReqOK DEF EventInit, EventTypeOK
<1>3. NumbersSound
  BY <1>1 DEF NumbersSound
<1>4. AsksOK
  BY NoEventReqOK DEF EventInit, AsksOK
<1> QED BY <1>1, <1>2, <1>3, <1>4 DEF EventIInv, EventsSound, OrderedUnlessRaced, EventInit

(* An event's times are in order unless an update has written over times   *)
(* that had changed since it read them; no two guests have one number, and *)
(* until somebody is removed there is no gap.  The transaction of          *)
(* addParticipants relies on the unique key for this: the highest number   *)
(* it has read may be given again before it inserts.                       *)
THEOREM EventsAreSound == EventSpec => []EventsSound
<1>1. EventInit => EventIInv
  BY EventStarts
<1>2. EventIInv /\ [EventNext]_eventVars => EventIInv'
  BY EventStepOK
<1>3. EventIInv => EventsSound
  BY DEF EventIInv
<1> QED BY <1>1, <1>2, <1>3, PTL DEF EventSpec

------------------------------------------------------------------------------
(* Tasks *)

(* A handler that is about to write a status has checked the row it read.  *)
ChecksOK ==
  \A h \in Handlers :
    (taskReq[h].op \in {"work", "review"} /\ taskReq[h].at = "read") =>
      /\ taskReq[h].read \in Assignees
      /\ StepAllowed(taskReq[h].op, taskReq[h].want, taskReq[h].read)
      /\ taskReq[h].op = "work" => taskReq[h].want \in WorkStatus
      /\ taskReq[h].op = "review" => taskReq[h].want \in ReviewStatus

(* The status a handler asks for is one of its own table.                  *)
WantsOK ==
  \A h \in Handlers :
    /\ taskReq[h].op = "work" => taskReq[h].want \in WorkStatus
    /\ taskReq[h].op = "review" => taskReq[h].want \in ReviewStatus

TaskIInv == TaskTypeOK /\ WantsOK /\ ChecksOK /\ LegalUnlessOverwritten

------------------------------------------------------------------------------
(* The rows of the table are the records of Assignees; no row is absent.   *)
LEMMA UnassignedIsNoRow == Unassigned \notin Assignees
BY DEF Unassigned, Assignees, WorkStatus

LEMMA NewAssigneeIsLegal == NewAssignee \in Assignees /\ Legal(NewAssignee)
BY DEF NewAssignee, Assignees, WorkStatus, ReviewStatus, Legal

(* A step a table allows leads from a row to a row.                        *)
LEMMA MovedIsRow ==
  ASSUME NEW p \in Assignees, NEW op, NEW want, NEW rating,
         op = "work" => want \in WorkStatus, op # "work" => want \in ReviewStatus
  PROVE  Moved(op, want, rating, p) \in Assignees
BY DEF Moved, Assignees

(* A step a table allows leads from a legal row to a legal row.            *)
LEMMA MovedIsLegal ==
  ASSUME NEW p \in Assignees, NEW op \in {"work", "review"}, NEW want, NEW rating,
         StepAllowed(op, want, p), Legal(p)
  PROVE  Legal(Moved(op, want, rating, p))
<1>1. CASE op = "work"
  <2>1. want \in WorkSteps(p.work)
    BY <1>1 DEF StepAllowed
  <2>2. p.work # "SUBMITTED"
    BY <2>1 DEF WorkSteps
  <2>3. p.review = "PENDING" /\ ~p.rated /\ ~p.submitted
    BY <2>2 DEF Legal, Assignees
  <2> DEFINE m == Moved(op, want, rating, p)
  <2>4. m.work = want /\ m.review = p.review /\ m.rated = p.rated
        /\ m.submitted = (p.submitted \/ want = "SUBMITTED")
    BY <1>1 DEF Moved, Assignees
  <2> QED BY <2>3, <2>4 DEF Legal
<1>2. CASE op = "review"
  <2>1. p.work = "SUBMITTED" /\ want \in ReviewSteps(p.review)
    BY <1>2 DEF StepAllowed
  <2>2. want # "PENDING" /\ p.submitted
    BY <2>1 DEF ReviewSteps, Legal
  <2> DEFINE m == Moved(op, want, rating, p)
  <2>3. m.work = p.work /\ m.review = want /\ m.submitted = p.submitted
    BY <1>2 DEF Moved, Assignees
  <2> QED BY <2>1, <2>2, <2>3 DEF Legal
<1> QED BY <1>1, <1>2

------------------------------------------------------------------------------
LEMMA NoRequestTyped == NoTaskReq \in TaskReqs
BY DEF NoTaskReq, TaskReqs, Ratings

LEMMA TaskInitOK == TaskInit => TaskIInv
<1> SUFFICES ASSUME TaskInit PROVE TaskIInv
  OBVIOUS
<1>1. TaskTypeOK
  BY NoRequestTyped DEF TaskInit, TaskTypeOK
<1>2. \A h \in Handlers : taskReq[h].op = "none"
  BY DEF TaskInit, NoTaskReq
<1>3. WantsOK /\ ChecksOK
  BY <1>2 DEF WantsOK, ChecksOK
<1>4. LegalUnlessOverwritten
  BY DEF TaskInit, LegalUnlessOverwritten, Assigned
<1> QED BY <1>1, <1>3, <1>4 DEF TaskIInv

(* A handler that finishes leaves what is known of the requests.           *)
LEMMA TaskFinishOK ==
  ASSUME TaskIInv, NEW h \in Handlers, FinishTask(h)
  PROVE  taskReq' \in [Handlers -> TaskReqs] /\ WantsOK' /\ ChecksOK'
BY NoRequestTyped DEF FinishTask, TaskIInv, TaskTypeOK, WantsOK, ChecksOK, NoTaskReq

(* Requests: every one carries a status of its own table.                  *)
LEMMA TaskAssertOK ==
  ASSUME TaskIInv, NEW h \in Handlers, NEW op \in {"add", "remove", "work", "review", "delete"},
         NEW S \in SUBSET Users, NEW want, NEW rating \in Ratings,
         want \in WorkStatus \union ReviewStatus \union {"none"},
         op = "work" => want \in WorkStatus, op = "review" => want \in ReviewStatus,
         AssertTask(h, op, S, want, rating)
  PROVE  TaskIInv'
<1> DEFINE q == [op |-> op, at |-> "allowed", who |-> S, want |-> want,
                 rating |-> rating, read |-> Unassigned]
<1>1. q \in TaskReqs
  BY DEF TaskReqs
<1>2. q.op = op /\ q.at = "allowed" /\ q.want = want
  OBVIOUS
<1> HIDE DEF q
<1>3. taskReq' = taskReq \/ taskReq' = [taskReq EXCEPT ![h] = q]
  BY DEF AssertTask, q
<1>4. UNCHANGED <<taskDeleted, assignee, overwritten>>
  BY DEF AssertTask
<1>5. taskReq' \in [Handlers -> TaskReqs] /\ WantsOK' /\ ChecksOK'
  BY <1>1, <1>2, <1>3 DEF TaskIInv, TaskTypeOK, WantsOK, ChecksOK
<1> QED BY <1>4, <1>5 DEF TaskIInv, TaskTypeOK, LegalUnlessOverwritten, Assigned

LEMMA TaskRequestOK == ASSUME TaskIInv, NEW h \in Handlers, TaskRequest(h) PROVE TaskIInv'
<1>1. ASSUME NEW S \in (SUBSET Users) \ {{}}, AssertTask(h, "add", S, "none", "keep") PROVE TaskIInv'
  BY <1>1, TaskAssertOK DEF Ratings
<1>2. ASSUME NEW u \in Users, AssertTask(h, "remove", {u}, "none", "keep") PROVE TaskIInv'
  BY <1>2, TaskAssertOK DEF Ratings
<1>3. ASSUME NEW u \in Users, NEW s \in WorkStatus, AssertTask(h, "work", {u}, s, "keep")
      PROVE  TaskIInv'
  BY <1>3, TaskAssertOK DEF Ratings
<1>4. ASSUME NEW u \in Users, NEW s \in ReviewStatus, NEW r \in Ratings,
             AssertTask(h, "review", {u}, s, r)
      PROVE  TaskIInv'
  BY <1>4, TaskAssertOK
<1>5. ASSUME AssertTask(h, "delete", {}, "none", "keep") PROVE TaskIInv'
  BY <1>5, TaskAssertOK DEF Ratings
<1> QED BY <1>1, <1>2, <1>3, <1>4, <1>5 DEF TaskRequest

(* The rows of a set of users become new rows, or stay.                    *)
LEMMA TaskAssignOK ==
  ASSUME TaskIInv, NEW S \in SUBSET Users, Assign(S)
  PROVE  /\ assignee' \in [Users -> Assignees \union {Unassigned}]
         /\ overwritten' \in [Users -> BOOLEAN]
         /\ LegalUnlessOverwritten'
BY NewAssigneeIsLegal DEF Assign, TaskIInv, TaskTypeOK, LegalUnlessOverwritten, Assigned

------------------------------------------------------------------------------
(* Every step of a handler preserves the invariant.                        *)
LEMMA TaskStepOK == ASSUME TaskIInv, NEW h \in Handlers, TaskStep(h) PROVE TaskIInv'
<1> USE DEF TaskIInv
<1>0. taskReq[h] \in TaskReqs
  BY DEF TaskTypeOK
<1>1. CASE TaskRequest(h)
  BY <1>1, TaskRequestOK
<1>2. CASE DeleteTask(h)
  BY <1>2, TaskFinishOK DEF DeleteTask, TaskTypeOK, LegalUnlessOverwritten, Assigned
<1>3. CASE ReadAssigned(h)
  <2> DEFINE toAdd == {u \in taskReq[h].who : ~Assigned(u)}
             q == [taskReq[h] EXCEPT !.at = "read", !.who = toAdd]
  <2>1. toAdd \in SUBSET Users
    BY <1>0 DEF TaskReqs
  <2>2. q \in TaskReqs /\ q.op = "add" /\ q.want = taskReq[h].want
    BY <1>0, <1>3, <2>1 DEF TaskReqs, ReadAssigned
  <2>3. CASE toAdd = {}
    BY <1>3, <2>3, TaskFinishOK DEF ReadAssigned, TaskTypeOK, LegalUnlessOverwritten, Assigned
  <2>4. CASE toAdd # {}
    <3>1. taskReq' = [taskReq EXCEPT ![h] = q]
      BY <1>3, <2>4 DEF ReadAssigned, TaskTypeOK
    <3>2. UNCHANGED <<taskDeleted, assignee, overwritten>>
      BY <1>3 DEF ReadAssigned
    <3> HIDE DEF q
    <3>3. taskReq' \in [Handlers -> TaskReqs] /\ WantsOK' /\ ChecksOK'
      BY <2>2, <3>1 DEF TaskTypeOK, WantsOK, ChecksOK
    <3> QED BY <3>2, <3>3 DEF TaskTypeOK, LegalUnlessOverwritten, Assigned
  <2> QED BY <2>3, <2>4
<1>4. CASE InsertAssignees(h)
  <2>1. taskReq[h].who \in SUBSET Users
    BY <1>0 DEF TaskReqs
  <2>2. taskReq' \in [Handlers -> TaskReqs] /\ WantsOK' /\ ChecksOK'
    BY <1>4, TaskFinishOK DEF InsertAssignees
  <2>3. CASE Assign(taskReq[h].who)
    BY <1>4, <2>1, <2>2, <2>3, TaskAssignOK DEF InsertAssignees, TaskTypeOK
  <2>4. CASE UNCHANGED <<assignee, overwritten>>
    BY <1>4, <2>2, <2>4 DEF InsertAssignees, TaskTypeOK, LegalUnlessOverwritten, Assigned
  <2> QED BY <1>4, <2>3, <2>4 DEF InsertAssignees
<1>5. CASE ReadAssignee(h)
  <2>1. PICK u \in taskReq[h].who :
          IF Assigned(u) /\ StepAllowed(taskReq[h].op, taskReq[h].want, assignee[u])
          THEN taskReq' = [taskReq EXCEPT ![h].at = "read", ![h].read = assignee[u]]
          ELSE FinishTask(h)
    BY <1>5 DEF ReadAssignee
  <2>2. u \in Users
    BY <1>0 DEF TaskReqs
  <2>3. UNCHANGED <<taskDeleted, assignee, overwritten>>
    BY <1>5 DEF ReadAssignee
  <2>4. CASE FinishTask(h)
    BY <2>3, <2>4, TaskFinishOK DEF TaskTypeOK, LegalUnlessOverwritten, Assigned
  <2>5. CASE /\ Assigned(u) /\ StepAllowed(taskReq[h].op, taskReq[h].want, assignee[u])
             /\ taskReq' = [taskReq EXCEPT ![h].at = "read", ![h].read = assignee[u]]
    <3> DEFINE q == [taskReq[h] EXCEPT !.at = "read", !.read = assignee[u]]
    <3>1. assignee[u] \in Assignees
      BY <2>2, <2>5 DEF Assigned, TaskTypeOK
    <3>2. /\ q \in TaskReqs /\ q.op = taskReq[h].op /\ q.want = taskReq[h].want
          /\ q.read = assignee[u]
      BY <1>0, <3>1 DEF TaskReqs
    <3>3. taskReq' = [taskReq EXCEPT ![h] = q]
      BY <2>5 DEF TaskTypeOK
    <3>4. StepAllowed(q.op, q.want, q.read)
      BY <2>5, <3>2
    <3> HIDE DEF q
    <3>5. taskReq' \in [Handlers -> TaskReqs] /\ WantsOK'
      BY <3>2, <3>3 DEF TaskTypeOK, WantsOK
    <3>6. ChecksOK'
      BY <3>1, <3>2, <3>3, <3>4 DEF TaskTypeOK, WantsOK, ChecksOK
    <3> QED BY <2>3, <3>5, <3>6 DEF TaskTypeOK, LegalUnlessOverwritten, Assigned
  <2> QED BY <2>1, <2>4, <2>5
<1>6. CASE FindAssignee(h)
  <2> DEFINE q == [taskReq[h] EXCEPT !.at = "read"]
  <2>1. q \in TaskReqs /\ q.op = "remove"
    BY <1>0, <1>6 DEF TaskReqs, FindAssignee
  <2>2. taskReq' = [taskReq EXCEPT ![h] = q] \/ FinishTask(h)
    BY <1>6 DEF FindAssignee, TaskTypeOK
  <2>3. UNCHANGED <<taskDeleted, assignee, overwritten>>
    BY <1>6 DEF FindAssignee
  <2> HIDE DEF q
  <2>4. taskReq' \in [Handlers -> TaskReqs] /\ WantsOK' /\ ChecksOK'
    BY <2>1, <2>2, TaskFinishOK DEF TaskTypeOK, WantsOK, ChecksOK
  <2> QED BY <2>3, <2>4 DEF TaskTypeOK, LegalUnlessOverwritten, Assigned
<1>7. CASE RemoveAssignee(h)
  BY <1>7, TaskFinishOK DEF RemoveAssignee, TaskTypeOK, LegalUnlessOverwritten, Assigned
<1>8. CASE WriteStatus(h)
  <2> DEFINE q == taskReq[h]
  <2>1. PICK u \in q.who :
          IF Assigned(u)
          THEN /\ assignee' = [assignee EXCEPT ![u] = Moved(q.op, q.want, q.rating, assignee[u])]
               /\ overwritten' = [overwritten EXCEPT ![u] = overwritten[u] \/ assignee[u] # q.read]
          ELSE UNCHANGED <<assignee, overwritten>>
    BY <1>8 DEF WriteStatus
  <2>2. u \in Users
    BY <1>0 DEF TaskReqs
  <2>3. /\ taskReq' \in [Handlers -> TaskReqs] /\ WantsOK' /\ ChecksOK'
        /\ UNCHANGED taskDeleted
    BY <1>8, TaskFinishOK DEF WriteStatus
  <2>4. CASE UNCHANGED <<assignee, overwritten>>
    BY <2>3, <2>4 DEF TaskTypeOK, LegalUnlessOverwritten, Assigned
  <2>5. CASE /\ Assigned(u)
             /\ assignee' = [assignee EXCEPT ![u] = Moved(q.op, q.want, q.rating, assignee[u])]
             /\ overwritten' = [overwritten EXCEPT ![u] = overwritten[u] \/ assignee[u] # q.read]
    <3> DEFINE m == Moved(q.op, q.want, q.rating, assignee[u])
    <3>1. assignee[u] \in Assignees
      BY <2>2, <2>5 DEF Assigned, TaskTypeOK
    <3>2. /\ q.op \in {"work", "review"} /\ StepAllowed(q.op, q.want, q.read)
          /\ q.op = "work" => q.want \in WorkStatus
          /\ q.op # "work" => q.want \in ReviewStatus
      BY <1>8 DEF WriteStatus, ChecksOK
    <3>3. m \in Assignees
      BY <3>1, <3>2, MovedIsRow
    <3>4. ~overwritten'[u] => Legal(m)
      <4>1. SUFFICES ASSUME ~overwritten'[u] PROVE Legal(m)
        OBVIOUS
      <4>2. ~overwritten[u] /\ assignee[u] = q.read
        BY <2>2, <2>5, <4>1 DEF TaskTypeOK
      <4>3. Legal(assignee[u])
        BY <2>2, <2>5, <4>2 DEF LegalUnlessOverwritten
      <4> QED BY <3>1, <3>2, <4>2, <4>3, MovedIsLegal
    <3> HIDE DEF m
    <3>5. /\ assignee' \in [Users -> Assignees \union {Unassigned}]
          /\ overwritten' \in [Users -> BOOLEAN]
      BY <2>2, <2>5, <3>3 DEF TaskTypeOK, m
    <3>6. LegalUnlessOverwritten'
      BY <2>2, <2>5, <3>4 DEF TaskTypeOK, LegalUnlessOverwritten, Assigned, m
    <3> QED BY <2>3, <3>5, <3>6 DEF TaskTypeOK
  <2> QED BY <2>1, <2>4, <2>5
<1> QED BY <1>1, <1>2, <1>3, <1>4, <1>5, <1>6, <1>7, <1>8 DEF TaskStep

(* TaskIInv is an inductive invariant of the handlers of a task.               *)
THEOREM TaskInvariance == TaskSpec => []TaskIInv
<1>1. TaskIInv /\ [TaskNext]_taskVars => TaskIInv'
  <2>1. ASSUME TaskIInv, TaskNext PROVE TaskIInv'
    BY <2>1, TaskStepOK DEF TaskNext
  <2>2. ASSUME TaskIInv, UNCHANGED taskVars PROVE TaskIInv'
    BY <2>2 DEF taskVars, TaskIInv, TaskTypeOK, WantsOK, ChecksOK, LegalUnlessOverwritten, Assigned
  <2> QED BY <2>1, <2>2
<1> QED BY <1>1, TaskInitOK, PTL DEF TaskSpec

(* The rows and requests of a task keep their types.                       *)
THEOREM TaskTypeCorrect == TaskSpec => []TaskTypeOK
<1>1. TaskIInv => TaskTypeOK
  BY DEF TaskIInv
<1> QED BY <1>1, TaskInvariance, PTL

(* Work and review follow the two tables of tasks.service.ts together,     *)
(* unless one request has written over a change it had not read.           *)
THEOREM RowsAreLegal == TaskSpec => []LegalUnlessOverwritten
<1>1. TaskIInv => LegalUnlessOverwritten
  BY DEF TaskIInv
<1> QED BY <1>1, TaskInvariance, PTL

------------------------------------------------------------------------------
(* No allowed step of work or review leads back to a new row.              *)
LEMMA MovedIsNotNew ==
  ASSUME NEW p \in Assignees, NEW r \in Assignees, NEW op \in {"work", "review"},
         NEW want, NEW rating, StepAllowed(op, want, r)
  PROVE  Moved(op, want, rating, p) # NewAssignee
<1> DEFINE m == Moved(op, want, rating, p)
<1>1. CASE op = "work"
  <2>1. want # "PENDING"
    BY <1>1 DEF StepAllowed, WorkSteps
  <2>2. m.work = want
    BY <1>1 DEF Moved, Assignees
  <2> QED BY <2>1, <2>2 DEF NewAssignee
<1>2. CASE op = "review"
  <2>1. want # "PENDING"
    BY <1>2 DEF StepAllowed, ReviewSteps
  <2>2. m.review = want
    BY <1>2 DEF Moved, Assignees
  <2> QED BY <2>1, <2>2 DEF NewAssignee
<1> QED BY <1>1, <1>2

(* A step of a handler makes no new row of one that has come further.      *)
LEMMA StepKeepsProgress ==
  ASSUME TaskIInv, NEW h \in Handlers, TaskStep(h), NEW u \in Users,
         Assigned(u), assignee[u] # NewAssignee
  PROVE  assignee'[u] # NewAssignee
<1>0. taskReq[h] \in TaskReqs /\ assignee[u] \in Assignees
  BY DEF TaskIInv, TaskTypeOK, Assigned
<1>1. CASE UNCHANGED assignee
  BY <1>1
<1>2. CASE InsertAssignees(h)
  <2>1. CASE Assign(taskReq[h].who) /\ ~\E v \in taskReq[h].who : Assigned(v)
    BY <2>1 DEF Assign
  <2> QED BY <1>1, <1>2, <2>1 DEF InsertAssignees
<1>3. CASE RemoveAssignee(h)
  BY <1>3, UnassignedIsNoRow, NewAssigneeIsLegal DEF RemoveAssignee
<1>4. CASE WriteStatus(h)
  <2> DEFINE q == taskReq[h]
  <2>1. /\ q.op \in {"work", "review"} /\ q.read \in Assignees
        /\ StepAllowed(q.op, q.want, q.read)
    BY <1>4 DEF WriteStatus, TaskIInv, ChecksOK
  <2>2. Moved(q.op, q.want, q.rating, assignee[u]) # NewAssignee
    BY <1>0, <2>1, MovedIsNotNew
  <2>3. PICK v \in q.who :
          \/ assignee' = [assignee EXCEPT ![v] = Moved(q.op, q.want, q.rating, assignee[v])]
          \/ UNCHANGED assignee
    BY <1>4 DEF WriteStatus
  <2> HIDE DEF q
  <2> QED BY <1>0, <2>2, <2>3 DEF TaskIInv, TaskTypeOK
<1>5. CASE TaskRequest(h)
  BY <1>1, <1>5 DEF TaskRequest, AssertTask
<1> QED BY <1>1, <1>2, <1>3, <1>4, <1>5
        DEF TaskStep, DeleteTask, ReadAssigned, ReadAssignee, FindAssignee

(* Adding, removing, working and reviewing never turn the row of a         *)
(* participant who has made progress into a new one: updates that race     *)
(* write a status of their table, and an insert that meets a row fails.    *)
THEOREM ProgressIsKept == TaskSpec => ProgressKept
<1>1. ASSUME TaskIInv, [TaskNext]_taskVars
      PROVE  \A u \in Users : (Assigned(u) /\ assignee[u] # NewAssignee)
                                => assignee'[u] # NewAssignee
  <2>1. CASE TaskNext
    BY <1>1, <2>1, StepKeepsProgress DEF TaskNext
  <2>2. CASE UNCHANGED taskVars
    BY <2>2 DEF taskVars
  <2> QED BY <1>1, <2>1, <2>2
<1> QED BY <1>1, TaskInvariance, PTL DEF TaskSpec, ProgressKept
------------------------------------------------------------------------------
(* The components side by side *)

(* What each component needs to keep its types; the handlers of units and  *)
(* of groups need it where they are at work, and no scenario has both.     *)
RecordIInv ==
  /\ EventIInv /\ RegIInv /\ RightsTypeOK /\ StaffTypeOK /\ TreeTypeOK /\ GroupTypeOK
  /\ scenario \in OrgScenarios => TreeIInv
  /\ scenario = "groups" => GroupsOK

LEMMA OneUnitStarts == ASSUME OneUnitInit PROVE TreeTypeOK
<1>1. PICK name \in Names :
        unit = [n \in Units |-> IF n = 1 THEN [parent |-> Top, name |-> name, live |-> TRUE]
                                ELSE NoUnit]
  BY DEF OneUnitInit
<1>2. [parent |-> Top, name |-> name, live |-> TRUE] \in UnitRows
  BY DEF UnitRows
<1>3. unit \in [Units -> UnitRows \union {NoUnit}]
  BY <1>1, <1>2
<1> QED BY <1>3, NoUnitReqFits DEF OneUnitInit, TreeTypeOK

LEMMA AnyTreeStarts == ASSUME AnyTreeInit PROVE TreeTypeOK /\ StaffTypeOK
<1>1. OwnName \in [Units -> Names] /\ OneTitle \in Titles
  BY InstanceAssumption DEF OwnName, OneTitle
<1>2. post = [p \in Posts |-> [title |-> OneTitle, live |-> TRUE]]
  BY DEF AnyTreeInit
<1>3. AnyTree
  BY DEF AnyTreeInit
<1>4. unit \in [Units -> UnitRows \union {NoUnit}]
  <2>1. PICK parent \in [Units -> Units \union {Top}], deleted \in Units \union {Top} :
          /\ \A n \in Units : parent[n] # Top => parent[n] < n
          /\ unit = [n \in Units |->
                       [parent |-> parent[n], name |-> OwnName[n], live |-> n # deleted]]
    BY <1>3, Zenon DEF AnyTree
  <2>2. ASSUME NEW n \in Units
        PROVE  [parent |-> parent[n], name |-> OwnName[n], live |-> n # deleted] \in UnitRows
    BY <1>1, <2>2 DEF UnitRows
  <2> QED BY <2>1, <2>2
<1>5. tag \in [Tags -> {"none", "live", "deleted"}] /\ tagged \subseteq Units \X Tags
  BY DEF AnyTreeInit
<1>6. TreeTypeOK
  BY <1>4, <1>5, NoUnitReqFits DEF AnyTreeInit, TreeTypeOK
<1>7. [title |-> OneTitle, live |-> TRUE] \in PostRows
  BY <1>1 DEF PostRows
<1>8. member \subseteq Users \X Units \X Posts
  BY RightsAssumption DEF AnyTreeInit
<1> QED BY <1>2, <1>6, <1>7, <1>8 DEF AnyTreeInit, StaffTypeOK

LEMMA RecordsStart == MCInit => RecordIInv
<1> SUFFICES ASSUME MCInit PROVE RecordIInv
  OBVIOUS
<1>1. EventIInv /\ RegIInv /\ RightsTypeOK /\ GroupTypeOK /\ GroupsOK
  BY EventStarts, RegStarts, RightsStarts, GroupStarts DEF MCInit
<1>2. CASE scenario = "groups"
  BY <1>1, <1>2, AnyTreeStarts DEF MCInit, RecordIInv, OrgScenarios
<1>3. CASE scenario = "rights"
  BY <1>1, <1>3, OneUnitStarts, StaffStarts DEF MCInit, RecordIInv, OrgScenarios
<1>4. CASE scenario \notin {"groups", "rights"}
  <2>1. TreeInit /\ StaffInit
    BY <1>4 DEF MCInit
  <2> QED BY <1>1, <1>4, <2>1, TreeStarts, StaffStarts DEF RecordIInv, TreeIInv
<1> QED BY <1>2, <1>3, <1>4

LEMMA EventsIdle == ASSUME EventIInv, UNCHANGED eventVars PROVE EventIInv'
BY EventStepOK

LEMMA RegIdles == ASSUME RegIInv, UNCHANGED regVars PROVE RegIInv'
BY RegStepOK

LEMMA RightsIdle ==
  ASSUME RightsTypeOK, StaffTypeOK, UNCHANGED <<rightVars, staffVars>>
  PROVE  RightsTypeOK' /\ StaffTypeOK'
BY DEF rightVars, staffVars, RightsTypeOK, StaffTypeOK

LEMMA GroupsIdle ==
  ASSUME UNCHANGED groupReq
  PROVE  GroupTypeOK => GroupTypeOK'
BY DEF GroupTypeOK

(* The rows of the tree stay as they are.                                  *)
LEMMA TreeStays ==
  ASSUME TreeTypeOK, UNCHANGED treeVars
  PROVE  TreeTypeOK' /\ (TreeIInv => TreeIInv')
<1>1. TreeTypeOK'
  BY DEF treeVars, unitVars, tagVars, TreeTypeOK
<1> QED BY <1>1, TreeIdles

LEMMA RecordsStep == ASSUME RecordIInv, [MCNext]_recordVars PROVE RecordIInv'
<1>0. /\ EventIInv /\ RegIInv /\ RightsTypeOK /\ StaffTypeOK /\ TreeTypeOK /\ GroupTypeOK
      /\ scenario \in OrgScenarios => TreeIInv
      /\ scenario = "groups" => GroupsOK
      /\ scenario' = scenario
  BY DEF RecordIInv, MCNext, recordVars
<1>1. ASSUME UNCHANGED <<orgVars, rightVars>>,
             [EventNext]_eventVars, [RegNext]_regVars
      PROVE  RecordIInv'
  <2>1. EventIInv' /\ RegIInv'
    BY <1>0, <1>1, EventStepOK, RegStepOK
  <2>2. UNCHANGED <<treeVars, staffVars, groupReq, rightVars>>
    BY <1>1 DEF orgVars
  <2>3. RightsTypeOK' /\ StaffTypeOK' /\ GroupTypeOK' /\ TreeTypeOK' /\ (TreeIInv => TreeIInv')
    BY <1>0, <2>2, RightsIdle, GroupsIdle, TreeStays
  <2>4. GroupsOK => GroupsOK'
    BY <2>2, GroupsStay
  <2> QED BY <1>0, <2>1, <2>3, <2>4 DEF RecordIInv
<1>2. CASE UNCHANGED recordVars
  BY <1>1, <1>2 DEF recordVars
<1>3. CASE scenario \in TaskScenarios /\ TasksMeet
  BY <1>1, <1>3 DEF TasksMeet
<1>4. CASE scenario \in EventScenarios /\ EventsMeet
  BY <1>1, <1>4 DEF EventsMeet
<1>5. CASE scenario = "registration" /\ RegistrationsMeet
  BY <1>1, <1>5 DEF RegistrationsMeet
<1>6. CASE scenario \in OrgScenarios /\ UnitsMeet
  <2>1. /\ TreeIInv /\ \E h \in OrgReqs : UnitStep(h)
        /\ UNCHANGED <<eventVars, staffVars, groupReq, rightVars, regVars>>
    BY <1>0, <1>6 DEF UnitsMeet
  <2>2. TreeIInv'
    BY <2>1, UnitStepOK
  <2>3. EventIInv' /\ RegIInv' /\ RightsTypeOK' /\ StaffTypeOK' /\ GroupTypeOK'
    BY <1>0, <2>1, EventsIdle, RegIdles, RightsIdle, GroupsIdle
  <2>4. scenario' # "groups"
    BY <1>0, <1>6 DEF OrgScenarios
  <2> QED BY <2>2, <2>3, <2>4 DEF RecordIInv, TreeIInv
<1>7. CASE scenario = "groups" /\ GroupsMeet
  <2>1. PICK h \in OrgReqs : AskGroup(h) \/ ResolveStep(h)
    BY <1>7 DEF GroupsMeet
  <2>2. UnchangedOrg /\ StaffTypeOK' /\ GroupTypeOK' /\ GroupsOK'
    BY <1>0, <1>7, <2>1, GroupStepOK DEF GroupIInv
  <2>3. UNCHANGED <<eventVars, treeVars, staffVars, rightVars, regVars>>
    BY <1>7, <2>2 DEF GroupsMeet, UnchangedOrg
  <2>4. EventIInv' /\ RegIInv' /\ RightsTypeOK' /\ TreeTypeOK' /\ (TreeIInv => TreeIInv')
    BY <1>0, <2>3, EventsIdle, RegIdles, RightsIdle, TreeStays
  <2> QED BY <1>0, <2>2, <2>4 DEF RecordIInv
<1>8. CASE scenario = "rights" /\ RightsMeet
  <2>1. RightsNext /\ UNCHANGED <<eventVars, groupReq, regVars>>
    BY <1>8 DEF RightsMeet
  <2>2. UNCHANGED treeVars
    BY <2>1 DEF RightsNext, Admit, Manage, Refuse
  <2>3. RightsTypeOK' /\ StaffTypeOK'
    BY <1>0, <2>1, RightsStepOK
  <2>4. EventIInv' /\ RegIInv' /\ GroupTypeOK' /\ TreeTypeOK'
    BY <1>0, <2>1, <2>2, EventsIdle, RegIdles, GroupsIdle, TreeStays
  <2>5. scenario' \notin OrgScenarios \union {"groups"}
    BY <1>0, <1>8 DEF OrgScenarios
  <2> QED BY <2>3, <2>4, <2>5 DEF RecordIInv
<1> QED BY <1>2, <1>3, <1>4, <1>5, <1>6, <1>7, <1>8 DEF MCNext

(* The rows of events, units, positions, groups, roles, accounts and       *)
(* applications keep their types, and so does what their handlers carry,   *)
(* when all of them stand side by side.                                    *)
THEOREM RecordTypesKept == MCSpec => []RecordTypes
<1>1. MCInit => RecordIInv
  BY RecordsStart
<1>2. RecordIInv /\ [MCNext]_recordVars => RecordIInv'
  BY RecordsStep
<1>3. RecordIInv => RecordTypes
  BY DEF RecordIInv, RecordTypes, EventIInv, RegIInv
<1> QED BY <1>1, <1>2, <1>3, PTL DEF MCSpec
==============================================================================
