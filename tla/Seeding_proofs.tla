---------------------------- MODULE Seeding_proofs ----------------------------
(***************************************************************************)
(* The seeds, for any codes, voters, options, guests and number of runs.   *)
(*                                                                         *)
(* The argument is about where a run is.  Each script is shown to be a     *)
(* chain: a set of statements, each of them once, in the order of their    *)
(* places (BaseChain, DemoChain).  What a run has done is then a set       *)
(* (DoneBy), the statement it is at is in none of the places before those  *)
(* done (EntryFacts), and the invariant says of each statement done what   *)
(* of it is still to be seen: of a run nobody disturbed, its rows, copies, *)
(* guests and counts; of every run, the copies it has found.               *)
(***************************************************************************)
EXTENDS Seeding, FiniteSetTheorems, SequenceTheorems, TLAPS

------------------------------------------------------------------------------
(* The scripts: which statements they have, and in which order             *)

KeptOf(k) == [op |-> "upsert", key |-> k, restore |-> FALSE]
RestoredOf(k) == [op |-> "upsert", key |-> k, restore |-> TRUE]
ReadOf(name, needed) == [op |-> "read", role |-> name, needed |-> needed]
WipeOf(name) == [op |-> "wipe", role |-> name]
FillOf(name, codes) == [op |-> "fill", role |-> name, all |-> FALSE, codes |-> codes]
FillReadOf(name) == [op |-> "fill", role |-> name, all |-> TRUE]
FindOf(thing) == [op |-> "find", thing |-> thing]
WriteOf(thing) == [op |-> "write", thing |-> thing]
DressOf(thing) == [op |-> "dress", thing |-> thing]
EachOf(op, x) == [op |-> op, of |-> x]
DoOf(op) == [op |-> op]

(* The place of a statement, which is one order for both scripts.          *)
RoleAt == [super_admin |-> 2, teacher |-> 8, owner |-> 12]
ThingAt == [university |-> 16, faculty |-> 18, room |-> 26, topic |-> 30, message |-> 34,
            task |-> 36, event |-> 40, poll |-> 44, notice |-> 50]

KeyPlace(k) ==
  CASE k[1] = "code" -> 1
    [] k[1] = "role" -> RoleAt[k[2]]
    [] k[1] = "user" -> IF k[2] = "super" THEN 6 ELSE 24
    [] k[1] = "holds" -> IF k[2] = "super" THEN 7 ELSE 25
    [] k[1] = "tag" -> 20
    [] k[1] = "position" -> 22
    [] k[1] = "positionRole" -> 23

Place(e) ==
  CASE e.op = "upsert" -> KeyPlace(e.key)
    [] e.op = "read" -> RoleAt[e.role] + 1
    [] e.op = "wipe" -> RoleAt[e.role] + 2
    [] e.op = "fill" -> RoleAt[e.role] + 3
    [] e.op = "find" -> ThingAt[e.thing]
    [] e.op = "write" -> ThingAt[e.thing] + 1
    [] e.op = "dress" -> ThingAt[e.thing] + 3
    [] e.op = "highest" -> 42
    [] e.op = "seat" -> 43
    [] e.op = "reset" -> 46
    [] e.op = "ballot" -> 47
    [] e.op = "count" -> 48
    [] e.op = "tally" -> 49

(* s has the statements S, each of them once, in the order of their places, *)
(* which are from lo on and below hi.                                       *)
Chain(s, S, lo, hi) ==
  /\ s \in Seq(S)
  /\ \A e \in S : \E i \in DOMAIN s : s[i] = e
  /\ \A e \in S : Place(e) \in Int /\ lo <= Place(e) /\ Place(e) < hi
  /\ \A i, j \in DOMAIN s : i < j => Place(s[i]) <= Place(s[j]) /\ s[i] # s[j]

LEMMA ChainOfOne ==
  ASSUME NEW e, NEW lo \in Int, NEW hi \in Int, Place(e) \in Int, lo <= Place(e), Place(e) < hi
  PROVE  Chain(<<e>>, {e}, lo, hi)
<1> <<e>> \in Seq({e}) /\ DOMAIN <<e>> = {1} /\ <<e>>[1] = e
  OBVIOUS
<1> QED
  BY DEF Chain

LEMMA ChainOfTwo ==
  ASSUME NEW e, NEW f, NEW lo \in Int, NEW hi \in Int, Place(e) \in Int, Place(f) \in Int,
         lo <= Place(e), Place(e) < Place(f), Place(f) < hi
  PROVE  Chain(<<e, f>>, {e, f}, lo, hi)
<1> <<e, f>> \in Seq({e, f}) /\ DOMAIN <<e, f>> = {1, 2} /\ <<e, f>>[1] = e /\ <<e, f>>[2] = f
  OBVIOUS
<1> e # f
  OBVIOUS
<1> QED
  BY DEF Chain

LEMMA ChainJoin ==
  ASSUME NEW s, NEW S, NEW t, NEW T, NEW a \in Int, NEW b \in Int, NEW c \in Int,
         a <= b, b <= c, Chain(s, S, a, b), Chain(t, T, b, c)
  PROVE  Chain(s \o t, S \union T, a, c)
<1> DEFINE U == S \union T
           w == s \o t
<1>1. s \in Seq(U) /\ t \in Seq(U)
  <2>1. S \subseteq U /\ T \subseteq U
    OBVIOUS
  <2> QED
    BY <2>1, SeqMonotonic DEF Chain
<1>2. /\ w \in Seq(U) /\ Len(w) = Len(s) + Len(t) /\ Len(s) \in Nat /\ Len(t) \in Nat
      /\ \A i \in 1..Len(s) : w[i] = s[i]
      /\ \A i \in 1..Len(t) : w[Len(s) + i] = t[i]
      /\ DOMAIN w = 1..Len(w) /\ DOMAIN s = 1..Len(s) /\ DOMAIN t = 1..Len(t)
  BY <1>1, ConcatProperties, LenProperties
<1>3. \A i \in DOMAIN s : s[i] \in S
  BY <1>2, ElementOfSeq DEF Chain
<1>4. \A i \in DOMAIN t : t[i] \in T
  BY <1>2, ElementOfSeq DEF Chain
<1> HIDE DEF w, U
<1>5. \A e \in U : \E i \in DOMAIN w : w[i] = e
  <2> SUFFICES ASSUME NEW e \in U PROVE \E i \in DOMAIN w : w[i] = e
    OBVIOUS
  <2>1. CASE e \in S
    <3>1. PICK i \in DOMAIN s : s[i] = e
      BY <2>1 DEF Chain
    <3>2. i \in DOMAIN w /\ w[i] = e
      BY <1>2, <3>1
    <3> QED
      BY <3>2
  <2>2. CASE e \in T
    <3>1. PICK i \in DOMAIN t : t[i] = e
      BY <2>2 DEF Chain
    <3>2. Len(s) + i \in DOMAIN w /\ w[Len(s) + i] = e
      BY <1>2, <3>1
    <3> QED
      BY <3>2
  <2> QED
    BY <2>1, <2>2 DEF U
<1>6. \A e \in U : Place(e) \in Int /\ a <= Place(e) /\ Place(e) < c
  <2>1. \A e \in S : Place(e) \in Int /\ a <= Place(e) /\ Place(e) < c
    BY DEF Chain
  <2>2. \A e \in T : Place(e) \in Int /\ a <= Place(e) /\ Place(e) < c
    BY DEF Chain
  <2> QED
    BY <2>1, <2>2 DEF U
<1>7. ASSUME NEW i \in DOMAIN w, NEW j \in DOMAIN w, i < j
      PROVE  Place(w[i]) <= Place(w[j]) /\ w[i] # w[j]
  <2>1. CASE j <= Len(s)
    <3>1. i \in DOMAIN s /\ j \in DOMAIN s /\ w[i] = s[i] /\ w[j] = s[j]
      BY <1>2, <1>7, <2>1
    <3> QED
      BY <1>7, <3>1 DEF Chain
  <2>2. CASE i > Len(s)
    <3>1. PICK k \in DOMAIN t, l \in DOMAIN t : k = i - Len(s) /\ l = j - Len(s)
      BY <1>2, <1>7, <2>2
    <3>2. w[i] = t[k] /\ w[j] = t[l] /\ k < l
      BY <1>2, <1>7, <3>1
    <3> QED
      BY <3>2 DEF Chain
  <2>3. CASE i <= Len(s) /\ j > Len(s)
    <3>1. i \in DOMAIN s /\ w[i] \in S
      BY <1>2, <1>3, <2>3
    <3>2. PICK l \in DOMAIN t : l = j - Len(s)
      BY <1>2, <1>7, <2>3
    <3>3. w[j] = t[l] /\ w[j] \in T
      BY <1>2, <1>4, <3>2
    <3>4. Place(w[i]) \in Int /\ Place(w[j]) \in Int /\ Place(w[i]) < b /\ b <= Place(w[j])
      BY <3>1, <3>3 DEF Chain
    <3> QED
      BY <3>4
  <2> QED
    BY <1>2, <2>1, <2>2, <2>3
<1> QED
  BY <1>2, <1>5, <1>6, <1>7 DEF Chain, U, w

(* The elements of a finite set, each of them once.                        *)
LEMMA SetToSeqIsSeq ==
  ASSUME NEW S, IsFiniteSet(S)
  PROVE  /\ SetToSeq(S) \in Seq(S)
         /\ \A i \in DOMAIN SetToSeq(S) : SetToSeq(S)[i] \in S
         /\ \A x \in S : \E i \in DOMAIN SetToSeq(S) : SetToSeq(S)[i] = x
         /\ \A i, j \in DOMAIN SetToSeq(S) : i # j => SetToSeq(S)[i] # SetToSeq(S)[j]
<1>1. Cardinality(S) \in Nat /\ ExistsBijection(1..Cardinality(S), S)
  BY FS_CardinalityType
<1>2. PICK g \in [1..Cardinality(S) -> S] : IsInjective(g)
  BY <1>1 DEF ExistsBijection, Bijection, Injection, IsInjective
<1>3. SetToSeq(S) \in [1..Cardinality(S) -> S] /\ IsInjective(SetToSeq(S))
  BY <1>2 DEF SetToSeq
<1>4. SetToSeq(S) \in Injection(1..Cardinality(S), S)
  BY <1>3 DEF Injection
<1>5. Cardinality(1..Cardinality(S)) = Cardinality(S)
  BY <1>1, FS_Interval
<1>6. SetToSeq(S) \in Surjection(1..Cardinality(S), S)
  BY <1>4, <1>5, FS_Injection
<1>7. \A i, j \in DOMAIN SetToSeq(S) : i # j => SetToSeq(S)[i] # SetToSeq(S)[j]
  BY <1>3 DEF IsInjective
<1> QED
  BY <1>1, <1>3, <1>6, <1>7, SeqDef DEF Surjection

LEMMA ChainOfSet ==
  ASSUME NEW X, IsFiniteSet(X), NEW g, NEW p \in Int, NEW lo \in Int, NEW hi \in Int,
         lo <= p, p < hi, \A x \in X : Place(g[x]) = p, \A x, y \in X : x # y => g[x] # g[y]
  PROVE  Chain([i \in DOMAIN SetToSeq(X) |-> g[SetToSeq(X)[i]]], {g[x] : x \in X}, lo, hi)
<1> DEFINE s == SetToSeq(X)
           t == [i \in DOMAIN s |-> g[s[i]]]
<1>1. /\ s \in Seq(X)
      /\ \A x \in X : \E i \in DOMAIN s : s[i] = x
      /\ \A i, j \in DOMAIN s : i # j => s[i] # s[j]
  BY SetToSeqIsSeq
<1>2. PICK n \in Nat : DOMAIN s = 1..n /\ \A i \in 1..n : s[i] \in X
  BY <1>1, SeqDef
<1> HIDE DEF s
<1>3. t \in Seq({g[x] : x \in X})
  <2>1. t \in [1..n -> {g[x] : x \in X}]
    BY <1>2
  <2> QED
    BY <2>1, SeqDef
<1>4. \A e \in {g[x] : x \in X} : \E i \in DOMAIN t : t[i] = e
  BY <1>1
<1>5. \A i, j \in DOMAIN t : i < j => Place(t[i]) <= Place(t[j]) /\ t[i] # t[j]
  <2> SUFFICES ASSUME NEW i \in DOMAIN s, NEW j \in DOMAIN s, i < j
               PROVE  Place(g[s[i]]) <= Place(g[s[j]]) /\ g[s[i]] # g[s[j]]
    OBVIOUS
  <2>0. i # j
    BY <1>2
  <2>1. s[i] \in X /\ s[j] \in X /\ s[i] # s[j]
    BY <1>1, <1>2, <2>0
  <2> QED
    BY <2>1
<1>6. Chain(t, {g[x] : x \in X}, lo, hi)
  BY <1>3, <1>4, <1>5 DEF Chain
<1> QED
  BY <1>6 DEF s

(* A chain for each block of the scripts.                                  *)

KeepAll(C) == Upserts({Code(c) : c \in C}, FALSE)
RestoreAll(C) == Upserts({Code(c) : c \in C}, TRUE)
Keep(k) == Upsert(k, FALSE)
Restore(k) == Upsert(k, TRUE)

LEMMA KeepAllChain ==
  ASSUME NEW C, IsFiniteSet(C)
  PROVE  Chain(KeepAll(C), {KeptOf(Code(c)) : c \in C}, 1, 2)
<1> DEFINE X == {Code(c) : c \in C}
           g == [k \in X |-> KeptOf(k)]
<1>1. IsFiniteSet(X)
  <2>1. [c \in C |-> Code(c)] \in Surjection(C, X)
    BY DEF Surjection
  <2> QED
    BY <2>1, FS_Surjection
<1>2. \A k \in X : g[k] = KeptOf(k)
  OBVIOUS
<1>3. \A k \in X : Place(g[k]) = 1
  BY DEF KeptOf, Place, KeyPlace, Code
<1>4. \A k, l \in X : k # l => g[k] # g[l]
  BY DEF KeptOf
<1>5. KeepAll(C) = [i \in DOMAIN SetToSeq(X) |-> g[SetToSeq(X)[i]]]
  <2>1. \A i \in DOMAIN SetToSeq(X) : SetToSeq(X)[i] \in X
    BY <1>1, SetToSeqIsSeq
  <2> QED
    BY <1>2, <2>1 DEF Upserts, KeptOf, KeepAll
<1>6. {g[k] : k \in X} = {KeptOf(Code(c)) : c \in C}
  OBVIOUS
<1> HIDE DEF g, X
<1>7. Chain(KeepAll(C), {g[k] : k \in X}, 1, 2)
  BY <1>1, <1>3, <1>4, <1>5, ChainOfSet
<1> QED
  BY <1>6, <1>7 DEF X

LEMMA RestoreAllChain ==
  ASSUME NEW C, IsFiniteSet(C)
  PROVE  Chain(RestoreAll(C), {RestoredOf(Code(c)) : c \in C}, 1, 2)
<1> DEFINE X == {Code(c) : c \in C}
           g == [k \in X |-> RestoredOf(k)]
<1>1. IsFiniteSet(X)
  <2>1. [c \in C |-> Code(c)] \in Surjection(C, X)
    BY DEF Surjection
  <2> QED
    BY <2>1, FS_Surjection
<1>2. \A k \in X : g[k] = RestoredOf(k)
  OBVIOUS
<1>3. \A k \in X : Place(g[k]) = 1
  BY DEF RestoredOf, Place, KeyPlace, Code
<1>4. \A k, l \in X : k # l => g[k] # g[l]
  BY DEF RestoredOf
<1>5. RestoreAll(C) = [i \in DOMAIN SetToSeq(X) |-> g[SetToSeq(X)[i]]]
  <2>1. \A i \in DOMAIN SetToSeq(X) : SetToSeq(X)[i] \in X
    BY <1>1, SetToSeqIsSeq
  <2> QED
    BY <1>2, <2>1 DEF Upserts, RestoredOf, RestoreAll
<1>6. {g[k] : k \in X} = {RestoredOf(Code(c)) : c \in C}
  OBVIOUS
<1> HIDE DEF g, X
<1>7. Chain(RestoreAll(C), {g[k] : k \in X}, 1, 2)
  BY <1>1, <1>3, <1>4, <1>5, ChainOfSet
<1> QED
  BY <1>6, <1>7 DEF X

LEMMA EachChain ==
  ASSUME NEW op \in {"seat", "ballot", "tally"}, NEW X, IsFiniteSet(X), NEW lo \in Int, NEW hi \in Int,
         lo <= Place(DoOf(op)), Place(DoOf(op)) < hi
  PROVE  Chain(Each(op, X), {EachOf(op, x) : x \in X}, lo, hi)
<1> DEFINE g == [x \in X |-> EachOf(op, x)]
<1>2. \A x \in X : g[x] = EachOf(op, x)
  OBVIOUS
<1>3. Place(DoOf(op)) \in Int /\ \A x \in X : Place(g[x]) = Place(DoOf(op))
  BY DEF EachOf, DoOf, Place
<1>4. \A x, y \in X : x # y => g[x] # g[y]
  BY DEF EachOf
<1>5. Each(op, X) = [i \in DOMAIN SetToSeq(X) |-> g[SetToSeq(X)[i]]]
  <2>1. \A i \in DOMAIN SetToSeq(X) : SetToSeq(X)[i] \in X
    BY SetToSeqIsSeq
  <2> QED
    BY <1>2, <2>1 DEF Each, EachOf
<1>6. {g[x] : x \in X} = {EachOf(op, x) : x \in X}
  OBVIOUS
<1> HIDE DEF g
<1>7. Chain(Each(op, X), {g[x] : x \in X}, lo, hi)
  BY <1>3, <1>4, <1>5, ChainOfSet
<1> QED
  BY <1>6, <1>7

LEMMA KeepChain ==
  ASSUME NEW k, NEW lo \in Int, NEW hi \in Int, KeyPlace(k) \in Int, lo <= KeyPlace(k), KeyPlace(k) < hi
  PROVE  Chain(Keep(k), {KeptOf(k)}, lo, hi)
<1>1. Place(KeptOf(k)) = KeyPlace(k) /\ Keep(k) = <<KeptOf(k)>>
  BY DEF Place, Keep, Upsert, KeptOf
<1> QED
  BY <1>1, ChainOfOne

LEMMA RestoreChain ==
  ASSUME NEW k, NEW lo \in Int, NEW hi \in Int, KeyPlace(k) \in Int, lo <= KeyPlace(k), KeyPlace(k) < hi
  PROVE  Chain(Restore(k), {RestoredOf(k)}, lo, hi)
<1>1. Place(RestoredOf(k)) = KeyPlace(k) /\ Restore(k) = <<RestoredOf(k)>>
  BY DEF Place, Restore, Upsert, RestoredOf
<1> QED
  BY <1>1, ChainOfOne

LEMMA KeyPlaces ==
  /\ KeyPlace(Role("super_admin")) = 2 /\ KeyPlace(Role("teacher")) = 8 /\ KeyPlace(Role("owner")) = 12
  /\ KeyPlace(User("super")) = 6 /\ KeyPlace(User("petrov")) = 24
  /\ KeyPlace(Holds("super", "super_admin")) = 7 /\ KeyPlace(Holds("petrov", "teacher")) = 25
  /\ KeyPlace(<<"tag">>) = 20 /\ KeyPlace(<<"position">>) = 22 /\ KeyPlace(<<"positionRole">>) = 23
<1>1. /\ KeyPlace(Role("super_admin")) = 2 /\ KeyPlace(Role("teacher")) = 8
      /\ KeyPlace(Role("owner")) = 12
  BY DEF KeyPlace, Role, RoleAt
<1>2. KeyPlace(User("super")) = 6 /\ KeyPlace(User("petrov")) = 24
  BY DEF KeyPlace, User
<1>3. KeyPlace(Holds("super", "super_admin")) = 7 /\ KeyPlace(Holds("petrov", "teacher")) = 25
  BY DEF KeyPlace, Holds
<1>4. KeyPlace(<<"tag">>) = 20 /\ KeyPlace(<<"position">>) = 22 /\ KeyPlace(<<"positionRole">>) = 23
  BY DEF KeyPlace
<1> QED
  BY <1>1, <1>2, <1>3, <1>4

(* Reading, wiping and filling of one role.                                *)
LEMMA RolePlaces ==
  /\ RoleAt["super_admin"] = 2 /\ RoleAt["teacher"] = 8 /\ RoleAt["owner"] = 12
BY DEF RoleAt

LEMMA ReadChain ==
  ASSUME NEW name, NEW needed, NEW at \in Int, RoleAt[name] = at
  PROVE  Chain(ReadCodes(name, needed), {ReadOf(name, needed)}, at + 1, at + 2)
<1>1. Place(ReadOf(name, needed)) = at + 1 /\ ReadCodes(name, needed) = <<ReadOf(name, needed)>>
  BY DEF Place, ReadCodes, ReadOf
<1> QED
  BY <1>1, ChainOfOne

LEMMA WipeChain ==
  ASSUME NEW name, NEW at \in Int, RoleAt[name] = at
  PROVE  Chain(Wipe(name), {WipeOf(name)}, at + 2, at + 3)
<1>1. Place(WipeOf(name)) = at + 2 /\ Wipe(name) = <<WipeOf(name)>>
  BY DEF Place, Wipe, WipeOf
<1> QED
  BY <1>1, ChainOfOne

LEMMA FillReadChain ==
  ASSUME NEW name, NEW at \in Int, RoleAt[name] = at
  PROVE  Chain(FillRead(name), {FillReadOf(name)}, at + 3, at + 4)
<1>1. Place(FillReadOf(name)) = at + 3 /\ FillRead(name) = <<FillReadOf(name)>>
  BY DEF Place, FillRead, FillReadOf
<1> QED
  BY <1>1, ChainOfOne

LEMMA FillChain ==
  ASSUME NEW name, NEW codes, NEW at \in Int, RoleAt[name] = at
  PROVE  Chain(Fill(name, codes), {FillOf(name, codes)}, at + 3, at + 4)
<1>1. Place(FillOf(name, codes)) = at + 3 /\ Fill(name, codes) = <<FillOf(name, codes)>>
  BY DEF Place, Fill, FillOf
<1> QED
  BY <1>1, ChainOfOne

LEMMA FindChain ==
  ASSUME NEW thing \in Things
  PROVE  /\ ThingAt[thing] \in Int
         /\ Chain(FindOrCreate(thing), {FindOf(thing), WriteOf(thing)}, ThingAt[thing], ThingAt[thing] + 2)
         /\ Chain(Dress(thing), {DressOf(thing)}, ThingAt[thing] + 3, ThingAt[thing] + 4)
<1>1. ThingAt[thing] \in Int
  BY DEF ThingAt, Things, ParentOf
<1>2. Place(FindOf(thing)) = ThingAt[thing] /\ Place(WriteOf(thing)) = ThingAt[thing] + 1
      /\ Place(DressOf(thing)) = ThingAt[thing] + 3
  BY DEF Place, FindOf, WriteOf, DressOf
<1>3. FindOrCreate(thing) = <<FindOf(thing), WriteOf(thing)>> /\ Dress(thing) = <<DressOf(thing)>>
  BY DEF FindOrCreate, Dress, FindOf, WriteOf, DressOf
<1> HIDE DEF ThingAt
<1> QED
  BY <1>1, <1>2, <1>3, ChainOfOne, ChainOfTwo

LEMMA DoChains ==
  /\ Chain(Do("highest"), {DoOf("highest")}, 42, 43)
  /\ Chain(Do("reset"), {DoOf("reset")}, 46, 47)
  /\ Chain(Do("count"), {DoOf("count")}, 48, 49)
<1>1. \A op : Do(op) = <<DoOf(op)>>
  BY DEF Do, DoOf
<1>2. /\ Place(DoOf("highest")) = 42 /\ Place(DoOf("reset")) = 46 /\ Place(DoOf("count")) = 48
  BY DEF Place, DoOf
<1> QED
  BY <1>1, <1>2, ChainOfOne

(* The statements of the two scripts.                                      *)
BaseSteps ==
  {KeptOf(Code(c)) : c \in Codes}
  \union {KeptOf(Role("super_admin")), ReadOf("super_admin", {}), WipeOf("super_admin"),
          FillReadOf("super_admin"), KeptOf(User("super")),
          KeptOf(Holds("super", "super_admin")),
          KeptOf(Role("owner")), ReadOf("owner", {}), WipeOf("owner"), FillOf("owner", Codes)}

Dressed == {"faculty", "room", "topic", "task", "notice"}

DemoSteps ==
  {RestoredOf(Code(c)) : c \in AllCodes}
  \union {RestoredOf(Role("teacher")), ReadOf("teacher", Codes), FillOf("teacher", Codes),
          RestoredOf(Role("owner")), ReadOf("owner", AllCodes), FillOf("owner", AllCodes),
          RestoredOf(<<"tag">>), RestoredOf(<<"position">>),
          KeptOf(<<"positionRole">>),
          RestoredOf(User("petrov")), RestoredOf(Holds("petrov", "teacher"))}
  \union {FindOf(t) : t \in Things} \union {WriteOf(t) : t \in Things}
  \union {DressOf(t) : t \in Dressed}
  \union {DoOf("highest"), DoOf("reset"), DoOf("count")}
  \union {EachOf("seat", g) : g \in Invited} \union {EachOf("ballot", v) : v \in Voters}
  \union {EachOf("tally", o) : o \in Options}

LEMMA ChainWiden ==
  ASSUME NEW s, NEW S, NEW a \in Int, NEW b \in Int, NEW c \in Int, NEW d \in Int,
         Chain(s, S, b, c), a <= b, c <= d
  PROVE  Chain(s, S, a, d)
BY DEF Chain

LEMMA BaseChain ==
  ASSUME SeedAssumption
  PROVE  Chain(Script.base, BaseSteps, 1, 16)
<1>0. BasePermissions = KeepAll(Codes)
  BY Zenon DEF BasePermissions, KeepAll
<1>1. Chain(KeepAll(Codes), {KeptOf(Code(c)) : c \in Codes}, 1, 2)
  BY KeepAllChain DEF SeedAssumption
<1>2. Chain(BaseRoles, {KeptOf(Role("super_admin"))} \union {ReadOf("super_admin", {})}
                       \union {WipeOf("super_admin")} \union {FillReadOf("super_admin")}, 2, 6)
  <2>1. Chain(Keep(Role("super_admin")), {KeptOf(Role("super_admin"))}, 2, 3)
    BY KeyPlaces, KeepChain
  <2>2. /\ Chain(ReadCodes("super_admin", {}), {ReadOf("super_admin", {})}, 3, 4)
        /\ Chain(Wipe("super_admin"), {WipeOf("super_admin")}, 4, 5)
        /\ Chain(FillRead("super_admin"), {FillReadOf("super_admin")}, 5, 6)
    <3>1. Chain(ReadCodes("super_admin", {}), {ReadOf("super_admin", {})}, 2 + 1, 2 + 2)
      BY RolePlaces, ReadChain
    <3>2. Chain(Wipe("super_admin"), {WipeOf("super_admin")}, 2 + 2, 2 + 3)
      BY RolePlaces, WipeChain
    <3>3. Chain(FillRead("super_admin"), {FillReadOf("super_admin")}, 2 + 3, 2 + 4)
      BY RolePlaces, FillReadChain
    <3> QED
      BY <3>1, <3>2, <3>3
  <2>3. Chain(Keep(Role("super_admin")) \o ReadCodes("super_admin", {}),
              {KeptOf(Role("super_admin"))} \union {ReadOf("super_admin", {})}, 2, 4)
    BY <2>1, <2>2, ChainJoin
  <2>4. Chain(Keep(Role("super_admin")) \o ReadCodes("super_admin", {}) \o Wipe("super_admin"),
              {KeptOf(Role("super_admin"))} \union {ReadOf("super_admin", {})}
              \union {WipeOf("super_admin")}, 2, 5)
    BY <2>2, <2>3, ChainJoin
  <2>e. BaseRoles = Keep(Role("super_admin")) \o ReadCodes("super_admin", {}) \o Wipe("super_admin")
               \o FillRead("super_admin")
    BY Zenon DEF BaseRoles, Keep
  <2> QED
    BY <2>2, <2>4, <2>e, ChainJoin
<1>3. Chain(BaseAdministrator, {KeptOf(User("super"))}
                               \union {KeptOf(Holds("super", "super_admin"))}, 6, 8)
  <2>1. Chain(Keep(User("super")), {KeptOf(User("super"))}, 6, 7)
    BY KeyPlaces, KeepChain
  <2>2. Chain(Keep(Holds("super", "super_admin")), {KeptOf(Holds("super", "super_admin"))}, 7, 8)
    BY KeyPlaces, KeepChain
  <2>e. BaseAdministrator = Keep(User("super")) \o Keep(Holds("super", "super_admin"))
    BY Zenon DEF BaseAdministrator, Keep
  <2> QED
    BY <2>1, <2>2, <2>e, ChainJoin
<1>4. Chain(BaseRoomRoles, {KeptOf(Role("owner"))} \union {ReadOf("owner", {})}
                           \union {WipeOf("owner")} \union {FillOf("owner", Codes)}, 8, 16)
  <2>1. Chain(Keep(Role("owner")), {KeptOf(Role("owner"))}, 8, 13)
    BY KeyPlaces, KeepChain
  <2>2. /\ Chain(ReadCodes("owner", {}), {ReadOf("owner", {})}, 13, 14)
        /\ Chain(Wipe("owner"), {WipeOf("owner")}, 14, 15)
        /\ Chain(Fill("owner", Codes), {FillOf("owner", Codes)}, 15, 16)
    <3>1. Chain(ReadCodes("owner", {}), {ReadOf("owner", {})}, 12 + 1, 12 + 2)
      BY RolePlaces, ReadChain
    <3>2. Chain(Wipe("owner"), {WipeOf("owner")}, 12 + 2, 12 + 3)
      BY RolePlaces, WipeChain
    <3>3. Chain(Fill("owner", Codes), {FillOf("owner", Codes)}, 12 + 3, 12 + 4)
      BY RolePlaces, FillChain
    <3> QED
      BY <3>1, <3>2, <3>3
  <2>3. Chain(Keep(Role("owner")) \o ReadCodes("owner", {}),
              {KeptOf(Role("owner"))} \union {ReadOf("owner", {})}, 8, 14)
    BY <2>1, <2>2, ChainJoin
  <2>4. Chain(Keep(Role("owner")) \o ReadCodes("owner", {}) \o Wipe("owner"),
              {KeptOf(Role("owner"))} \union {ReadOf("owner", {})}
              \union {WipeOf("owner")}, 8, 15)
    BY <2>2, <2>3, ChainJoin
  <2>5. Chain(Fill("owner", Codes), {FillOf("owner", Codes)}, 15, 16)
    BY <2>2
  <2>e. BaseRoomRoles = Keep(Role("owner")) \o ReadCodes("owner", {}) \o Wipe("owner")
                       \o Fill("owner", Codes)
    BY Zenon DEF BaseRoomRoles, Keep
  <2> QED
    BY <2>4, <2>5, <2>e, ChainJoin
<1> DEFINE A == {KeptOf(Code(c)) : c \in Codes}
           B == {KeptOf(Role("super_admin"))} \union {ReadOf("super_admin", {})}
                \union {WipeOf("super_admin")} \union {FillReadOf("super_admin")}
           C == {KeptOf(User("super"))} \union {KeptOf(Holds("super", "super_admin"))}
           D == {KeptOf(Role("owner"))} \union {ReadOf("owner", {})}
                \union {WipeOf("owner")} \union {FillOf("owner", Codes)}
<1>5. BaseSteps = A \union B \union C \union D
  BY Zenon DEF BaseSteps
<1> HIDE DEF A, B, C, D
<1>6. Chain(BasePermissions \o BaseRoles, A \union B, 1, 6)
  BY <1>0, <1>1, <1>2, ChainJoin DEF A, B
<1>7. Chain(BasePermissions \o BaseRoles \o BaseAdministrator, A \union B \union C, 1, 8)
  BY <1>3, <1>6, ChainJoin DEF C
<1>8. Chain(BasePermissions \o BaseRoles \o BaseAdministrator \o BaseRoomRoles,
            A \union B \union C \union D, 1, 16)
  BY <1>4, <1>7, ChainJoin DEF D
<1> QED
  BY <1>5, <1>8 DEF Script

LEMMA DemoRightsChain ==
  ASSUME SeedAssumption
  PROVE  Chain(DemoPermissions \o DemoRoles \o DemoRoomRoles,
               {RestoredOf(Code(c)) : c \in AllCodes}
               \union ({RestoredOf(Role("teacher"))} \union {ReadOf("teacher", Codes)}
                       \union {FillOf("teacher", Codes)})
               \union ({RestoredOf(Role("owner"))} \union {ReadOf("owner", AllCodes)}
                       \union {FillOf("owner", AllCodes)}), 1, 16)
<1>0. IsFiniteSet(AllCodes) /\ DemoPermissions = RestoreAll(AllCodes)
  <2>1. IsFiniteSet(AllCodes)
    BY FS_Singleton, FS_Union DEF SeedAssumption, AllCodes
  <2>2. DemoPermissions = RestoreAll(AllCodes)
    BY Zenon DEF DemoPermissions, RestoreAll
  <2> QED
    BY <2>1, <2>2
<1>1. Chain(DemoPermissions, {RestoredOf(Code(c)) : c \in AllCodes}, 1, 2)
  BY <1>0, RestoreAllChain
<1>2. Chain(DemoRoles, {RestoredOf(Role("teacher"))} \union {ReadOf("teacher", Codes)}
                       \union {FillOf("teacher", Codes)}, 2, 12)
  <2>1. Chain(Restore(Role("teacher")), {RestoredOf(Role("teacher"))}, 2, 9)
    BY KeyPlaces, RestoreChain
  <2>2. Chain(ReadCodes("teacher", Codes), {ReadOf("teacher", Codes)}, 8 + 1, 8 + 2)
    BY RolePlaces, ReadChain
  <2>3. Chain(Fill("teacher", Codes), {FillOf("teacher", Codes)}, 8 + 3, 8 + 4)
    BY RolePlaces, FillChain
  <2>4. Chain(Fill("teacher", Codes), {FillOf("teacher", Codes)}, 10, 12)
    BY <2>3, ChainWiden
  <2>5. Chain(Restore(Role("teacher")) \o ReadCodes("teacher", Codes),
              {RestoredOf(Role("teacher"))} \union {ReadOf("teacher", Codes)}, 2, 10)
    BY <2>1, <2>2, ChainJoin
  <2>e. DemoRoles = Restore(Role("teacher")) \o ReadCodes("teacher", Codes) \o Fill("teacher", Codes)
    BY Zenon DEF DemoRoles, Restore
  <2> QED
    BY <2>4, <2>5, <2>e, ChainJoin
<1>3. Chain(DemoRoomRoles, {RestoredOf(Role("owner"))} \union {ReadOf("owner", AllCodes)}
                           \union {FillOf("owner", AllCodes)}, 12, 16)
  <2>1. Chain(Restore(Role("owner")), {RestoredOf(Role("owner"))}, 12, 13)
    BY KeyPlaces, RestoreChain
  <2>2. Chain(ReadCodes("owner", AllCodes), {ReadOf("owner", AllCodes)}, 12 + 1, 12 + 2)
    BY RolePlaces, ReadChain
  <2>3. Chain(Fill("owner", AllCodes), {FillOf("owner", AllCodes)}, 12 + 3, 12 + 4)
    BY RolePlaces, FillChain
  <2>4. Chain(Fill("owner", AllCodes), {FillOf("owner", AllCodes)}, 14, 16)
    BY <2>3, ChainWiden
  <2>5. Chain(Restore(Role("owner")) \o ReadCodes("owner", AllCodes),
              {RestoredOf(Role("owner"))} \union {ReadOf("owner", AllCodes)}, 12, 14)
    BY <2>1, <2>2, ChainJoin
  <2>e. DemoRoomRoles = Restore(Role("owner")) \o ReadCodes("owner", AllCodes) \o Fill("owner", AllCodes)
    BY Zenon DEF DemoRoomRoles, Restore
  <2> QED
    BY <2>4, <2>5, <2>e, ChainJoin
<1>4. Chain(DemoPermissions \o DemoRoles,
            {RestoredOf(Code(c)) : c \in AllCodes}
            \union ({RestoredOf(Role("teacher"))} \union {ReadOf("teacher", Codes)}
                    \union {FillOf("teacher", Codes)}), 1, 12)
  BY <1>1, <1>2, ChainJoin
<1> QED
  BY <1>3, <1>4, ChainJoin

(* The pair that finds or creates a thing, and what dresses it.            *)
FindsOf(t) == {FindOf(t), WriteOf(t)}

LEMMA ThingPlaces ==
  /\ ThingAt["university"] = 16 /\ ThingAt["faculty"] = 18 /\ ThingAt["room"] = 26
  /\ ThingAt["topic"] = 30 /\ ThingAt["message"] = 34 /\ ThingAt["task"] = 36
  /\ ThingAt["event"] = 40 /\ ThingAt["poll"] = 44 /\ ThingAt["notice"] = 50
BY DEF ThingAt

LEMMA PairChain ==
  ASSUME NEW t, NEW at \in Int, ThingAt[t] = at
  PROVE  Chain(FindOrCreate(t), FindsOf(t), at, at + 2)
<1>1. Place(FindOf(t)) = at /\ Place(WriteOf(t)) = at + 1
  BY DEF Place, FindOf, WriteOf
<1>2. FindOrCreate(t) = <<FindOf(t), WriteOf(t)>>
  BY DEF FindOrCreate, FindOf, WriteOf
<1> QED
  BY <1>1, <1>2, ChainOfTwo DEF FindsOf

LEMMA DressChain ==
  ASSUME NEW t, NEW at \in Int, ThingAt[t] = at
  PROVE  Chain(Dress(t), {DressOf(t)}, at + 3, at + 4)
<1>1. Place(DressOf(t)) = at + 3 /\ Dress(t) = <<DressOf(t)>>
  BY DEF Place, Dress, DressOf
<1> QED
  BY <1>1, ChainOfOne

LEMMA DemoUnitsChain ==
  /\ Chain(DemoUnits, FindsOf("university") \union FindsOf("faculty"), 16, 20)
  /\ Chain(DemoPositions, {RestoredOf(<<"tag">>)} \union {DressOf("faculty")}
             \union {RestoredOf(<<"position">>)} \union {KeptOf(<<"positionRole">>)}, 20, 24)
  /\ Chain(DemoUsers, {RestoredOf(User("petrov"))} \union {RestoredOf(Holds("petrov", "teacher"))}, 24, 26)
<1>1. Chain(DemoUnits, FindsOf("university") \union FindsOf("faculty"), 16, 20)
  <2>1. Chain(FindOrCreate("university"), FindsOf("university"), 16, 16 + 2)
    BY ThingPlaces, PairChain
  <2>2. Chain(FindOrCreate("faculty"), FindsOf("faculty"), 18, 18 + 2)
    BY ThingPlaces, PairChain
  <2> QED
    BY <2>1, <2>2, ChainJoin DEF DemoUnits
<1>2. Chain(DemoPositions, {RestoredOf(<<"tag">>)} \union {DressOf("faculty")}
              \union {RestoredOf(<<"position">>)} \union {KeptOf(<<"positionRole">>)}, 20, 24)
  <2> DEFINE tag == <<"tag">>
             position == <<"position">>
             positionRole == <<"positionRole">>
  <2>0. KeyPlace(tag) = 20 /\ KeyPlace(position) = 22 /\ KeyPlace(positionRole) = 23
    BY KeyPlaces
  <2>e. DemoPositions = Restore(tag) \o Dress("faculty") \o Restore(position) \o Keep(positionRole)
    BY Zenon DEF DemoPositions, Restore, Keep
  <2> HIDE DEF tag, position, positionRole
  <2>1. Chain(Restore(tag), {RestoredOf(tag)}, 20, 21)
    BY <2>0, RestoreChain
  <2>2. Chain(Dress("faculty"), {DressOf("faculty")}, 18 + 3, 18 + 4)
    BY ThingPlaces, DressChain
  <2>3. Chain(Restore(position), {RestoredOf(position)}, 22, 23)
    BY <2>0, RestoreChain
  <2>4. Chain(Keep(positionRole), {KeptOf(positionRole)}, 23, 24)
    BY <2>0, KeepChain
  <2>5. Chain(Restore(tag) \o Dress("faculty"), {RestoredOf(tag)} \union {DressOf("faculty")}, 20, 22)
    BY <2>1, <2>2, ChainJoin
  <2>6. Chain(Restore(tag) \o Dress("faculty") \o Restore(position),
              {RestoredOf(tag)} \union {DressOf("faculty")} \union {RestoredOf(position)}, 20, 23)
    BY <2>3, <2>5, ChainJoin
  <2>7. Chain(DemoPositions, {RestoredOf(tag)} \union {DressOf("faculty")} \union {RestoredOf(position)}
                             \union {KeptOf(positionRole)}, 20, 24)
    BY <2>4, <2>6, <2>e, ChainJoin
  <2> QED
    BY <2>7 DEF tag, position, positionRole
<1>3. Chain(DemoUsers, {RestoredOf(User("petrov"))} \union {RestoredOf(Holds("petrov", "teacher"))}, 24, 26)
  <2>1. Chain(Restore(User("petrov")), {RestoredOf(User("petrov"))}, 24, 25)
    BY KeyPlaces, RestoreChain
  <2>2. Chain(Restore(Holds("petrov", "teacher")), {RestoredOf(Holds("petrov", "teacher"))}, 25, 26)
    BY KeyPlaces, RestoreChain
  <2>e. DemoUsers = Restore(User("petrov")) \o Restore(Holds("petrov", "teacher"))
    BY Zenon DEF DemoUsers, Restore
  <2> QED
    BY <2>1, <2>2, <2>e, ChainJoin
<1> QED
  BY <1>1, <1>2, <1>3

LEMMA DemoRoomsChain ==
  Chain(DemoRooms,
        FindsOf("room") \union {DressOf("room")} \union FindsOf("topic") \union {DressOf("topic")}, 26, 34)
<1>1. Chain(FindOrCreate("room"), FindsOf("room"), 26, 26 + 2)
  BY ThingPlaces, PairChain
<1>2. Chain(Dress("room"), {DressOf("room")}, 26 + 3, 26 + 4)
  <2>1. ThingAt["room"] = 26
    BY ThingPlaces
  <2> QED
    BY <2>1, DressChain
<1>3. Chain(FindOrCreate("topic"), FindsOf("topic"), 30, 30 + 2)
  BY ThingPlaces, PairChain
<1>4. Chain(Dress("topic"), {DressOf("topic")}, 30 + 3, 30 + 4)
  BY ThingPlaces, DressChain
<1>5. Chain(FindOrCreate("room"), FindsOf("room"), 26, 29)
  BY <1>1, ChainWiden
<1>6. Chain(FindOrCreate("room") \o Dress("room"), FindsOf("room") \union {DressOf("room")}, 26, 30)
  BY <1>2, <1>5, ChainJoin
<1>7. Chain(FindOrCreate("room") \o Dress("room") \o FindOrCreate("topic"),
            FindsOf("room") \union {DressOf("room")} \union FindsOf("topic"), 26, 32)
  BY <1>3, <1>6, ChainJoin
<1>8. Chain(Dress("topic"), {DressOf("topic")}, 32, 34)
  BY <1>4, ChainWiden
<1> QED
  BY <1>7, <1>8, ChainJoin DEF DemoRooms

LEMMA DemoRestChain ==
  ASSUME SeedAssumption
  PROVE  Chain(DemoEvents,
               FindsOf("event") \union {DoOf("highest")} \union {EachOf("seat", g) : g \in Invited},
               40, 44)
         /\ Chain(DemoPolls,
                  FindsOf("poll") \union {DoOf("reset")} \union {EachOf("ballot", v) : v \in Voters}
                  \union {DoOf("count")} \union {EachOf("tally", o) : o \in Options}, 44, 50)
<1>0. IsFiniteSet(Invited) /\ IsFiniteSet(Voters) /\ IsFiniteSet(Options)
  BY FS_Subset DEF SeedAssumption
<1>p. Place(DoOf("seat")) = 43 /\ Place(DoOf("ballot")) = 47 /\ Place(DoOf("tally")) = 49
  BY DEF Place, DoOf
<1>1. Chain(DemoEvents,
            FindsOf("event") \union {DoOf("highest")} \union {EachOf("seat", g) : g \in Invited}, 40, 44)
  <2>1. Chain(FindOrCreate("event"), FindsOf("event"), 40, 40 + 2)
    BY ThingPlaces, PairChain
  <2>2. Chain(FindOrCreate("event") \o Do("highest"), FindsOf("event") \union {DoOf("highest")}, 40, 43)
    BY <2>1, DoChains, ChainJoin
  <2>3. Chain(Each("seat", Invited), {EachOf("seat", g) : g \in Invited}, 43, 44)
    BY <1>0, <1>p, EachChain
  <2> QED
    BY <2>2, <2>3, ChainJoin DEF DemoEvents
<1>2. Chain(DemoPolls,
            FindsOf("poll") \union {DoOf("reset")} \union {EachOf("ballot", v) : v \in Voters}
            \union {DoOf("count")} \union {EachOf("tally", o) : o \in Options}, 44, 50)
  <2> DEFINE B == {EachOf("ballot", v) : v \in Voters}
             T == {EachOf("tally", o) : o \in Options}
  <2>1. Chain(FindOrCreate("poll"), FindsOf("poll"), 44, 44 + 2)
    BY ThingPlaces, PairChain
  <2>2. Chain(Each("ballot", Voters), B, 47, 48)
    BY <1>0, <1>p, EachChain
  <2>3. Chain(Each("tally", Options), T, 49, 50)
    BY <1>0, <1>p, EachChain
  <2> HIDE DEF B, T
  <2>4. Chain(FindOrCreate("poll") \o Do("reset"), FindsOf("poll") \union {DoOf("reset")}, 44, 47)
    BY <2>1, DoChains, ChainJoin
  <2>5. Chain(FindOrCreate("poll") \o Do("reset") \o Each("ballot", Voters),
              FindsOf("poll") \union {DoOf("reset")} \union B, 44, 48)
    BY <2>2, <2>4, ChainJoin
  <2>6. Chain(FindOrCreate("poll") \o Do("reset") \o Each("ballot", Voters) \o Do("count"),
              FindsOf("poll") \union {DoOf("reset")} \union B \union {DoOf("count")}, 44, 49)
    BY <2>5, DoChains, ChainJoin
  <2>7. Chain(DemoPolls,
              FindsOf("poll") \union {DoOf("reset")} \union B \union {DoOf("count")} \union T, 44, 50)
    BY <2>3, <2>6, ChainJoin DEF DemoPolls
  <2> QED
    BY <2>7 DEF B, T
<1> QED
  BY <1>1, <1>2

LEMMA DemoChain ==
  ASSUME SeedAssumption
  PROVE  Chain(Script.demo, DemoSteps, 1, 54)
<1> DEFINE A == {RestoredOf(Code(c)) : c \in AllCodes}
                \union ({RestoredOf(Role("teacher"))} \union {ReadOf("teacher", Codes)}
                        \union {FillOf("teacher", Codes)})
                \union ({RestoredOf(Role("owner"))} \union {ReadOf("owner", AllCodes)}
                        \union {FillOf("owner", AllCodes)})
           B == FindsOf("university") \union FindsOf("faculty")
           P == {RestoredOf(<<"tag">>)} \union {DressOf("faculty")} \union {RestoredOf(<<"position">>)}
                \union {KeptOf(<<"positionRole">>)}
           Q == {RestoredOf(User("petrov"))} \union {RestoredOf(Holds("petrov", "teacher"))}
           C == FindsOf("room") \union {DressOf("room")} \union FindsOf("topic") \union {DressOf("topic")}
           D == FindsOf("event") \union {DoOf("highest")} \union {EachOf("seat", g) : g \in Invited}
           E == FindsOf("poll") \union {DoOf("reset")} \union {EachOf("ballot", v) : v \in Voters}
                \union {DoOf("count")} \union {EachOf("tally", o) : o \in Options}
           M == FindsOf("message")
           T == FindsOf("task") \union {DressOf("task")}
           N == FindsOf("notice") \union {DressOf("notice")}
<1>1. Chain(DemoPermissions \o DemoRoles \o DemoRoomRoles, A, 1, 16)
  BY DemoRightsChain
<1>u. Chain(DemoUnits, B, 16, 20) /\ Chain(DemoPositions, P, 20, 24) /\ Chain(DemoUsers, Q, 24, 26)
  BY DemoUnitsChain
<1>2. Chain(DemoRooms, C, 26, 34)
  BY DemoRoomsChain
<1>3. Chain(DemoMessages, M, 34, 34 + 2)
  BY ThingPlaces, PairChain DEF DemoMessages
<1>4. Chain(DemoTasks, T, 36, 40)
  <2>1. Chain(FindOrCreate("task"), FindsOf("task"), 36, 36 + 2)
    BY ThingPlaces, PairChain
  <2>2. Chain(Dress("task"), {DressOf("task")}, 36 + 3, 36 + 4)
    BY ThingPlaces, DressChain
  <2>3. Chain(FindOrCreate("task"), FindsOf("task"), 36, 39)
    BY <2>1, ChainWiden
  <2> QED
    BY <2>2, <2>3, ChainJoin DEF DemoTasks
<1>5. Chain(DemoEvents, D, 40, 44) /\ Chain(DemoPolls, E, 44, 50)
  BY DemoRestChain
<1>6. Chain(DemoNotifications, N, 50, 54)
  <2>1. Chain(FindOrCreate("notice"), FindsOf("notice"), 50, 50 + 2)
    BY ThingPlaces, PairChain
  <2>2. Chain(Dress("notice"), {DressOf("notice")}, 50 + 3, 50 + 4)
    BY ThingPlaces, DressChain
  <2>3. Chain(FindOrCreate("notice"), FindsOf("notice"), 50, 53)
    BY <2>1, ChainWiden
  <2> QED
    BY <2>2, <2>3, ChainJoin DEF DemoNotifications
<1>7. DemoSteps = A \union B \union P \union Q \union C \union M \union T \union D \union E \union N
  <2>1. /\ {FindOf(t) : t \in Things} \union {WriteOf(t) : t \in Things}
           = FindsOf("university") \union FindsOf("faculty") \union FindsOf("room")
             \union FindsOf("topic") \union FindsOf("message") \union FindsOf("task")
             \union FindsOf("event") \union FindsOf("poll") \union FindsOf("notice")
    <3>1. Things = {"university", "room", "task", "event", "poll", "faculty", "topic", "message", "notice"}
      BY DEF Things, ParentOf
    <3> QED
      BY <3>1 DEF FindsOf
  <2>2. {DressOf(t) : t \in Dressed} = {DressOf("faculty")} \union {DressOf("room")}
           \union {DressOf("topic")} \union {DressOf("task")} \union {DressOf("notice")}
    BY DEF Dressed
  <2>3. DemoSteps =
          {RestoredOf(Code(c)) : c \in AllCodes}
          \union {RestoredOf(Role("teacher")), ReadOf("teacher", Codes), FillOf("teacher", Codes),
                  RestoredOf(Role("owner")), ReadOf("owner", AllCodes), FillOf("owner", AllCodes),
                  RestoredOf(<<"tag">>), RestoredOf(<<"position">>), KeptOf(<<"positionRole">>),
                  RestoredOf(User("petrov")), RestoredOf(Holds("petrov", "teacher"))}
          \union ({FindOf(t) : t \in Things} \union {WriteOf(t) : t \in Things})
          \union {DressOf(t) : t \in Dressed}
          \union {DoOf("highest"), DoOf("reset"), DoOf("count")}
          \union {EachOf("seat", g) : g \in Invited} \union {EachOf("ballot", v) : v \in Voters}
          \union {EachOf("tally", o) : o \in Options}
    BY Zenon DEF DemoSteps
  <2> QED
    BY <2>1, <2>2, <2>3
<1> HIDE DEF A, B, P, Q, C, D, E, M, T, N
<1>10. Chain(DemoPermissions \o DemoRoles \o DemoRoomRoles \o DemoUnits,
           A \union B, 1, 20)
  BY <1>1, <1>u, ChainJoin
<1>11. Chain(DemoPermissions \o DemoRoles \o DemoRoomRoles \o DemoUnits \o DemoPositions,
           A \union B \union P, 1, 24)
  BY <1>10, <1>u, ChainJoin
<1>12. Chain(DemoPermissions \o DemoRoles \o DemoRoomRoles \o DemoUnits \o DemoPositions \o DemoUsers,
           A \union B \union P \union Q, 1, 26)
  BY <1>11, <1>u, ChainJoin
<1>13. Chain(DemoPermissions \o DemoRoles \o DemoRoomRoles \o DemoUnits \o DemoPositions \o DemoUsers \o DemoRooms,
           A \union B \union P \union Q \union C, 1, 34)
  BY <1>12, <1>2, ChainJoin
<1>14. Chain(DemoPermissions \o DemoRoles \o DemoRoomRoles \o DemoUnits \o DemoPositions \o DemoUsers \o DemoRooms \o DemoMessages,
           A \union B \union P \union Q \union C \union M, 1, 36)
  BY <1>13, <1>3, ChainJoin
<1>15. Chain(DemoPermissions \o DemoRoles \o DemoRoomRoles \o DemoUnits \o DemoPositions \o DemoUsers \o DemoRooms \o DemoMessages \o DemoTasks,
           A \union B \union P \union Q \union C \union M \union T, 1, 40)
  BY <1>14, <1>4, ChainJoin
<1>16. Chain(DemoPermissions \o DemoRoles \o DemoRoomRoles \o DemoUnits \o DemoPositions \o DemoUsers \o DemoRooms \o DemoMessages \o DemoTasks \o DemoEvents,
           A \union B \union P \union Q \union C \union M \union T \union D, 1, 44)
  BY <1>15, <1>5, ChainJoin
<1>17. Chain(DemoPermissions \o DemoRoles \o DemoRoomRoles \o DemoUnits \o DemoPositions \o DemoUsers \o DemoRooms \o DemoMessages \o DemoTasks \o DemoEvents \o DemoPolls,
           A \union B \union P \union Q \union C \union M \union T \union D \union E, 1, 50)
  BY <1>16, <1>5, ChainJoin
<1>18. Chain(DemoPermissions \o DemoRoles \o DemoRoomRoles \o DemoUnits \o DemoPositions \o DemoUsers \o DemoRooms \o DemoMessages \o DemoTasks \o DemoEvents \o DemoPolls \o DemoNotifications,
           A \union B \union P \union Q \union C \union M \union T \union D \union E \union N, 1, 54)
  BY <1>17, <1>6, ChainJoin
<1> QED
  BY <1>7, <1>18 DEF Script

------------------------------------------------------------------------------
(* What a run has done                                                     *)

StepsOf(p) == IF p = "base" THEN BaseSteps ELSE DemoSteps

Prefix(s, n) == {s[i] : i \in 1..(n - 1)}

DoneBy(r) == Prefix(Script[run[r].script], run[r].at)

LEMMA ScriptChain ==
  ASSUME SeedAssumption, NEW p \in {"base", "demo"}
  PROVE  /\ Chain(Script[p], StepsOf(p), 1, 54)
         /\ DOMAIN Script = {"base", "demo"}
<1>1. CASE p = "base"
  <2>1. Chain(Script.base, BaseSteps, 1, 54)
    BY BaseChain, ChainWiden
  <2> QED
    BY <1>1, <2>1 DEF StepsOf, Script
<1>2. CASE p = "demo"
  BY <1>2, DemoChain DEF StepsOf, Script
<1> QED
  BY <1>1, <1>2 DEF Script

(* What is done before a statement of a script comes before it, and what   *)
(* is not comes after.                                                     *)
LEMMA ChainPrefix ==
  ASSUME NEW s, NEW S, NEW lo \in Int, NEW hi \in Int, Chain(s, S, lo, hi),
         NEW n \in 1..Len(s)
  PROVE  /\ s[n] \in S /\ s[n] \notin Prefix(s, n)
         /\ Prefix(s, n) \subseteq S
         /\ Prefix(s, n + 1) = Prefix(s, n) \union {s[n]}
         /\ \A f \in S : f \notin Prefix(s, n) => Place(s[n]) <= Place(f)
         /\ \A f \in Prefix(s, n) : Place(f) <= Place(s[n])
         /\ n = Len(s) => Prefix(s, n + 1) = S
<1>1. /\ s \in Seq(S) /\ Len(s) \in Nat /\ DOMAIN s = 1..Len(s)
      /\ \A i \in DOMAIN s : s[i] \in S
      /\ \A e \in S : \E i \in DOMAIN s : s[i] = e
      /\ \A i, j \in DOMAIN s : i < j => Place(s[i]) <= Place(s[j]) /\ s[i] # s[j]
      /\ \A e \in S : Place(e) \in Int
  BY ElementOfSeq, LenProperties DEF Chain
<1>2. n \in Nat /\ n \in DOMAIN s /\ 1..(n - 1) \subseteq DOMAIN s
  BY <1>1
<1>3. s[n] \in S /\ Prefix(s, n) \subseteq S
  BY <1>1, <1>2 DEF Prefix
<1>4. s[n] \notin Prefix(s, n)
  BY <1>1, <1>2 DEF Prefix
<1>5. Prefix(s, n + 1) = Prefix(s, n) \union {s[n]}
  <2>1. 1..((n + 1) - 1) = 1..(n - 1) \union {n}
    BY <1>2
  <2> QED
    BY <2>1 DEF Prefix
<1>6. ASSUME NEW f \in S, f \notin Prefix(s, n)
      PROVE  Place(s[n]) <= Place(f)
  <2>1. PICK j \in DOMAIN s : s[j] = f
    BY <1>1
  <2>2. j >= n
    BY <1>1, <1>2, <1>6, <2>1 DEF Prefix
  <2> QED
    BY <1>1, <1>2, <2>1, <2>2
<1>7. ASSUME NEW f \in Prefix(s, n)
      PROVE  Place(f) <= Place(s[n])
  <2>1. PICK j \in 1..(n - 1) : s[j] = f
    BY DEF Prefix
  <2>2. j \in DOMAIN s /\ j < n
    BY <1>2
  <2> QED
    BY <1>1, <1>2, <2>1, <2>2
<1>8. ASSUME n = Len(s)
      PROVE  Prefix(s, n + 1) = S
  <2>1. 1..((n + 1) - 1) = DOMAIN s
    BY <1>1, <1>8
  <2> QED
    BY <1>1, <2>1 DEF Prefix
<1> QED
  BY <1>3, <1>4, <1>5, <1>6, <1>7, <1>8

(* The statements by what they do.                                         *)
SeedKeys == {Code(c) : c \in AllCodes} \union Named \union Links

LEMMA UpsertKeys ==
  ASSUME NEW p \in {"base", "demo"}, NEW e \in StepsOf(p), e.op = "upsert"
  PROVE  /\ e.key \in SeedKeys /\ e.restore \in BOOLEAN
         /\ Place(e) = KeyPlace(e.key)
<1>p. Place(e) = KeyPlace(e.key)
  BY DEF Place
<1>2. CASE p = "base"
  <2>1. e \in BaseSteps
    BY <1>2 DEF StepsOf
  <2>2. \/ \E c \in Codes : e = KeptOf(Code(c))
        \/ e \in {KeptOf(Role("super_admin")), KeptOf(User("super")),
                  KeptOf(Holds("super", "super_admin")), KeptOf(Role("owner"))}
    BY <2>1 DEF BaseSteps, ReadOf, WipeOf, FillReadOf, FillOf
  <2>3. \E k \in SeedKeys : e = KeptOf(k)
    BY <2>2 DEF SeedKeys, AllCodes, Named, Links, SeedRoles
  <2> QED
    BY <1>p, <2>3 DEF KeptOf
<1>3. CASE p = "demo"
  <2>1. e \in DemoSteps
    BY <1>3 DEF StepsOf
  <2>2. \/ \E c \in AllCodes : e = RestoredOf(Code(c))
        \/ e \in {RestoredOf(Role("teacher")), RestoredOf(Role("owner")),
                  RestoredOf(<<"tag">>), RestoredOf(<<"position">>), KeptOf(<<"positionRole">>),
                  RestoredOf(User("petrov")), RestoredOf(Holds("petrov", "teacher"))}
    BY <2>1 DEF DemoSteps, ReadOf, FillOf, FindOf, WriteOf, DressOf, DoOf, EachOf
  <2>3. PICK k \in SeedKeys : e = KeptOf(k) \/ e = RestoredOf(k)
    BY <2>2 DEF SeedKeys, Named, Links, SeedRoles
  <2>4. e.key = k /\ (e.restore = TRUE \/ e.restore = FALSE)
    BY <2>3 DEF KeptOf, RestoredOf
  <2> QED
    BY <1>p, <2>4
<1> QED
  BY <1>2, <1>3

LEMMA OtherOps ==
  ASSUME NEW p \in {"base", "demo"}, NEW e \in StepsOf(p)
  PROVE  /\ e.op = "read" => \/ p = "base" /\ e \in {ReadOf("super_admin", {}), ReadOf("owner", {})}
                             \/ p = "demo" /\ e \in {ReadOf("teacher", Codes), ReadOf("owner", AllCodes)}
         /\ e.op = "wipe" => p = "base" /\ e \in {WipeOf("super_admin"), WipeOf("owner")}
         /\ e.op = "fill" => \/ p = "base" /\ e \in {FillReadOf("super_admin"), FillOf("owner", Codes)}
                             \/ p = "demo" /\ e \in {FillOf("teacher", Codes), FillOf("owner", AllCodes)}
         /\ e.op = "find" => p = "demo" /\ \E t \in Things : e = FindOf(t)
         /\ e.op = "write" => p = "demo" /\ \E t \in Things : e = WriteOf(t)
         /\ e.op = "dress" => p = "demo" /\ \E t \in Dressed : e = DressOf(t)
         /\ e.op = "seat" => p = "demo" /\ \E g \in Invited : e = EachOf("seat", g)
         /\ e.op = "ballot" => p = "demo" /\ \E v \in Voters : e = EachOf("ballot", v)
         /\ e.op = "tally" => p = "demo" /\ \E o \in Options : e = EachOf("tally", o)
         /\ \A op \in {"highest", "reset", "count"} : e.op = op => p = "demo" /\ e = DoOf(op)
<1>1. CASE p = "base"
  <2>1. e \in BaseSteps
    BY <1>1 DEF StepsOf
  <2>2. \/ e.op = "upsert"
        \/ e \in {ReadOf("super_admin", {}), WipeOf("super_admin"), FillReadOf("super_admin"),
                  ReadOf("owner", {}), WipeOf("owner"), FillOf("owner", Codes)}
    BY <2>1 DEF BaseSteps, KeptOf
  <2> QED
    BY <1>1, <2>2 DEF ReadOf, WipeOf, FillReadOf, FillOf
<1>2. CASE p = "demo"
  <2>1. e \in DemoSteps
    BY <1>2 DEF StepsOf
  <2>2. \/ e.op = "upsert"
        \/ e \in {ReadOf("teacher", Codes), FillOf("teacher", Codes),
                  ReadOf("owner", AllCodes), FillOf("owner", AllCodes)}
        \/ \E t \in Things : e = FindOf(t) \/ e = WriteOf(t)
        \/ \E t \in Dressed : e = DressOf(t)
        \/ e \in {DoOf("highest"), DoOf("reset"), DoOf("count")}
        \/ \E g \in Invited : e = EachOf("seat", g)
        \/ \E v \in Voters : e = EachOf("ballot", v)
        \/ \E o \in Options : e = EachOf("tally", o)
    BY <2>1 DEF DemoSteps, KeptOf, RestoredOf
  <2> QED
    BY <1>2, <2>2 DEF ReadOf, FillOf, FindOf, WriteOf, DressOf, DoOf, EachOf
<1> QED
  BY <1>1, <1>2

(* Places of the statements other facts are about.                         *)
LEMMA StepPlaces ==
  /\ \A t \in Things : /\ ThingAt[t] \in 16..50
                       /\ Place(FindOf(t)) = ThingAt[t] /\ Place(WriteOf(t)) = ThingAt[t] + 1
                       /\ Place(DressOf(t)) = ThingAt[t] + 3
  /\ \A t, u \in Things : t # u => ThingAt[t] + 2 <= ThingAt[u] \/ ThingAt[u] + 2 <= ThingAt[t]
  /\ \A t \in DOMAIN ParentOf : /\ t \in Things /\ ParentOf[t] \in Things
                                /\ ThingAt[ParentOf[t]] + 1 < ThingAt[t]
  /\ \A g : Place(EachOf("seat", g)) = 43 /\ Place(EachOf("ballot", g)) = 47 /\ Place(EachOf("tally", g)) = 49
  /\ Place(DoOf("highest")) = 42 /\ Place(DoOf("reset")) = 46 /\ Place(DoOf("count")) = 48
  /\ \A n \in SeedRoles : RoleAt[n] \in {2, 8, 12}
  /\ \A n, C : /\ Place(ReadOf(n, C)) = RoleAt[n] + 1 /\ Place(WipeOf(n)) = RoleAt[n] + 2
               /\ Place(FillReadOf(n)) = RoleAt[n] + 3 /\ Place(FillOf(n, C)) = RoleAt[n] + 3
  /\ \A k : Place(KeptOf(k)) = KeyPlace(k) /\ Place(RestoredOf(k)) = KeyPlace(k)
  /\ \A c : KeyPlace(Code(c)) = 1
<1>1. \A t \in Things : /\ ThingAt[t] \in 16..50
                        /\ Place(FindOf(t)) = ThingAt[t] /\ Place(WriteOf(t)) = ThingAt[t] + 1
                        /\ Place(DressOf(t)) = ThingAt[t] + 3
  <2>1. \A t \in Things : ThingAt[t] \in 16..50
    BY DEF ThingAt, Things, ParentOf
  <2> QED
    BY <2>1 DEF Place, FindOf, WriteOf, DressOf
<1>2. \A t, u \in Things : t # u => ThingAt[t] + 2 <= ThingAt[u] \/ ThingAt[u] + 2 <= ThingAt[t]
  BY DEF ThingAt, Things, ParentOf
<1>3. \A t \in DOMAIN ParentOf : /\ t \in Things /\ ParentOf[t] \in Things
                                 /\ ThingAt[ParentOf[t]] + 1 < ThingAt[t]
  BY DEF ThingAt, Things, ParentOf
<1>4. \A g : Place(EachOf("seat", g)) = 43 /\ Place(EachOf("ballot", g)) = 47 /\ Place(EachOf("tally", g)) = 49
  BY DEF EachOf, Place
<1>5. Place(DoOf("highest")) = 42 /\ Place(DoOf("reset")) = 46 /\ Place(DoOf("count")) = 48
  BY DEF DoOf, Place
<1>6. \A n \in SeedRoles : RoleAt[n] \in {2, 8, 12}
  BY DEF SeedRoles, RoleAt
<1>7. \A n, C : /\ Place(ReadOf(n, C)) = RoleAt[n] + 1 /\ Place(WipeOf(n)) = RoleAt[n] + 2
                /\ Place(FillReadOf(n)) = RoleAt[n] + 3 /\ Place(FillOf(n, C)) = RoleAt[n] + 3
  BY DEF Place, ReadOf, WipeOf, FillReadOf, FillOf
<1>8. \A k : Place(KeptOf(k)) = KeyPlace(k) /\ Place(RestoredOf(k)) = KeyPlace(k)
  BY DEF Place, KeptOf, RestoredOf
<1>9. \A c : KeyPlace(Code(c)) = 1
  BY DEF KeyPlace, Code
<1> QED
  BY <1>1, <1>2, <1>3, <1>4, <1>5, <1>6, <1>7, <1>8, <1>9

(* A statement that finds or writes a thing stands alone in its place.     *)
LEMMA FindThenWrite ==
  ASSUME NEW p \in {"base", "demo"}, NEW e \in StepsOf(p), NEW u \in Things,
         FindOf(u) \in StepsOf(p), ThingAt[u] <= Place(e), Place(e) <= ThingAt[u] + 1
  PROVE  e = FindOf(u) \/ e = WriteOf(u)
<1>1. p = "demo" /\ e \in DemoSteps
  <2>1. FindOf(u).op = "find"
    BY DEF FindOf
  <2> QED
    BY <2>1, OtherOps DEF StepsOf
<1>2. ThingAt[u] \in {16, 18, 26, 30, 34, 36, 40, 44, 50}
  BY DEF ThingAt, Things, ParentOf
<1>3. CASE e.op = "upsert"
  <2>1. \/ \E c \in AllCodes : e = RestoredOf(Code(c))
        \/ e \in {RestoredOf(Role("teacher")), RestoredOf(Role("owner")),
                  RestoredOf(<<"tag">>), RestoredOf(<<"position">>), KeptOf(<<"positionRole">>),
                  RestoredOf(User("petrov")), RestoredOf(Holds("petrov", "teacher"))}
    BY <1>1, <1>3 DEF DemoSteps, ReadOf, FillOf, FindOf, WriteOf, DressOf, DoOf, EachOf
  <2>2. Place(e) \in {1, 8, 12, 20, 22, 23, 24, 25}
    BY <2>1, KeyPlaces, StepPlaces
  <2> QED
    BY <1>2, <2>2
<1>4. CASE e.op \in {"read", "fill", "wipe"}
  <2>1. \E n \in SeedRoles : Place(e) \in {RoleAt[n] + 1, RoleAt[n] + 2, RoleAt[n] + 3}
    <3>1. \E n \in SeedRoles, C \in {Codes, AllCodes} : e = ReadOf(n, C) \/ e = FillOf(n, C)
      BY <1>1, <1>4, OtherOps DEF SeedRoles
    <3> QED
      BY <3>1, StepPlaces
  <2>2. Place(e) \in {3, 4, 5, 9, 10, 11, 13, 14, 15}
    BY <2>1, StepPlaces
  <2> QED
    BY <1>2, <2>2
<1>5. CASE e.op \in {"find", "write"}
  <2>1. PICK t \in Things : e = FindOf(t) \/ e = WriteOf(t)
    BY <1>1, <1>5, OtherOps
  <2>2. Place(e) \in {ThingAt[t], ThingAt[t] + 1} /\ ThingAt[t] \in Int
    BY <2>1, StepPlaces
  <2>3. CASE t = u
    BY <2>1, <2>3
  <2>4. CASE t # u
    BY <1>2, <2>2, <2>4, StepPlaces
  <2> QED
    BY <2>3, <2>4
<1>6. CASE e.op = "dress"
  <2>1. PICK t \in Dressed : e = DressOf(t)
    BY <1>1, <1>6, OtherOps
  <2>2. t \in Things /\ ThingAt[t] \in {18, 26, 30, 36, 50}
    BY DEF Dressed, Things, ParentOf, ThingAt
  <2>3. Place(e) \in {21, 29, 33, 39, 53}
    BY <2>1, <2>2, StepPlaces
  <2> QED
    BY <1>2, <2>3
<1>7. CASE e.op \in {"highest", "reset", "count", "seat", "ballot", "tally"}
  <2>1. Place(e) \in {42, 43, 46, 47, 48, 49}
    BY <1>1, <1>7, OtherOps, StepPlaces
  <2> QED
    BY <1>2, <2>1
<1>8. e.op \in {"upsert", "read", "fill", "wipe", "find", "write", "dress", "highest", "reset",
                "count", "seat", "ballot", "tally"}
  BY <1>1 DEF DemoSteps, KeptOf, RestoredOf, ReadOf, FillOf, FindOf, WriteOf, DressOf, DoOf, EachOf
<1> QED
  BY <1>3, <1>4, <1>5, <1>6, <1>7, <1>8

------------------------------------------------------------------------------
(* The invariant                                                           *)

Reads == {Nothing} \union (SUBSET AllCodes) \union Nat \union [Options -> Nat]

RunsOn(S) ==
  [script : {"none", "base", "demo"}, at : Nat, state : {"idle", "runs", "done", "failed"},
   read : Reads, hit : S \union {Nothing}, found : SUBSET S]

Of(S, thing) == {c \in S : c.thing = thing}

SeedTypes ==
  /\ run \in [Runs -> RunsOn(copy)]
  /\ IsFiniteSet(copy) /\ Nothing \notin copy /\ removed \subseteq copy
  /\ \A c \in copy : /\ c.thing \in Things /\ c.number \in Nat
                     /\ c.number <= Cardinality(Of(copy, c.thing))
  /\ \E b \in Nat : \A y \in seat : y[3] \in 0..b

(* Where a run is in its script.                                           *)
PlaceOK(r) ==
  run[r].state # "idle" =>
    /\ run[r].script \in {"base", "demo"}
    /\ run[r].at \in 1..(Len(Script[run[r].script]) + 1)
    /\ run[r].state \in {"runs", "failed"} => run[r].at # Len(Script[run[r].script]) + 1
    /\ run[r].state = "done" => run[r].at = Len(Script[run[r].script]) + 1

(* Of each thing written a run has one copy, with what it belongs to; and  *)
(* it holds the copy it is about to write.                                 *)
FoundOK(r) ==
  run[r].state # "idle" =>
    /\ \A c, d \in run[r].found : c.thing = d.thing => c = d
    /\ \A c \in run[r].found : WriteOf(c.thing) \in DoneBy(r)
    /\ \A t \in Things : WriteOf(t) \in DoneBy(r) => \E c \in run[r].found : c.thing = t
    /\ \A c \in run[r].found : c.thing \in DOMAIN ParentOf => c.parent \in run[r].found
    /\ \A t \in Things : FindOf(t) \in DoneBy(r) /\ WriteOf(t) \notin DoneBy(r) /\ run[r].hit # Nothing =>
         run[r].hit \in Alike(t, ParentIn(r, t))

(* A run that is about to make a copy has none to find.                    *)
SearchOK(r) ==
  Running(r) /\ (overlapped => r \notin disturbed) =>
    \A t \in Things : FindOf(t) \in DoneBy(r) /\ WriteOf(t) \notin DoneBy(r) /\ run[r].hit = Nothing =>
      Matches(t, ParentIn(r, t)) = {}

CauseOK(r) ==
  run[r].state = "failed" /\ r \notin disturbed =>
    \E t \in Unique : Alike(t, ParentIn(r, t)) # {} /\ Matches(t, ParentIn(r, t)) = {}

(* What a run has done is still there if nobody else has written.          *)
Undisturbed(r) == run[r].state \in {"runs", "done"} /\ r \notin disturbed

RowsOK(r) ==
  /\ \A e \in DoneBy(r) : e.op = "upsert" =>
       e.key \in live \union deleted /\ (e.restore => e.key \in live)
  /\ \A n \in SeedRoles, C \in SUBSET AllCodes : FillOf(n, C) \in DoneBy(r) =>
       \A c \in C : Grant(n, c) \in live
  /\ FillReadOf("super_admin") \in DoneBy(r) =>
       \A c \in AllCodes : Code(c) \in live => Grant("super_admin", c) \in live
  /\ ReadOf("super_admin", {}) \in DoneBy(r) /\ FillReadOf("super_admin") \notin DoneBy(r) =>
       run[r].read = {c \in AllCodes : Code(c) \in live}

HeldOK(r) ==
  /\ run[r].found \cap removed = {}
  /\ \A t \in Dressed : DressOf(t) \in DoneBy(r) => Found(r, t) \in dressed
  /\ \A t \in Things : FindOf(t) \in DoneBy(r) /\ WriteOf(t) \notin DoneBy(r) =>
       run[r].hit \notin removed

(* The number read of the event's guests is one, disturbed or not.         *)
NumberOK(r) ==
  run[r].state # "idle" /\ DoOf("highest") \in DoneBy(r) /\ DoOf("count") \notin DoneBy(r) =>
    run[r].read \in Nat

SeatsOK(r) ==
  /\ DoOf("highest") \in DoneBy(r) /\ DoOf("count") \notin DoneBy(r) =>
       \A m \in Numbers(Found(r, "event")) : m <= run[r].read
  /\ \A g \in Invited : EachOf("seat", g) \in DoneBy(r) => g \in Seated(Found(r, "event"))

CountsOf(c) == {x \in chosen : x[1] = c}

TallyOK(r) ==
  /\ DoOf("reset") \in DoneBy(r) /\ DoOf("count") \notin DoneBy(r) => CountsOf(Found(r, "poll")) = {}
  /\ DoOf("count") \in DoneBy(r) =>
       /\ run[r].read = [o \in Options |-> Ballots(Found(r, "poll"), o)]
       /\ \A o \in Options :
            /\ EachOf("tally", o) \in DoneBy(r) =>
                 CountOf(Found(r, "poll"), o) = Ballots(Found(r, "poll"), o)
            /\ EachOf("tally", o) \notin DoneBy(r) => CountOf(Found(r, "poll"), o) = 0

RunOK(r) ==
  /\ PlaceOK(r) /\ FoundOK(r) /\ NumberOK(r) /\ SearchOK(r) /\ CauseOK(r)
  /\ Undisturbed(r) => RowsOK(r) /\ HeldOK(r) /\ SeatsOK(r) /\ TallyOK(r)

(* Unless two runs were under way together, at most one is, and nothing    *)
(* exists twice.                                                           *)
Alone == ~overlapped => \A r, s \in Runs : Running(r) /\ Running(s) => r = s

OneOfEach ==
  ~overlapped => \A c, d \in copy \ removed : c.thing = d.thing /\ c.parent = d.parent => c = d

SeedInv == SeedTypes /\ Alone /\ OneOfEach /\ \A r \in Runs : RunOK(r)

------------------------------------------------------------------------------
(* Where a run is *)

(* A statement about to be executed: those in places before it are done,   *)
(* those in places behind it are not.                                      *)
LEMMA EntryFacts ==
  ASSUME SeedAssumption, NEW r \in Runs, PlaceOK(r), Running(r) \/ run[r].state = "failed"
  PROVE  /\ run[r].script \in {"base", "demo"}
         /\ Entry(r) \in StepsOf(run[r].script) /\ Entry(r) \notin DoneBy(r)
         /\ DoneBy(r) \subseteq StepsOf(run[r].script)
         /\ \A f \in StepsOf(run[r].script) : Place(f) \in Int
         /\ \A f \in StepsOf(run[r].script) : f \notin DoneBy(r) => Place(Entry(r)) <= Place(f)
         /\ \A f \in DoneBy(r) : Place(f) <= Place(Entry(r))
<1> DEFINE p == run[r].script
           s == Script[p]
<1>1. p \in {"base", "demo"} /\ run[r].at \in 1..(Len(s) + 1) /\ run[r].at # Len(s) + 1
  BY DEF PlaceOK, Running
<1>2. Chain(s, StepsOf(p), 1, 54)
  BY <1>1, ScriptChain
<1>3. Len(s) \in Nat
  BY <1>2, LenProperties DEF Chain
<1>4. run[r].at \in 1..Len(s)
  BY <1>1, <1>3
<1>5. Entry(r) = s[run[r].at] /\ DoneBy(r) = Prefix(s, run[r].at)
  BY DEF Entry, DoneBy
<1>6. \A f \in StepsOf(p) : Place(f) \in Int
  BY <1>2 DEF Chain
<1> HIDE DEF s, p
<1>7. PICK n \in 1..Len(s) : n = run[r].at
  BY <1>4
<1>8. /\ s[n] \in StepsOf(p) /\ s[n] \notin Prefix(s, n)
      /\ Prefix(s, n) \subseteq StepsOf(p)
      /\ \A f \in StepsOf(p) : f \notin Prefix(s, n) => Place(s[n]) <= Place(f)
      /\ \A f \in Prefix(s, n) : Place(f) <= Place(s[n])
  BY <1>2, ChainPrefix
<1> QED
  BY <1>1, <1>5, <1>6, <1>7, <1>8 DEF p

LEMMA DoneFacts ==
  ASSUME SeedAssumption, NEW r \in Runs, PlaceOK(r), run[r].state = "done"
  PROVE  run[r].script \in {"base", "demo"} /\ DoneBy(r) = StepsOf(run[r].script)
<1> DEFINE p == run[r].script
           s == Script[p]
<1>1. p \in {"base", "demo"} /\ run[r].at = Len(s) + 1
  BY DEF PlaceOK
<1>2. Chain(s, StepsOf(p), 1, 54)
  BY <1>1, ScriptChain
<1>3. /\ s \in Seq(StepsOf(p)) /\ Len(s) \in Nat /\ DOMAIN s = 1..Len(s)
      /\ \A i \in DOMAIN s : s[i] \in StepsOf(p)
      /\ \A e \in StepsOf(p) : \E i \in DOMAIN s : s[i] = e
  BY <1>2, ElementOfSeq, LenProperties DEF Chain
<1>4. 1..(run[r].at - 1) = DOMAIN s
  BY <1>1, <1>3
<1>5. DoneBy(r) = {s[i] : i \in DOMAIN s}
  BY <1>4 DEF DoneBy, Prefix
<1> HIDE DEF s
<1>6. {s[i] : i \in DOMAIN s} = StepsOf(p)
  BY <1>3
<1> QED
  BY <1>1, <1>5, <1>6

(* What comes of a statement: it is done, and nothing else is.             *)
LEMMA GoesOn ==
  ASSUME SeedAssumption, SeedTypes, NEW r \in Runs, PlaceOK(r), Running(r),
         NEW S, NEW w \in RunsOn(S), Goes(r, w), copy \subseteq S,
         w.script = run[r].script, w.at = run[r].at
  PROVE  /\ run' \in [Runs -> RunsOn(S)]
         /\ \A s \in Runs \ {r} : run'[s] = run[s]
         /\ run'[r].script = run[r].script /\ run'[r].state \in {"runs", "done"}
         /\ run'[r].read = w.read /\ run'[r].hit = w.hit /\ run'[r].found = w.found
         /\ DoneBy(r)' = DoneBy(r) \union {Entry(r)}
         /\ PlaceOK(r)'
<1> DEFINE p == run[r].script
           s == Script[p]
           n == run[r].at
<1>1. p \in {"base", "demo"} /\ n \in 1..(Len(s) + 1) /\ n # Len(s) + 1
  BY DEF PlaceOK, Running
<1>2. Chain(s, StepsOf(p), 1, 54)
  BY <1>1, ScriptChain
<1>3. Len(s) \in Nat
  BY <1>2, LenProperties DEF Chain
<1>4. n \in 1..Len(s) /\ n \in Nat
  BY <1>1, <1>3
<1>5. PICK st \in {"runs", "done"} : /\ st = IF n = Len(s) THEN "done" ELSE "runs"
                                     /\ run' = [run EXCEPT ![r] = [w EXCEPT !.at = n + 1, !.state = st]]
  <2>1. run' = [run EXCEPT ![r] =
          [w EXCEPT !.at = @ + 1, !.state = IF w.at = Len(Script[w.script]) THEN "done" ELSE "runs"]]
    BY DEF Goes
  <2> QED
    BY <2>1
<1> HIDE DEF s
<1>6. PICK m \in Nat : m = n + 1
  BY <1>4
<1>7. PICK z \in RunsOn(S) :
         /\ z = [w EXCEPT !.at = m, !.state = st]
         /\ z.script = w.script /\ z.at = m /\ z.state = st
         /\ z.read = w.read /\ z.hit = w.hit /\ z.found = w.found
  <2>1. [w EXCEPT !.at = m, !.state = st] \in RunsOn(S)
    BY DEF RunsOn
  <2>2. PICK z : z = [w EXCEPT !.at = m, !.state = st]
    OBVIOUS
  <2>3. /\ z.script = w.script /\ z.at = m /\ z.state = st
        /\ z.read = w.read /\ z.hit = w.hit /\ z.found = w.found
    BY <2>2 DEF RunsOn
  <2> QED
    BY <2>1, <2>2, <2>3
<1>8. run' = [run EXCEPT ![r] = z] /\ run'[r] = z
  BY <1>5, <1>6, <1>7 DEF SeedTypes
<1>9. run' \in [Runs -> RunsOn(S)] /\ \A q \in Runs \ {r} : run'[q] = run[q]
  <2>1. \A q \in Runs : run[q] \in RunsOn(S)
    <3>1. RunsOn(copy) \subseteq RunsOn(S)
      BY DEF RunsOn
    <3> QED
      BY <3>1 DEF SeedTypes
  <2> QED
    BY <1>7, <1>8, <2>1 DEF SeedTypes
<1>10. /\ run'[r].script = p /\ run'[r].at = m /\ run'[r].state = st
       /\ run'[r].read = w.read /\ run'[r].hit = w.hit /\ run'[r].found = w.found
  BY <1>7, <1>8
<1>11. DoneBy(r)' = DoneBy(r) \union {Entry(r)}
  <2>1. DoneBy(r)' = Prefix(s, n + 1)
    BY <1>6, <1>10 DEF DoneBy, s
  <2>2. DoneBy(r) = Prefix(s, n) /\ Entry(r) = s[n]
    BY DEF DoneBy, Entry, s
  <2>3. PICK k \in 1..Len(s) : k = n
    BY <1>4
  <2>4. Prefix(s, k + 1) = Prefix(s, k) \union {s[k]}
    <3>1. PICK S0 : Chain(s, S0, 1, 54)
      BY <1>2
    <3> QED
      BY <3>1, ChainPrefix
  <2> QED
    BY <2>1, <2>2, <2>3, <2>4
<1>12. PlaceOK(r)'
  BY <1>1, <1>3, <1>4, <1>5, <1>6, <1>10 DEF PlaceOK, s
<1> QED
  BY <1>5, <1>9, <1>10, <1>11, <1>12

------------------------------------------------------------------------------
(* The order of statements                                                 *)

(* A run that has done a statement has done those in places before it.     *)
LEMMA Behind ==
  ASSUME SeedAssumption, NEW r \in Runs, PlaceOK(r), run[r].state \in {"runs", "done", "failed"},
         NEW f \in StepsOf(run[r].script), NEW g \in DoneBy(r), Place(f) < Place(g)
  PROVE  f \in DoneBy(r)
<1>1. CASE run[r].state = "done"
  BY <1>1, DoneFacts
<1>2. CASE run[r].state # "done"
  <2>1. Running(r) \/ run[r].state = "failed"
    BY <1>2 DEF Running
  <2>2. /\ \A h \in StepsOf(run[r].script) : Place(h) \in Int
        /\ \A h \in StepsOf(run[r].script) : h \notin DoneBy(r) => Place(Entry(r)) <= Place(h)
        /\ \A h \in DoneBy(r) : Place(h) <= Place(Entry(r))
        /\ Entry(r) \in StepsOf(run[r].script) /\ DoneBy(r) \subseteq StepsOf(run[r].script)
    BY <2>1, EntryFacts
  <2>3. /\ Place(f) \in Int /\ Place(g) \in Int /\ Place(Entry(r)) \in Int
        /\ Place(g) <= Place(Entry(r))
    BY <2>2
  <2>4. ~(Place(Entry(r)) <= Place(f))
    BY <2>3
  <2> QED
    BY <2>2, <2>4
<1> QED
  BY <1>1, <1>2

LEMMA DemoHas ==
  ASSUME NEW p \in {"base", "demo"}, NEW e \in StepsOf(p), e.op \in {"find", "write", "dress", "seat", "highest", "reset", "ballot", "count", "tally"}
  PROVE  /\ p = "demo"
         /\ \A t \in Things : FindOf(t) \in StepsOf(p) /\ WriteOf(t) \in StepsOf(p)
         /\ \A t \in Dressed : DressOf(t) \in StepsOf(p)
         /\ \A g \in Invited : EachOf("seat", g) \in StepsOf(p)
         /\ \A v \in Voters : EachOf("ballot", v) \in StepsOf(p)
         /\ \A o \in Options : EachOf("tally", o) \in StepsOf(p)
         /\ DoOf("highest") \in StepsOf(p) /\ DoOf("reset") \in StepsOf(p) /\ DoOf("count") \in StepsOf(p)
<1>1. p = "demo"
  BY OtherOps
<1> QED
  BY <1>1 DEF StepsOf, DemoSteps

(* Between the search for a thing and the write of it there is nothing.    *)
LEMMA Between ==
  ASSUME SeedAssumption, NEW r \in Runs, PlaceOK(r), Running(r) \/ run[r].state = "failed",
         NEW t \in Things, FindOf(t) \in DoneBy(r), WriteOf(t) \notin DoneBy(r)
  PROVE  Entry(r) = WriteOf(t)
<1>1. /\ run[r].script \in {"base", "demo"}
      /\ Entry(r) \in StepsOf(run[r].script) /\ Entry(r) \notin DoneBy(r)
      /\ DoneBy(r) \subseteq StepsOf(run[r].script)
      /\ \A f \in StepsOf(run[r].script) : f \notin DoneBy(r) => Place(Entry(r)) <= Place(f)
      /\ \A f \in DoneBy(r) : Place(f) <= Place(Entry(r))
  BY EntryFacts
<1>2. FindOf(t).op = "find" /\ FindOf(t) \in StepsOf(run[r].script)
  BY <1>1 DEF FindOf
<1>3. WriteOf(t) \in StepsOf(run[r].script)
  BY <1>1, <1>2, DemoHas
<1>4. ThingAt[t] <= Place(Entry(r)) /\ Place(Entry(r)) <= ThingAt[t] + 1
  BY <1>1, <1>3, StepPlaces
<1>5. Entry(r) = FindOf(t) \/ Entry(r) = WriteOf(t)
  BY <1>1, <1>2, <1>4, FindThenWrite
<1> QED
  BY <1>1, <1>5

(* And before the search for what belongs to a thing, that is written.     *)
LEMMA ParentWritten ==
  ASSUME SeedAssumption, NEW r \in Runs, PlaceOK(r), Running(r) \/ run[r].state = "failed",
         NEW t \in DOMAIN ParentOf,
         FindOf(t) \in DoneBy(r) \/ Entry(r) = FindOf(t) \/ Entry(r) = WriteOf(t)
  PROVE  WriteOf(ParentOf[t]) \in DoneBy(r)
<1>1. /\ run[r].script \in {"base", "demo"}
      /\ Entry(r) \in StepsOf(run[r].script)
      /\ DoneBy(r) \subseteq StepsOf(run[r].script)
      /\ \A f \in StepsOf(run[r].script) : f \notin DoneBy(r) => Place(Entry(r)) <= Place(f)
      /\ \A f \in DoneBy(r) : Place(f) <= Place(Entry(r))
      /\ \A f \in StepsOf(run[r].script) : Place(f) \in Int
  BY EntryFacts
<1>2. /\ t \in Things /\ ParentOf[t] \in Things
      /\ ThingAt[t] \in Int /\ ThingAt[ParentOf[t]] \in Int /\ ThingAt[ParentOf[t]] + 1 < ThingAt[t]
      /\ Place(FindOf(t)) = ThingAt[t] /\ Place(WriteOf(t)) = ThingAt[t] + 1
      /\ Place(WriteOf(ParentOf[t])) = ThingAt[ParentOf[t]] + 1
  BY StepPlaces
<1>3. Place(Entry(r)) \in Int /\ ThingAt[t] <= Place(Entry(r))
  BY <1>1, <1>2
<1>4. FindOf(t).op = "find" /\ WriteOf(t).op = "write"
  BY DEF FindOf, WriteOf
<1>5. WriteOf(ParentOf[t]) \in StepsOf(run[r].script)
  BY <1>1, <1>2, <1>4, DemoHas
<1>6. ~(Place(Entry(r)) <= Place(WriteOf(ParentOf[t])))
  BY <1>2, <1>3
<1> QED
  BY <1>1, <1>5, <1>6

------------------------------------------------------------------------------
(* What a run has found                                                    *)

LEMMA FoundHas ==
  ASSUME NEW r \in Runs, FoundOK(r), run[r].state # "idle",
         NEW t \in Things, WriteOf(t) \in DoneBy(r)
  PROVE  Found(r, t) \in run[r].found /\ Found(r, t).thing = t
<1>1. \E c \in run[r].found : c.thing = t
  BY DEF FoundOK
<1> QED
  BY <1>1 DEF Found

LEMMA FoundIs ==
  ASSUME NEW r \in Runs, FoundOK(r), run[r].state # "idle", NEW c \in run[r].found
  PROVE  Found(r, c.thing) = c
<1>1. \A d \in run[r].found : d.thing = c.thing => d = c
  BY DEF FoundOK
<1>2. \E d \in run[r].found : d.thing = c.thing
  OBVIOUS
<1>3. Found(r, c.thing) \in run[r].found /\ Found(r, c.thing).thing = c.thing
  BY <1>2 DEF Found
<1> QED
  BY <1>1, <1>3

LEMMA SameFound ==
  ASSUME NEW r \in Runs, run'[r].found = run[r].found
  PROVE  /\ \A t : Found(r, t)' = Found(r, t)
         /\ \A t : ParentIn(r, t)' = ParentIn(r, t)
<1>1. \A t : Found(r, t)' = Found(r, t)
  BY DEF Found
<1> QED
  BY <1>1 DEF ParentIn

LEMMA ParentFound ==
  ASSUME SeedAssumption, NEW r \in Runs, PlaceOK(r), FoundOK(r), Running(r) \/ run[r].state = "failed",
         NEW t \in DOMAIN ParentOf,
         FindOf(t) \in DoneBy(r) \/ Entry(r) = FindOf(t) \/ Entry(r) = WriteOf(t)
  PROVE  /\ WriteOf(ParentOf[t]) \in DoneBy(r) /\ ParentOf[t] \in Things
         /\ ParentIn(r, t) = Found(r, ParentOf[t])
         /\ ParentIn(r, t) \in run[r].found
<1>1. WriteOf(ParentOf[t]) \in DoneBy(r)
  BY ParentWritten
<1>2. ParentOf[t] \in Things
  BY StepPlaces
<1>3. ParentIn(r, t) = Found(r, ParentOf[t])
  BY DEF ParentIn
<1>4. run[r].state # "idle"
  BY DEF Running
<1> QED
  BY <1>1, <1>2, <1>3, <1>4, FoundHas

(* A run has written one more thing: the others are found as before.       *)
LEMMA FoundStays ==
  ASSUME NEW r \in Runs, FoundOK(r), run[r].state # "idle",
         NEW c, run'[r].found = run[r].found \union {c},
         NEW t \in Things, WriteOf(t) \in DoneBy(r), c.thing # t
  PROVE  Found(r, t)' = Found(r, t)
<1>1. PICK d \in run[r].found : d.thing = t
  BY DEF FoundOK
<1>2. \A x \in run[r].found : x.thing = t => x = d
  BY <1>1 DEF FoundOK
<1>3. PICK F : F = run'[r].found
  OBVIOUS
<1>4. d \in F /\ \A x \in F : x.thing = t => x = d
  BY <1>1, <1>2, <1>3
<1>5. (CHOOSE x \in F : x.thing = t) = d
  BY <1>1, <1>4
<1>6. Found(r, t)' = d
  BY <1>3, <1>5 DEF Found
<1>7. Found(r, t) = d
  BY <1>1, <1>2 DEF Found
<1> QED
  BY <1>6, <1>7

------------------------------------------------------------------------------
(* A step of one run, as the others see it                                 *)

LEMMA SameHolds ==
  ASSUME NEW s \in Runs, run'[s] = run[s], UNCHANGED dbVars
  PROVE  /\ RowsOK(s) => RowsOK(s)'
         /\ HeldOK(s) => HeldOK(s)'
         /\ SeatsOK(s) => SeatsOK(s)'
         /\ TallyOK(s) => TallyOK(s)'
<1>1. DoneBy(s)' = DoneBy(s) /\ \A t : Found(s, t)' = Found(s, t)
  <2>1. DoneBy(s)' = DoneBy(s)
    BY DEF DoneBy
  <2> QED
    BY <2>1, SameFound
<1>2. UNCHANGED <<live, deleted, copy, removed, dressed, seat, chosen, ballot>>
  BY DEF dbVars
<1>3. RowsOK(s) => RowsOK(s)'
  BY <1>1, <1>2 DEF RowsOK
<1>4. HeldOK(s) => HeldOK(s)'
  BY <1>1, <1>2 DEF HeldOK
<1>5. \A c : Numbers(c)' = Numbers(c) /\ Seated(c)' = Seated(c)
  BY <1>2 DEF Numbers, Seated
<1>6. SeatsOK(s) => SeatsOK(s)'
  BY <1>1, <1>5 DEF SeatsOK
<1>7. /\ \A c : CountsOf(c)' = CountsOf(c)
      /\ \A c, o : CountOf(c, o)' = CountOf(c, o) /\ Ballots(c, o)' = Ballots(c, o)
  BY <1>2 DEF CountsOf, CountOf, Ballots
<1>8. TallyOK(s) => TallyOK(s)'
  BY <1>1, <1>7 DEF TallyOK
<1> QED
  BY <1>3, <1>4, <1>6, <1>8

LEMMA OthersKeep ==
  ASSUME SeedInv, NEW r \in Runs, NEW s \in Runs \ {r}, run'[s] = run[s], Running(r),
         UNCHANGED overlapped, disturbed \subseteq disturbed',
         UNCHANGED dbVars \/ (run[s].state \in {"runs", "done"} => s \in disturbed'),
         copy \subseteq copy',
         \A t \in Unique : \A p : Alike(t, p) # {} => Matches(t, p)' \subseteq Matches(t, p)
  PROVE  RunOK(s)'
<1>1. RunOK(s)
  BY DEF SeedInv
<1>2. DoneBy(s)' = DoneBy(s)
  BY DEF DoneBy
<1>3. \A t : ParentIn(s, t)' = ParentIn(s, t)
  BY SameFound
<1>4. \A t, p : Alike(t, p) \subseteq Alike(t, p)'
  BY DEF Alike
<1>5. PlaceOK(s)'
  BY <1>1 DEF RunOK, PlaceOK
<1>6. FoundOK(s)'
  BY <1>1, <1>2, <1>3, <1>4 DEF RunOK, FoundOK
<1>7. NumberOK(s)'
  BY <1>1, <1>2 DEF RunOK, NumberOK
<1>8. SearchOK(s)'
  <2>1. SUFFICES ASSUME Running(s)', overlapped' => s \notin disturbed'
                 PROVE  SearchOK(s)'
    BY DEF SearchOK
  <2>2. Running(s) /\ run[s].state \in {"runs", "done"}
    BY <2>1 DEF Running
  <2>3. overlapped
    BY <2>2 DEF SeedInv, Alone
  <2>4. UNCHANGED dbVars /\ s \notin disturbed
    BY <2>1, <2>2, <2>3
  <2>5. \A t, p : Matches(t, p)' = Matches(t, p)
    BY <2>4 DEF Matches, Alike, dbVars
  <2> QED
    BY <1>1, <1>2, <1>3, <2>2, <2>4, <2>5 DEF RunOK, SearchOK
<1>9. CauseOK(s)'
  BY <1>1, <1>3, <1>4 DEF RunOK, CauseOK
<1>10. Undisturbed(s)' => RowsOK(s)' /\ HeldOK(s)' /\ SeatsOK(s)' /\ TallyOK(s)'
  <2>1. SUFFICES ASSUME Undisturbed(s)'
                 PROVE  RowsOK(s)' /\ HeldOK(s)' /\ SeatsOK(s)' /\ TallyOK(s)'
    OBVIOUS
  <2>2. UNCHANGED dbVars /\ Undisturbed(s)
    BY <2>1 DEF Undisturbed
  <2> QED
    BY <1>1, <2>2, SameHolds DEF RunOK
<1> QED
  BY <1>5, <1>6, <1>7, <1>8, <1>9, <1>10 DEF RunOK

------------------------------------------------------------------------------
(* A step of one run, as it goes on itself                                 *)

(* r has executed the statement it was at.                                 *)
Advances(r) ==
  /\ Running(r) /\ PlaceOK(r) /\ FoundOK(r) /\ NumberOK(r)
  /\ run'[r].script = run[r].script /\ run'[r].state \in {"runs", "done"}
  /\ DoneBy(r)' = DoneBy(r) \union {Entry(r)}

(* What it has written it finds as before.                                 *)
StillFinds(r) == \A t \in Things : WriteOf(t) \in DoneBy(r) => Found(r, t)' = Found(r, t)

(* After a statement only a search lacks its write.                        *)
LEMMA AfterFind ==
  ASSUME SeedAssumption, NEW r \in Runs, Advances(r), NEW t \in Things,
         FindOf(t) \in DoneBy(r)', WriteOf(t) \notin DoneBy(r)'
  PROVE  Entry(r) = FindOf(t)
<1>1. CASE FindOf(t) \in DoneBy(r)
  <2>1. WriteOf(t) \notin DoneBy(r) /\ Entry(r) # WriteOf(t)
    BY DEF Advances
  <2> QED
    BY <1>1, <2>1, Between DEF Advances
<1>2. CASE FindOf(t) \notin DoneBy(r)
  BY <1>2 DEF Advances
<1> QED
  BY <1>1, <1>2

LEMMA FoundKept ==
  ASSUME SeedAssumption, NEW r \in Runs, Advances(r), run'[r].found = run[r].found,
         Entry(r).op \notin {"find", "write"}
  PROVE  FoundOK(r)' /\ SearchOK(r)' /\ StillFinds(r)
<1>1. \A t : Found(r, t)' = Found(r, t) /\ ParentIn(r, t)' = ParentIn(r, t)
  BY SameFound
<1>2. \A t : Entry(r) # FindOf(t) /\ Entry(r) # WriteOf(t)
  BY DEF FindOf, WriteOf
<1>3. \A t \in Things : ~(FindOf(t) \in DoneBy(r)' /\ WriteOf(t) \notin DoneBy(r)')
  BY <1>2, AfterFind
<1>4. \A t : WriteOf(t) \in DoneBy(r)' <=> WriteOf(t) \in DoneBy(r)
  BY <1>2 DEF Advances
<1>5. run[r].state # "idle" /\ FoundOK(r)
  BY DEF Advances, Running
<1> QED
  BY <1>1, <1>3, <1>4, <1>5 DEF FoundOK, SearchOK, StillFinds

LEMMA RowsKept ==
  ASSUME SeedAssumption, NEW r \in Runs, Advances(r), RowsOK(r),
         UNCHANGED <<live, deleted>>, Entry(r).op \notin {"upsert", "read", "wipe", "fill"}
  PROVE  RowsOK(r)'
<1>1. /\ run[r].script \in {"base", "demo"}
      /\ Entry(r) \in StepsOf(run[r].script) /\ DoneBy(r) \subseteq StepsOf(run[r].script)
  BY EntryFacts DEF Advances
<1>2. ReadOf("super_admin", {}) \notin DoneBy(r)
  <2>1. SUFFICES ASSUME ReadOf("super_admin", {}) \in DoneBy(r)
                 PROVE  FALSE
    OBVIOUS
  <2>2. ReadOf("super_admin", {}) \in StepsOf(run[r].script) /\ ReadOf("super_admin", {}).op = "read"
    BY <1>1, <2>1 DEF ReadOf
  <2>3. run[r].script = "base"
    <3>1. /\ ReadOf("super_admin", {}) # ReadOf("teacher", Codes)
          /\ ReadOf("super_admin", {}) # ReadOf("owner", AllCodes)
      BY DEF ReadOf
    <3> QED
      BY <1>1, <2>2, <3>1, OtherOps
  <2>4. Entry(r) \in BaseSteps
    BY <1>1, <2>3 DEF StepsOf
  <2> QED
    BY <2>4 DEF BaseSteps, KeptOf, ReadOf, WipeOf, FillReadOf, FillOf
<1>3. \A e \in DoneBy(r)' : e.op \in {"upsert", "read", "wipe", "fill"} => e \in DoneBy(r)
  BY DEF Advances
<1>4. \A n, C : /\ FillOf(n, C) \in DoneBy(r)' => FillOf(n, C) \in DoneBy(r)
                /\ FillReadOf(n) \in DoneBy(r)' => FillReadOf(n) \in DoneBy(r)
                /\ ReadOf(n, C) \in DoneBy(r)' => ReadOf(n, C) \in DoneBy(r)
  BY <1>3 DEF FillOf, FillReadOf, ReadOf
<1> QED
  BY <1>2, <1>3, <1>4 DEF RowsOK

LEMMA HeldKept ==
  ASSUME SeedAssumption, NEW r \in Runs, Advances(r), HeldOK(r), run'[r].found = run[r].found,
         UNCHANGED removed, dressed \subseteq dressed', Entry(r).op \notin {"find", "write", "dress"}
  PROVE  HeldOK(r)'
<1>1. \A t : Found(r, t)' = Found(r, t)
  BY SameFound
<1>2. \A t : Entry(r) # FindOf(t) /\ Entry(r) # DressOf(t)
  BY DEF FindOf, DressOf
<1>3. \A t \in Things : ~(FindOf(t) \in DoneBy(r)' /\ WriteOf(t) \notin DoneBy(r)')
  BY <1>2, AfterFind
<1>4. \A t : DressOf(t) \in DoneBy(r)' => DressOf(t) \in DoneBy(r)
  BY <1>2 DEF Advances
<1> QED
  BY <1>1, <1>3, <1>4 DEF HeldOK

(* Once the guests' numbers have been read, and once the poll is there.    *)
LEMMA AtSeats ==
  ASSUME SeedAssumption, NEW r \in Runs, PlaceOK(r), Running(r)
  PROVE  /\ DoOf("highest") \in DoneBy(r) =>
              WriteOf("event") \in DoneBy(r) /\ Entry(r).op # "read"
         /\ \A g \in Invited : EachOf("seat", g) \in DoneBy(r) \/ Entry(r) = EachOf("seat", g) =>
              DoOf("highest") \in DoneBy(r)
         /\ DoOf("reset") \in DoneBy(r) => WriteOf("poll") \in DoneBy(r)
         /\ DoOf("count") \in DoneBy(r) =>
              /\ WriteOf("poll") \in DoneBy(r) /\ DoOf("reset") \in DoneBy(r)
              /\ Entry(r).op \notin {"read", "highest", "seat", "reset", "ballot"}
         /\ Entry(r) = DoOf("highest") => WriteOf("event") \in DoneBy(r)
         /\ Entry(r) \in {DoOf("reset"), DoOf("count")} => WriteOf("poll") \in DoneBy(r)
<1> DEFINE p == run[r].script
           D == DoneBy(r)
           e == Entry(r)
<1>1. /\ p \in {"base", "demo"} /\ e \in StepsOf(p) /\ D \subseteq StepsOf(p)
      /\ \A f \in StepsOf(p) : Place(f) \in Int
      /\ \A f \in StepsOf(p) : f \notin D => Place(e) <= Place(f)
      /\ \A f \in D : Place(f) <= Place(e)
  BY EntryFacts
<1> HIDE DEF p, D, e
<1>2. /\ \A g : Place(EachOf("seat", g)) = 43 /\ Place(EachOf("ballot", g)) = 47
      /\ Place(DoOf("highest")) = 42 /\ Place(DoOf("reset")) = 46 /\ Place(DoOf("count")) = 48
      /\ Place(WriteOf("event")) = 41 /\ Place(WriteOf("poll")) = 45
      /\ "event" \in Things /\ "poll" \in Things
  BY StepPlaces DEF ThingAt, Things
<1>3. ASSUME NEW f \in {DoOf("highest"), DoOf("reset"), DoOf("count")} \union {EachOf("seat", g) : g \in Invited},
             f \in D \/ f = e
      PROVE  /\ WriteOf("event") \in StepsOf(p) /\ WriteOf("poll") \in StepsOf(p)
             /\ DoOf("highest") \in StepsOf(p) /\ DoOf("reset") \in StepsOf(p)
  <2>1. f.op \in {"highest", "reset", "count", "seat"} /\ f \in StepsOf(p)
    BY <1>1, <1>3 DEF DoOf, EachOf
  <2> QED
    BY <1>1, <1>2, <2>1, DemoHas
<1>4. ASSUME NEW f \in StepsOf(p), Place(f) < Place(e)
      PROVE  f \in D
  BY <1>1, <1>4
<1>5. ASSUME e.op = "read"
      PROVE  Place(e) <= 15
  <2>1. \E n \in SeedRoles, C \in {{}, Codes, AllCodes} : e = ReadOf(n, C)
    BY <1>1, <1>5, OtherOps DEF SeedRoles
  <2> QED
    BY <2>1, StepPlaces
<1>6. /\ e.op = "highest" => Place(e) = 42
      /\ e.op = "seat" => Place(e) = 43
      /\ e.op = "reset" => Place(e) = 46
      /\ e.op = "ballot" => Place(e) = 47
  BY <1>1, <1>2, OtherOps
<1>7. Place(e) \in Int
  BY <1>1
<1>8. DoOf("highest") \in D => WriteOf("event") \in D /\ e.op # "read"
  BY <1>1, <1>2, <1>3, <1>4, <1>5, <1>7
<1>9. \A g \in Invited : EachOf("seat", g) \in D \/ e = EachOf("seat", g) => DoOf("highest") \in D
  BY <1>1, <1>2, <1>3, <1>4, <1>7
<1>10. DoOf("reset") \in D => WriteOf("poll") \in D
  BY <1>1, <1>2, <1>3, <1>4, <1>7
<1>11. DoOf("count") \in D =>
         /\ WriteOf("poll") \in D /\ DoOf("reset") \in D
         /\ e.op \notin {"read", "highest", "seat", "reset", "ballot"}
  BY <1>1, <1>2, <1>3, <1>4, <1>5, <1>6, <1>7
<1>12. e = DoOf("highest") => WriteOf("event") \in D
  BY <1>1, <1>2, <1>3, <1>4, <1>7
<1>13. e \in {DoOf("reset"), DoOf("count")} => WriteOf("poll") \in D
  BY <1>1, <1>2, <1>3, <1>4, <1>7
<1> QED
  BY <1>8, <1>9, <1>10, <1>11, <1>12, <1>13 DEF D, e

LEMMA AtTallies ==
  ASSUME SeedAssumption, NEW r \in Runs, PlaceOK(r), Running(r)
  PROVE  /\ Entry(r).op = "tally" => DoOf("count") \in DoneBy(r)
         /\ Entry(r) = DoOf("count") =>
              DoOf("reset") \in DoneBy(r) /\ \A o : EachOf("tally", o) \notin DoneBy(r)
<1> DEFINE p == run[r].script
           D == DoneBy(r)
           e == Entry(r)
<1>1. /\ p \in {"base", "demo"} /\ e \in StepsOf(p) /\ D \subseteq StepsOf(p)
      /\ \A f \in StepsOf(p) : f \notin D => Place(e) <= Place(f)
      /\ \A f \in D : Place(f) <= Place(e)
  BY EntryFacts
<1> HIDE DEF p, D, e
<1>2. /\ \A o : Place(EachOf("tally", o)) = 49
      /\ Place(DoOf("reset")) = 46 /\ Place(DoOf("count")) = 48
  BY StepPlaces
<1>3. ASSUME e.op \in {"tally", "count"}
      PROVE  DoOf("reset") \in StepsOf(p) /\ DoOf("count") \in StepsOf(p)
  BY <1>1, <1>3, DemoHas
<1>4. e.op = "tally" => Place(e) = 49
  BY <1>1, <1>2, OtherOps
<1>5. e = DoOf("count") => e.op = "count"
  BY DEF DoOf
<1>6. e.op = "tally" => DoOf("count") \in D
  BY <1>1, <1>2, <1>3, <1>4
<1>7. e = DoOf("count") => DoOf("reset") \in D /\ \A o : EachOf("tally", o) \notin D
  BY <1>1, <1>2, <1>3, <1>5
<1> QED
  BY <1>6, <1>7 DEF D, e

LEMMA NumberKept ==
  ASSUME SeedAssumption, NEW r \in Runs, Advances(r),
         run'[r].read = run[r].read \/ run'[r].read \in Nat \/ Entry(r) \in {DoOf("count")}
           \/ Entry(r).op = "read",
         Entry(r).op # "highest"
  PROVE  NumberOK(r)'
<1>1. SUFFICES ASSUME DoOf("highest") \in DoneBy(r)', DoOf("count") \notin DoneBy(r)'
               PROVE  run'[r].read \in Nat
  BY DEF NumberOK
<1>2. DoOf("highest") \in DoneBy(r) /\ DoOf("count") \notin DoneBy(r) /\ Entry(r) # DoOf("count")
  BY <1>1 DEF Advances, DoOf
<1>3. Entry(r).op # "read"
  BY <1>2, AtSeats DEF Advances
<1>4. run[r].read \in Nat
  BY <1>2 DEF Advances, NumberOK, Running
<1> QED
  BY <1>2, <1>3, <1>4

LEMMA SeatsKept ==
  ASSUME SeedAssumption, NEW r \in Runs, Advances(r), StillFinds(r), SeatsOK(r), UNCHANGED seat,
         run'[r].read = run[r].read \/ Entry(r).op \in {"count", "read"},
         Entry(r).op \notin {"highest", "seat"}
  PROVE  SeatsOK(r)'
<1>1. \A c : Numbers(c)' = Numbers(c) /\ Seated(c)' = Seated(c)
  BY DEF Numbers, Seated
<1>2. DoOf("highest") \in DoneBy(r)' => DoOf("highest") \in DoneBy(r)
  BY DEF Advances, DoOf
<1>3. \A g \in Invited : EachOf("seat", g) \in DoneBy(r)' => EachOf("seat", g) \in DoneBy(r)
  BY DEF Advances, EachOf
<1>4. DoOf("highest") \in DoneBy(r) => Found(r, "event")' = Found(r, "event") /\ Entry(r).op # "read"
  BY AtSeats DEF StillFinds, Things, Advances
<1>5. \A g \in Invited : EachOf("seat", g) \in DoneBy(r) => DoOf("highest") \in DoneBy(r)
  BY AtSeats DEF Advances
<1>6. /\ DoOf("count") \in DoneBy(r) => DoOf("count") \in DoneBy(r)'
      /\ Entry(r).op = "count" => DoOf("count") \in DoneBy(r)'
  <2>1. Entry(r).op = "count" => Entry(r) = DoOf("count")
    BY EntryFacts, OtherOps DEF Advances
  <2> QED
    BY <2>1 DEF Advances
<1> QED
  BY <1>1, <1>2, <1>3, <1>4, <1>5, <1>6 DEF SeatsOK

LEMMA TallyKept ==
  ASSUME SeedAssumption, NEW r \in Runs, Advances(r), StillFinds(r), TallyOK(r),
         UNCHANGED <<chosen, ballot>>,
         run'[r].read = run[r].read \/ Entry(r).op \in {"highest", "seat", "read"},
         Entry(r).op \notin {"reset", "ballot", "count", "tally"}
  PROVE  TallyOK(r)'
<1>1. /\ \A c : CountsOf(c)' = CountsOf(c)
      /\ \A c, o : CountOf(c, o)' = CountOf(c, o) /\ Ballots(c, o)' = Ballots(c, o)
  BY DEF CountsOf, CountOf, Ballots
<1>2. /\ DoOf("reset") \in DoneBy(r)' <=> DoOf("reset") \in DoneBy(r)
      /\ DoOf("count") \in DoneBy(r)' <=> DoOf("count") \in DoneBy(r)
      /\ \A o : EachOf("tally", o) \in DoneBy(r)' <=> EachOf("tally", o) \in DoneBy(r)
  BY DEF Advances, DoOf, EachOf
<1>3. DoOf("reset") \in DoneBy(r) => Found(r, "poll")' = Found(r, "poll")
  BY AtSeats DEF StillFinds, Things, Advances
<1>4. DoOf("count") \in DoneBy(r) => run'[r].read = run[r].read /\ DoOf("reset") \in DoneBy(r)
  BY AtSeats DEF Advances
<1> QED
  BY <1>1, <1>2, <1>3, <1>4 DEF TallyOK

------------------------------------------------------------------------------
(* What every step of a run leaves as it should be                         *)

LEMMA GoesAdvances ==
  ASSUME SeedAssumption, SeedInv, NEW r \in Runs, Running(r),
         NEW S, NEW w \in RunsOn(S), Goes(r, w), copy \subseteq S,
         w.script = run[r].script, w.at = run[r].at
  PROVE  /\ run' \in [Runs -> RunsOn(S)]
         /\ \A s \in Runs \ {r} : run'[s] = run[s]
         /\ Advances(r) /\ PlaceOK(r)' /\ CauseOK(r)' /\ Alone'
         /\ run'[r].read = w.read /\ run'[r].hit = w.hit /\ run'[r].found = w.found
         /\ Undisturbed(r)' => Undisturbed(r)
         /\ UNCHANGED overlapped /\ disturbed \subseteq disturbed'
         /\ r \in disturbed' => r \in disturbed
         /\ \A s \in Runs \ {r} :
              UNCHANGED dbVars \/ (run[s].state \in {"runs", "done"} => s \in disturbed')
<1>1. SeedTypes /\ PlaceOK(r) /\ FoundOK(r) /\ NumberOK(r)
  BY DEF SeedInv, RunOK
<1>2. /\ run' \in [Runs -> RunsOn(S)]
      /\ \A s \in Runs \ {r} : run'[s] = run[s]
      /\ run'[r].script = run[r].script /\ run'[r].state \in {"runs", "done"}
      /\ run'[r].read = w.read /\ run'[r].hit = w.hit /\ run'[r].found = w.found
      /\ DoneBy(r)' = DoneBy(r) \union {Entry(r)}
      /\ PlaceOK(r)'
  BY <1>1, GoesOn
<1>3. Advances(r)
  BY <1>1, <1>2 DEF Advances
<1>4. CauseOK(r)'
  BY <1>2 DEF CauseOK
<1>5. /\ UNCHANGED overlapped /\ disturbed \subseteq disturbed'
      /\ r \in disturbed' => r \in disturbed
      /\ \A s \in Runs \ {r} :
           UNCHANGED dbVars \/ (run[s].state \in {"runs", "done"} => s \in disturbed')
  BY DEF Goes
<1>6. Alone'
  <2>1. SUFFICES ASSUME ~overlapped, NEW s \in Runs, NEW q \in Runs, Running(s)', Running(q)'
                 PROVE  s = q
    BY <1>5 DEF Alone
  <2>2. \A x \in Runs : Running(x)' => Running(x)
    BY <1>2 DEF Running
  <2> QED
    BY <2>1, <2>2 DEF SeedInv, Alone
<1>7. Undisturbed(r)' => Undisturbed(r)
  BY <1>5 DEF Undisturbed, Running
<1> QED
  BY <1>2, <1>3, <1>4, <1>5, <1>6, <1>7

(* A step that neither makes nor removes a copy.                           *)
LEMMA PlainStep ==
  ASSUME SeedAssumption, SeedInv, NEW r \in Runs, Running(r),
         NEW w \in RunsOn(copy), Goes(r, w), w.script = run[r].script, w.at = run[r].at,
         UNCHANGED <<copy, removed>>, \E b \in Nat : \A y \in seat' : y[3] \in 0..b
  PROVE  /\ SeedTypes' /\ Alone' /\ OneOfEach'
         /\ \A s \in Runs \ {r} : RunOK(s)'
         /\ Advances(r) /\ PlaceOK(r)' /\ CauseOK(r)'
         /\ run'[r].read = w.read /\ run'[r].hit = w.hit /\ run'[r].found = w.found
         /\ Undisturbed(r)' => RowsOK(r) /\ HeldOK(r) /\ SeatsOK(r) /\ TallyOK(r)
<1>1. /\ run' \in [Runs -> RunsOn(copy)]
      /\ \A s \in Runs \ {r} : run'[s] = run[s]
      /\ Advances(r) /\ PlaceOK(r)' /\ CauseOK(r)' /\ Alone'
      /\ run'[r].read = w.read /\ run'[r].hit = w.hit /\ run'[r].found = w.found
      /\ Undisturbed(r)' => Undisturbed(r)
      /\ UNCHANGED overlapped /\ disturbed \subseteq disturbed'
      /\ r \in disturbed' => r \in disturbed
      /\ \A s \in Runs \ {r} :
           UNCHANGED dbVars \/ (run[s].state \in {"runs", "done"} => s \in disturbed')
  BY GoesAdvances
<1>2. SeedTypes'
  BY <1>1 DEF SeedInv, SeedTypes
<1>3. OneOfEach'
  BY <1>1 DEF SeedInv, OneOfEach
<1>4. \A t, p : Matches(t, p)' = Matches(t, p)
  BY DEF Matches, Alike
<1>5. \A s \in Runs \ {r} : RunOK(s)'
  BY <1>1, <1>4, OthersKeep
<1>6. Undisturbed(r)' => RowsOK(r) /\ HeldOK(r) /\ SeatsOK(r) /\ TallyOK(r)
  BY <1>1 DEF SeedInv, RunOK
<1> QED
  BY <1>1, <1>2, <1>3, <1>5, <1>6

(* A step with what it may read.                                           *)
LEMMA ReadsOf ==
  ASSUME SeedInv, NEW r \in Runs, NEW x \in Reads
  PROVE  /\ [run[r] EXCEPT !.read = x] \in RunsOn(copy)
         /\ [run[r] EXCEPT !.read = x].script = run[r].script
         /\ [run[r] EXCEPT !.read = x].at = run[r].at
         /\ [run[r] EXCEPT !.read = x].found = run[r].found
         /\ [run[r] EXCEPT !.read = x].hit = run[r].hit
         /\ [run[r] EXCEPT !.read = x].read = x
         /\ run[r] \in RunsOn(copy)
<1>1. PICK k \in RunsOn(copy) : k = run[r]
  BY DEF SeedInv, SeedTypes
<1>2. [k EXCEPT !.read = x] \in RunsOn(copy)
  BY DEF RunsOn
<1>3. /\ [k EXCEPT !.read = x].script = k.script
      /\ [k EXCEPT !.read = x].at = k.at
      /\ [k EXCEPT !.read = x].found = k.found
      /\ [k EXCEPT !.read = x].hit = k.hit
      /\ [k EXCEPT !.read = x].read = x
  BY DEF RunsOn
<1> QED
  BY <1>1, <1>2, <1>3

(* A statement that fails.                                                 *)
LEMMA ThrowKeeps ==
  ASSUME SeedAssumption, SeedInv, NEW r \in Runs, Running(r), Throws(r),
         \/ r \in disturbed
         \/ \E t \in Unique : Alike(t, ParentIn(r, t)) # {} /\ Matches(t, ParentIn(r, t)) = {}
  PROVE  SeedInv'
<1>1. PICK z \in RunsOn(copy) :
        /\ run' = [run EXCEPT ![r] = z]
        /\ z.script = run[r].script /\ z.at = run[r].at /\ z.state = "failed"
        /\ z.read = run[r].read /\ z.hit = run[r].hit /\ z.found = run[r].found
  <2>1. PICK k \in RunsOn(copy) : k = run[r]
    BY DEF SeedInv, SeedTypes
  <2>2. [k EXCEPT !.state = "failed"] \in RunsOn(copy)
    BY DEF RunsOn
  <2>3. PICK z : z = [k EXCEPT !.state = "failed"]
    OBVIOUS
  <2>4. /\ z.script = k.script /\ z.at = k.at /\ z.state = "failed"
        /\ z.read = k.read /\ z.hit = k.hit /\ z.found = k.found
    BY <2>3 DEF RunsOn
  <2>5. run' = [run EXCEPT ![r] = z]
    BY <2>1, <2>3 DEF Throws
  <2> QED
    BY <2>1, <2>2, <2>3, <2>4, <2>5
<1>2. /\ run' \in [Runs -> RunsOn(copy)] /\ run'[r] = z
      /\ \A s \in Runs \ {r} : run'[s] = run[s]
  BY <1>1 DEF SeedInv, SeedTypes
<1>3. UNCHANGED dbVars /\ UNCHANGED <<disturbed, overlapped>>
  BY DEF Throws
<1>4. UNCHANGED <<copy, removed, seat>>
  BY <1>3 DEF dbVars
<1>5. DoneBy(r)' = DoneBy(r) /\ \A t : ParentIn(r, t)' = ParentIn(r, t)
  <2>1. \A t : ParentIn(r, t)' = ParentIn(r, t)
    BY <1>1, <1>2, SameFound
  <2> QED
    BY <1>1, <1>2, <2>1 DEF DoneBy
<1>6. \A t, p : Matches(t, p)' = Matches(t, p) /\ Alike(t, p)' = Alike(t, p)
  BY <1>4 DEF Matches, Alike
<1>7. RunOK(r)'
  <2>1. PlaceOK(r) /\ FoundOK(r) /\ NumberOK(r) /\ run[r].state = "runs"
    BY DEF SeedInv, RunOK, Running
  <2>2. PlaceOK(r)'
    BY <1>1, <1>2, <2>1 DEF PlaceOK
  <2>3. FoundOK(r)'
    BY <1>1, <1>2, <1>5, <1>6, <2>1 DEF FoundOK
  <2>4. NumberOK(r)'
    BY <1>1, <1>2, <1>5, <2>1 DEF NumberOK
  <2>5. SearchOK(r)' /\ ~Undisturbed(r)'
    BY <1>1, <1>2 DEF SearchOK, Running, Undisturbed
  <2>6. CauseOK(r)'
    BY <1>3, <1>5, <1>6 DEF CauseOK
  <2> QED
    BY <2>2, <2>3, <2>4, <2>5, <2>6 DEF RunOK
<1>8. \A s \in Runs \ {r} : RunOK(s)'
  BY <1>2, <1>3, <1>4, <1>6, OthersKeep
<1>9. SeedTypes' /\ OneOfEach'
  BY <1>2, <1>3, <1>4 DEF SeedInv, SeedTypes, OneOfEach
<1>10. Alone'
  <2>1. \A x \in Runs : Running(x)' => Running(x)
    BY <1>1, <1>2 DEF Running
  <2> QED
    BY <1>3, <2>1 DEF SeedInv, Alone
<1> QED
  BY <1>7, <1>8, <1>9, <1>10 DEF SeedInv

------------------------------------------------------------------------------
(* Rows with a key                                                         *)

LEMMA KeysApart ==
  /\ \A k \in SeedKeys : \A n, c : k # Grant(n, c)
  /\ \A n, c, m, d : Grant(n, c) = Grant(m, d) => n = m /\ c = d
<1>1. \A n, c : Grant(n, c)[1] = "grant"
  BY DEF Grant
<1>2. \A k \in SeedKeys : k[1] # "grant"
  BY DEF SeedKeys, Code, Role, User, Holds, Named, Links
<1>3. \A n, c, m, d : Grant(n, c) = Grant(m, d) => n = m /\ c = d
  BY DEF Grant
<1> QED
  BY <1>1, <1>2, <1>3

LEMMA CodeIsKey ==
  \A c \in AllCodes : \A n, d : Code(c) # Grant(n, d)
BY KeysApart DEF SeedKeys

(* A step that changes keyed rows at most.                                 *)
LEMMA RowStep ==
  ASSUME SeedAssumption, SeedInv, NEW r \in Runs, Running(r),
         NEW x \in Reads, NEW w, w = run[r] \/ (w = [run[r] EXCEPT !.read = x] /\ Entry(r).op = "read"),
         Goes(r, w), UNCHANGED <<copy, removed, dressed, seat, chosen, ballot>>,
         Entry(r).op \in {"upsert", "read", "wipe", "fill"},
         Advances(r) /\ Undisturbed(r) /\ RowsOK(r) /\ run'[r].read = w.read => RowsOK(r)'
  PROVE  SeedInv'
<1>1. /\ w \in RunsOn(copy) /\ w.script = run[r].script /\ w.at = run[r].at /\ w.found = run[r].found
      /\ w.read = run[r].read \/ Entry(r).op = "read"
  <2>1. CASE w = run[r]
    BY <2>1, ReadsOf
  <2>2. CASE w = [run[r] EXCEPT !.read = x] /\ Entry(r).op = "read"
    BY <2>2, ReadsOf
  <2> QED
    BY <2>1, <2>2
<1>2. \E b \in Nat : \A y \in seat' : y[3] \in 0..b
  BY DEF SeedInv, SeedTypes
<1>3. /\ SeedTypes' /\ Alone' /\ OneOfEach'
      /\ \A s \in Runs \ {r} : RunOK(s)'
      /\ Advances(r) /\ PlaceOK(r)' /\ CauseOK(r)'
      /\ run'[r].read = w.read /\ run'[r].found = run[r].found
      /\ Undisturbed(r)' => RowsOK(r) /\ HeldOK(r) /\ SeatsOK(r) /\ TallyOK(r)
  BY <1>1, <1>2, PlainStep
<1>4. FoundOK(r)' /\ SearchOK(r)' /\ StillFinds(r)
  BY <1>3, FoundKept
<1>5. NumberOK(r)'
  BY <1>1, <1>3, NumberKept
<1>6. ASSUME Undisturbed(r)' PROVE RowsOK(r)' /\ HeldOK(r)' /\ SeatsOK(r)' /\ TallyOK(r)'
  <2>1. RowsOK(r)'
    <3>1. Undisturbed(r)
      BY <1>6 DEF Goes, Undisturbed, Running
    <3> QED
      BY <1>3, <1>6, <3>1
  <2>2. HeldOK(r)'
    BY <1>3, <1>6, HeldKept
  <2>3. SeatsOK(r)'
    BY <1>1, <1>3, <1>4, <1>6, SeatsKept
  <2>4. TallyOK(r)'
    BY <1>1, <1>3, <1>4, <1>6, TallyKept
  <2> QED
    BY <2>1, <2>2, <2>3, <2>4
<1>7. RunOK(r)'
  BY <1>3, <1>4, <1>5, <1>6 DEF RunOK
<1> QED
  BY <1>3, <1>7 DEF SeedInv

LEMMA UpsertKeeps ==
  ASSUME SeedAssumption, SeedInv, NEW r \in Runs, UpsertRow(r)
  PROVE  SeedInv'
<1> DEFINE e == Entry(r)
<1>1. /\ Running(r) /\ e.op = "upsert"
      /\ UNCHANGED <<copy, removed, dressed, seat, chosen, ballot>> /\ Goes(r, run[r])
  BY DEF UpsertRow, Doing
<1>2. /\ live \subseteq live' /\ live \union deleted \subseteq live' \union deleted'
      /\ live' \subseteq live \union {e.key}
      /\ e.key \in live' \union deleted' /\ (e.restore => e.key \in live')
  BY DEF UpsertRow
<1>3. ASSUME Advances(r), RowsOK(r), run'[r].read = run[r].read
      PROVE  RowsOK(r)'
  <2>1. /\ run[r].script \in {"base", "demo"} /\ e \in StepsOf(run[r].script)
        /\ \A f \in DoneBy(r) : Place(f) <= Place(e)
    BY <1>3, EntryFacts DEF Advances
  <2>2. Place(e) = KeyPlace(e.key) /\ DoneBy(r)' = DoneBy(r) \union {e}
    BY <1>1, <1>3, <2>1, UpsertKeys DEF Advances
  <2>3. /\ Place(FillReadOf("super_admin")) = 5 /\ Place(ReadOf("super_admin", {})) = 3
    BY StepPlaces DEF RoleAt
  <2> HIDE DEF e
  <2>4. ASSUME FillReadOf("super_admin") \in DoneBy(r) \/ ReadOf("super_admin", {}) \in DoneBy(r)
        PROVE  \A c : Code(c) # e.key
    <3>1. Place(e) # 1
      BY <2>1, <2>3, <2>4
    <3> QED
      BY <2>2, <3>1, StepPlaces
  <2>5. /\ e # FillReadOf("super_admin") /\ e # ReadOf("super_admin", {})
        /\ \A n, C : e # FillOf(n, C)
    BY <1>1 DEF FillReadOf, ReadOf, FillOf, e
  <2>6. \A f \in DoneBy(r)' : f.op = "upsert" =>
          f.key \in live' \union deleted' /\ (f.restore => f.key \in live')
    BY <1>2, <1>3, <2>2 DEF RowsOK, e
  <2>7. \A n \in SeedRoles, C \in SUBSET AllCodes : FillOf(n, C) \in DoneBy(r)' =>
          \A c \in C : Grant(n, c) \in live'
    BY <1>2, <1>3, <2>2, <2>5 DEF RowsOK
  <2>8. FillReadOf("super_admin") \in DoneBy(r)' =>
          \A c \in AllCodes : Code(c) \in live' => Grant("super_admin", c) \in live'
    <3>1. live \subseteq live' /\ live' \subseteq live \union {e.key}
      BY <1>2 DEF e
    <3> QED
      BY <1>3, <2>2, <2>4, <2>5, <3>1 DEF RowsOK
  <2>9. ReadOf("super_admin", {}) \in DoneBy(r)' /\ FillReadOf("super_admin") \notin DoneBy(r)' =>
          run'[r].read = {c \in AllCodes : Code(c) \in live'}
    <3>1. SUFFICES ASSUME ReadOf("super_admin", {}) \in DoneBy(r)', FillReadOf("super_admin") \notin DoneBy(r)'
                   PROVE  run'[r].read = {c \in AllCodes : Code(c) \in live'}
      OBVIOUS
    <3>2. ReadOf("super_admin", {}) \in DoneBy(r) /\ FillReadOf("super_admin") \notin DoneBy(r)
      BY <2>2, <2>5, <3>1
    <3>3. \A c \in AllCodes : Code(c) \in live' <=> Code(c) \in live
      <4>1. live \subseteq live' /\ live' \subseteq live \union {e.key}
        BY <1>2 DEF e
      <4> QED
        BY <2>4, <3>2, <4>1
    <3>4. run[r].read = {c \in AllCodes : Code(c) \in live}
      BY <1>3, <3>2 DEF RowsOK
    <3> QED
      BY <1>3, <3>3, <3>4
  <2> QED
    BY <2>6, <2>7, <2>8, <2>9 DEF RowsOK
<1>4. {} \in Reads
  BY DEF Reads
<1> HIDE DEF e
<1> QED
  BY <1>1, <1>3, <1>4, RowStep DEF e

LEMMA ReadKeeps ==
  ASSUME SeedAssumption, SeedInv, NEW r \in Runs, ReadPermissions(r)
  PROVE  SeedInv'
<1> DEFINE e == Entry(r)
           there == {c \in AllCodes : Code(c) \in live}
<1>1. Running(r) /\ e.op = "read"
  BY DEF ReadPermissions, Doing
<1>2. CASE e.needed \subseteq there
  <2>1. UNCHANGED dbVars /\ Goes(r, [run[r] EXCEPT !.read = there])
    BY <1>2 DEF ReadPermissions
  <2>2. there \in Reads
    BY DEF Reads
  <2>3. UNCHANGED <<live, deleted, copy, removed, dressed, seat, chosen, ballot>>
    BY <2>1 DEF dbVars
  <2>4. [run[r] EXCEPT !.read = there].read = there
    BY <2>2, ReadsOf
  <2>5. ASSUME Advances(r), RowsOK(r), run'[r].read = there
        PROVE  RowsOK(r)'
    <3>1. \A f : f.op \in {"upsert", "fill"} => (f \in DoneBy(r)' <=> f \in DoneBy(r))
      BY <1>1, <2>5 DEF Advances
    <3>2. /\ \A n, C : FillOf(n, C) \in DoneBy(r)' <=> FillOf(n, C) \in DoneBy(r)
          /\ FillReadOf("super_admin") \in DoneBy(r)' <=> FillReadOf("super_admin") \in DoneBy(r)
      BY <3>1 DEF FillOf, FillReadOf
    <3> QED
      BY <2>3, <2>5, <3>1, <3>2 DEF RowsOK
  <2> HIDE DEF e, there
  <2> QED
    BY <1>1, <2>1, <2>2, <2>3, <2>4, <2>5, RowStep DEF e
<1>3. CASE ~(e.needed \subseteq there)
  <2>1. Throws(r)
    BY <1>3 DEF ReadPermissions
  <2>2. ASSUME r \notin disturbed PROVE FALSE
    <3>1. PlaceOK(r) /\ RowsOK(r)
      BY <1>1, <2>2 DEF SeedInv, RunOK, Undisturbed, Running
    <3>2. /\ run[r].script \in {"base", "demo"} /\ e \in StepsOf(run[r].script)
          /\ \A f \in StepsOf(run[r].script) : f \notin DoneBy(r) => Place(e) <= Place(f)
      BY <1>1, <3>1, EntryFacts
    <3>3. run[r].script = "demo" /\ e \in {ReadOf("teacher", Codes), ReadOf("owner", AllCodes)}
      BY <1>1, <1>3, <3>2, OtherOps DEF ReadOf
    <3>4. e.needed \subseteq AllCodes /\ Place(e) \in {9, 13}
      BY <3>3, StepPlaces DEF ReadOf, AllCodes, RoleAt
    <3>5. ASSUME NEW c \in AllCodes PROVE Code(c) \in live
      <4>1. RestoredOf(Code(c)) \in StepsOf(run[r].script) /\ Place(RestoredOf(Code(c))) = 1
        BY <3>3, StepPlaces DEF StepsOf, DemoSteps
      <4>2. RestoredOf(Code(c)) \in DoneBy(r)
        BY <3>2, <3>4, <4>1
      <4> QED
        BY <3>1, <4>2 DEF RowsOK, RestoredOf
    <3> QED
      BY <1>3, <3>4, <3>5
  <2> QED
    BY <1>1, <2>1, <2>2, ThrowKeeps
<1> QED
  BY <1>2, <1>3

LEMMA WipeKeeps ==
  ASSUME SeedAssumption, SeedInv, NEW r \in Runs, WipeGrants(r)
  PROVE  SeedInv'
<1> DEFINE e == Entry(r)
<1>1. /\ Running(r) /\ e.op = "wipe"
      /\ UNCHANGED <<deleted, copy, removed, dressed, seat, chosen, ballot>> /\ Goes(r, run[r])
      /\ live' = live \ {Grant(e.role, c) : c \in AllCodes}
  BY DEF WipeGrants, Doing
<1>2. ASSUME Advances(r), RowsOK(r), run'[r].read = run[r].read
      PROVE  RowsOK(r)'
  <2>1. /\ run[r].script \in {"base", "demo"} /\ e \in StepsOf(run[r].script)
        /\ DoneBy(r) \subseteq StepsOf(run[r].script)
        /\ \A f \in DoneBy(r) : Place(f) <= Place(e)
        /\ DoneBy(r)' = DoneBy(r) \union {e}
    BY <1>2, EntryFacts DEF Advances
  <2>2. PICK m \in {"super_admin", "owner"} : e = WipeOf(m) /\ e.role = m
    BY <1>1, <2>1, OtherOps DEF WipeOf
  <2>3. Place(e) = RoleAt[m] + 2 /\ RoleAt["super_admin"] = 2 /\ RoleAt["owner"] = 12
    BY <2>2, StepPlaces DEF RoleAt
  <2>4. \A k \in SeedKeys : k \in live' <=> k \in live
    BY <1>1, KeysApart
  <2>5. \A f \in DoneBy(r)' : f.op \in {"upsert", "read", "fill"} => f \in DoneBy(r)
    BY <1>1, <2>1
  <2> HIDE DEF e
  <2>6. \A f \in DoneBy(r)' : f.op = "upsert" =>
          f.key \in live' \union deleted' /\ (f.restore => f.key \in live')
    <3>1. ASSUME NEW f \in DoneBy(r)', f.op = "upsert"
          PROVE  f.key \in SeedKeys /\ f \in DoneBy(r)
      BY <2>1, <2>5, <3>1, UpsertKeys
    <3> QED
      BY <1>1, <1>2, <2>4, <3>1 DEF RowsOK
  <2>7. ASSUME NEW n \in SeedRoles, NEW C \in SUBSET AllCodes, FillOf(n, C) \in DoneBy(r)', NEW c \in C
        PROVE  Grant(n, c) \in live'
    <3>1. FillOf(n, C).op = "fill" /\ FillOf(n, C).role = n
      BY DEF FillOf
    <3>2. FillOf(n, C) \in DoneBy(r)
      BY <2>5, <2>7, <3>1
    <3>3. Grant(n, c) \in live
      BY <1>2, <3>2 DEF RowsOK
    <3>4. Place(FillOf(n, C)) = RoleAt[n] + 3 /\ RoleAt[n] + 3 <= RoleAt[m] + 2
      BY <2>1, <2>3, <3>2, StepPlaces
    <3>5. n # m
      BY <2>3, <3>4
    <3> QED
      BY <1>1, <2>2, <3>3, <3>5, KeysApart DEF e
  <2>8. FillReadOf("super_admin") \in DoneBy(r)' =>
          \A c \in AllCodes : Code(c) \in live' => Grant("super_admin", c) \in live'
    <3>1. SUFFICES ASSUME FillReadOf("super_admin") \in DoneBy(r)', NEW c \in AllCodes, Code(c) \in live'
                   PROVE  Grant("super_admin", c) \in live'
      OBVIOUS
    <3>2. FillReadOf("super_admin") \in DoneBy(r)
      BY <2>5, <3>1 DEF FillReadOf
    <3>3. Place(FillReadOf("super_admin")) = 5
      BY StepPlaces DEF RoleAt
    <3>4. m = "owner"
      BY <2>1, <2>3, <3>2, <3>3
    <3>5. Grant("super_admin", c) \in live
      BY <1>1, <1>2, <3>1, <3>2 DEF RowsOK
    <3> QED
      BY <1>1, <2>2, <3>4, <3>5, KeysApart DEF e
  <2>9. ReadOf("super_admin", {}) \in DoneBy(r)' /\ FillReadOf("super_admin") \notin DoneBy(r)' =>
          run'[r].read = {c \in AllCodes : Code(c) \in live'}
    <3>1. SUFFICES ASSUME ReadOf("super_admin", {}) \in DoneBy(r)', FillReadOf("super_admin") \notin DoneBy(r)'
                   PROVE  run'[r].read = {c \in AllCodes : Code(c) \in live'}
      OBVIOUS
    <3>2. ReadOf("super_admin", {}) \in DoneBy(r) /\ FillReadOf("super_admin") \notin DoneBy(r)
      BY <2>1, <2>5, <3>1 DEF ReadOf
    <3>3. \A c \in AllCodes : Code(c) \in live' <=> Code(c) \in live
      BY <2>4 DEF SeedKeys
    <3> QED
      BY <1>2, <3>2, <3>3 DEF RowsOK
  <2> QED
    BY <2>6, <2>7, <2>8, <2>9 DEF RowsOK
<1>3. {} \in Reads
  BY DEF Reads
<1> HIDE DEF e
<1> QED
  BY <1>1, <1>2, <1>3, RowStep DEF e

LEMMA FillKeeps ==
  ASSUME SeedAssumption, SeedInv, NEW r \in Runs, FillGrants(r)
  PROVE  SeedInv'
<1> DEFINE e == Entry(r)
           codes == IF e.all THEN run[r].read ELSE e.codes
<1>1. /\ Running(r) /\ e.op = "fill"
      /\ UNCHANGED <<deleted, copy, removed, dressed, seat, chosen, ballot>> /\ Goes(r, run[r])
      /\ live' = live \union {Grant(e.role, c) : c \in codes}
  BY DEF FillGrants, Doing
<1>2. ASSUME Advances(r), RowsOK(r), run'[r].read = run[r].read
      PROVE  RowsOK(r)'
  <2>1. /\ run[r].script \in {"base", "demo"} /\ e \in StepsOf(run[r].script) /\ e \notin DoneBy(r)
        /\ \A f \in StepsOf(run[r].script) : f \notin DoneBy(r) => Place(e) <= Place(f)
        /\ DoneBy(r)' = DoneBy(r) \union {e}
    BY <1>2, EntryFacts DEF Advances
  <2>2. \A c \in AllCodes : Code(c) \in live' <=> Code(c) \in live
    BY <1>1, CodeIsKey
  <2>3. \A f \in DoneBy(r)' : f.op \in {"upsert", "read"} => f \in DoneBy(r)
    BY <1>1, <2>1
  <2>4. ASSUME NEW n, NEW C, e = FillOf(n, C)
        PROVE  e.role = n /\ codes = C
    BY <2>4 DEF FillOf
  <2>5. ASSUME e = FillReadOf("super_admin")
        PROVE  e.role = "super_admin" /\ codes = {c \in AllCodes : Code(c) \in live}
    <3>1. e.role = "super_admin" /\ codes = run[r].read
      BY <2>5 DEF FillReadOf
    <3>2. run[r].script = "base"
      BY <1>1, <2>1, <3>1, OtherOps DEF FillOf
    <3>3. /\ ReadOf("super_admin", {}) \in StepsOf(run[r].script)
          /\ Place(ReadOf("super_admin", {})) = 3 /\ Place(FillReadOf("super_admin")) = 5
      BY <3>2, StepPlaces DEF StepsOf, BaseSteps, RoleAt
    <3>4. ReadOf("super_admin", {}) \in DoneBy(r)
      BY <2>1, <2>5, <3>3
    <3> QED
      BY <1>2, <2>1, <2>5, <3>1, <3>4 DEF RowsOK
  <2> HIDE DEF e, codes
  <2>6. \A f \in DoneBy(r)' : f.op = "upsert" =>
          f.key \in live' \union deleted' /\ (f.restore => f.key \in live')
    BY <1>1, <1>2, <2>3 DEF RowsOK
  <2>7. ASSUME NEW n \in SeedRoles, NEW C \in SUBSET AllCodes, FillOf(n, C) \in DoneBy(r)', NEW c \in C
        PROVE  Grant(n, c) \in live'
    <3>1. CASE FillOf(n, C) \in DoneBy(r)
      BY <1>1, <1>2, <3>1 DEF RowsOK
    <3>2. CASE FillOf(n, C) \notin DoneBy(r)
      BY <1>1, <2>1, <2>4, <2>7, <3>2
    <3> QED
      BY <3>1, <3>2
  <2>8. ASSUME FillReadOf("super_admin") \in DoneBy(r)', NEW c \in AllCodes, Code(c) \in live'
        PROVE  Grant("super_admin", c) \in live'
    <3>1. Code(c) \in live
      BY <2>2, <2>8
    <3>2. CASE FillReadOf("super_admin") \in DoneBy(r)
      BY <1>1, <1>2, <3>1, <3>2 DEF RowsOK
    <3>3. CASE FillReadOf("super_admin") \notin DoneBy(r)
      <4>1. e = FillReadOf("super_admin")
        BY <2>1, <2>8, <3>3
      <4> QED
        BY <1>1, <2>5, <3>1, <4>1
    <3> QED
      BY <3>2, <3>3
  <2>9. ReadOf("super_admin", {}) \in DoneBy(r)' /\ FillReadOf("super_admin") \notin DoneBy(r)' =>
          run'[r].read = {c \in AllCodes : Code(c) \in live'}
    <3>1. SUFFICES ASSUME ReadOf("super_admin", {}) \in DoneBy(r)', FillReadOf("super_admin") \notin DoneBy(r)'
                   PROVE  run'[r].read = {c \in AllCodes : Code(c) \in live'}
      OBVIOUS
    <3>2. ReadOf("super_admin", {}) \in DoneBy(r) /\ FillReadOf("super_admin") \notin DoneBy(r)
      BY <2>1, <2>3, <3>1 DEF ReadOf
    <3> QED
      BY <1>2, <2>2, <3>2 DEF RowsOK
  <2> QED
    BY <2>6, <2>7, <2>8, <2>9 DEF RowsOK
<1>3. {} \in Reads
  BY DEF Reads
<1> HIDE DEF e, codes
<1> QED
  BY <1>1, <1>2, <1>3, RowStep DEF e

------------------------------------------------------------------------------
(* Numbers and counts                                                      *)

LEMMA LeastOf ==
  ASSUME NEW S \in SUBSET Nat, S # {}
  PROVE  \E n \in S : \A m \in S : n <= m
<1> DEFINE R == OpToRel(<, Nat)
<1>1. IsWellFoundedOn(R, Nat)
  BY NatLessThanWellFounded
<1>2. \A m, n \in Nat : <<m, n>> \in R <=> m < n
  BY DEF OpToRel
<1> HIDE DEF R
<1>3. PICK n \in S : \A m \in S : ~(<<m, n>> \in R)
  BY <1>1, WFMin
<1>4. ASSUME NEW m \in S PROVE n <= m
  <2>1. m \in Nat /\ n \in Nat
    OBVIOUS
  <2>2. ~(<<m, n>> \in R)
    BY <1>3
  <2>3. ~(m < n)
    BY <1>2, <2>1, <2>2
  <2> QED BY <2>1, <2>3
<1> QED BY <1>4

(* The highest number of a guest.                                          *)
LEMMA HighestIs ==
  ASSUME \E b \in Nat : \A y \in seat : y[3] \in 0..b, NEW c
  PROVE  /\ HighestIn(c) \in Nat
         /\ \A m \in Numbers(c) : m \in Nat /\ m <= HighestIn(c)
<1>1. PICK b \in Nat : \A y \in seat : y[3] \in 0..b
  OBVIOUS
<1>2. \A m \in Numbers(c) : m \in Nat /\ m <= b
  BY <1>1 DEF Numbers
<1> DEFINE above == {k \in Nat : \A m \in Numbers(c) : m <= k}
<1>3. above \in SUBSET Nat /\ b \in above
  BY <1>2
<1>4. above # {}
  BY <1>3
<1>5. PICK n \in above : \A m \in above : n <= m
  <2> HIDE DEF above
  <2> QED
    BY <1>3, <1>4, LeastOf
<1>6. n \in Nat /\ \A m \in Numbers(c) : m <= n
  OBVIOUS
<1>7. n \in {0} \union Numbers(c)
  <2>1. CASE n = 0
    BY <2>1
  <2>2. CASE n # 0
    <3>1. n - 1 \in Nat /\ ~(n <= n - 1)
      BY <1>6, <2>2
    <3>2. n - 1 \notin above
      BY <1>5, <3>1
    <3>3. PICK m \in Numbers(c) : ~(m <= n - 1)
      BY <3>1, <3>2
    <3>4. m = n
      BY <1>2, <1>6, <3>3
    <3> QED
      BY <3>4
  <2> QED
    BY <2>1, <2>2
<1>8. HighestIn(c) \in {0} \union Numbers(c) /\ \A m \in Numbers(c) : m <= HighestIn(c)
  BY <1>6, <1>7 DEF HighestIn
<1> QED
  BY <1>2, <1>8

(* The counts of a poll are those that were written.                       *)
LEMMA RecountedIs ==
  ASSUME NEW c, NEW f, chosen' = Recounted(c, f), NEW o \in Options
  PROVE  CountOf(c, o)' = f[o]
<1> DEFINE counts == {x[3] : x \in {y \in chosen' : y[1] = c /\ y[2] = o}}
<1>1. \A y \in chosen' : y[1] = c /\ y[2] = o => f[o] # 0 /\ y = <<c, o, f[o]>>
  BY DEF Recounted
<1>2. f[o] # 0 => <<c, o, f[o]>> \in chosen'
  BY DEF Recounted
<1>3. CASE f[o] = 0
  <2>1. counts = {}
    BY <1>1, <1>3
  <2> QED
    BY <1>3, <2>1 DEF CountOf
<1>4. CASE f[o] # 0
  <2>1. counts = {f[o]}
    BY <1>1, <1>2, <1>4
  <2>2. CountOf(c, o)' = IF counts = {} THEN 0 ELSE CHOOSE n \in counts : TRUE
    BY DEF CountOf
  <2> HIDE DEF counts
  <2> QED
    BY <2>1, <2>2
<1> QED
  BY <1>3, <1>4

LEMMA NoCounts ==
  ASSUME NEW c, CountsOf(c) = {}, NEW o
  PROVE  CountOf(c, o) = 0
<1>1. {x[3] : x \in {y \in chosen : y[1] = c /\ y[2] = o}} = {}
  BY DEF CountsOf
<1> QED
  BY <1>1 DEF CountOf

LEMMA BallotsNat ==
  ASSUME SeedAssumption, NEW c, NEW o
  PROVE  Ballots(c, o) \in Nat
<1> DEFINE V == {v \in Voters : <<c, v, o>> \in ballot}
<1>1. V \subseteq Voters /\ IsFiniteSet(Voters)
  BY DEF SeedAssumption
<1>2. IsFiniteSet(V)
  <2> HIDE DEF V
  <2> QED
    BY <1>1, FS_Subset
<1>3. Cardinality(V) \in Nat
  <2> HIDE DEF V
  <2> QED
    BY <1>2, FS_CardinalityType
<1> QED
  BY <1>3 DEF Ballots

------------------------------------------------------------------------------
(* Members, guests and counts                                              *)

LEMMA DressKeeps ==
  ASSUME SeedAssumption, SeedInv, NEW r \in Runs, DressCopy(r)
  PROVE  SeedInv'
<1>1. /\ Running(r) /\ Entry(r).op = "dress"
      /\ dressed' = dressed \union {Found(r, Entry(r).thing)}
      /\ UNCHANGED <<live, deleted, copy, removed, seat, chosen, ballot>> /\ Goes(r, run[r])
  BY DEF DressCopy, Doing
<1>2. {} \in Reads /\ \E b \in Nat : \A y \in seat' : y[3] \in 0..b
  BY <1>1 DEF Reads, SeedInv, SeedTypes
<1>3. run[r] \in RunsOn(copy)
  BY <1>2, ReadsOf
<1>4. /\ SeedTypes' /\ Alone' /\ OneOfEach'
      /\ \A s \in Runs \ {r} : RunOK(s)'
      /\ Advances(r) /\ PlaceOK(r)' /\ CauseOK(r)'
      /\ run'[r].read = run[r].read /\ run'[r].found = run[r].found
      /\ Undisturbed(r)' => RowsOK(r) /\ HeldOK(r) /\ SeatsOK(r) /\ TallyOK(r)
  BY <1>1, <1>2, <1>3, PlainStep
<1>5. FoundOK(r)' /\ SearchOK(r)' /\ StillFinds(r)
  BY <1>1, <1>4, FoundKept
<1>6. NumberOK(r)'
  BY <1>1, <1>4, NumberKept
<1>7. ASSUME Undisturbed(r)' PROVE RowsOK(r)' /\ HeldOK(r)' /\ SeatsOK(r)' /\ TallyOK(r)'
  <2>1. RowsOK(r)'
    BY <1>1, <1>4, <1>7, RowsKept
  <2>2. HeldOK(r)'
    <3>1. \A t : Found(r, t)' = Found(r, t)
      BY <1>4, SameFound
    <3>2. \A t \in Things : ~(FindOf(t) \in DoneBy(r)' /\ WriteOf(t) \notin DoneBy(r)')
      <4>1. \A t : Entry(r) # FindOf(t)
        BY <1>1 DEF FindOf
      <4> QED
        BY <1>4, <4>1, AfterFind
    <3>3. ASSUME NEW t \in Dressed, DressOf(t) \in DoneBy(r)'
          PROVE  Found(r, t) \in dressed'
      <4>1. CASE DressOf(t) \in DoneBy(r)
        BY <1>1, <1>4, <1>7, <4>1 DEF HeldOK
      <4>2. CASE DressOf(t) \notin DoneBy(r)
        <5>1. Entry(r) = DressOf(t)
          BY <1>4, <3>3, <4>2 DEF Advances
        <5> QED
          BY <1>1, <5>1 DEF DressOf
      <4> QED
        BY <4>1, <4>2
    <3> QED
      BY <1>1, <1>4, <1>7, <3>1, <3>2, <3>3 DEF HeldOK
  <2>3. SeatsOK(r)'
    BY <1>1, <1>4, <1>5, <1>7, SeatsKept
  <2>4. TallyOK(r)'
    BY <1>1, <1>4, <1>5, <1>7, TallyKept
  <2> QED
    BY <2>1, <2>2, <2>3, <2>4
<1> QED
  BY <1>4, <1>5, <1>6, <1>7 DEF RunOK, SeedInv

LEMMA HighestKeeps ==
  ASSUME SeedAssumption, SeedInv, NEW r \in Runs, ReadHighest(r)
  PROVE  SeedInv'
<1> DEFINE x == HighestIn(Found(r, "event"))
<1>1. /\ Running(r) /\ Entry(r).op = "highest"
      /\ UNCHANGED dbVars /\ Goes(r, [run[r] EXCEPT !.read = x])
  BY DEF ReadHighest, Doing
<1>2. UNCHANGED <<live, deleted, copy, removed, dressed, seat, chosen, ballot>>
  BY <1>1 DEF dbVars
<1>3. /\ \E b \in Nat : \A y \in seat : y[3] \in 0..b
      /\ \E b \in Nat : \A y \in seat' : y[3] \in 0..b
  BY <1>2 DEF SeedInv, SeedTypes
<1>4. x \in Nat /\ \A m \in Numbers(Found(r, "event")) : m <= x
  BY <1>3, HighestIs
<1> HIDE DEF x
<1>5. x \in Reads
  BY <1>4 DEF Reads
<1>6. PICK w \in RunsOn(copy) :
        /\ w = [run[r] EXCEPT !.read = x] /\ w.script = run[r].script /\ w.at = run[r].at
        /\ w.found = run[r].found /\ w.read = x
  BY <1>5, ReadsOf
<1>7. /\ SeedTypes' /\ Alone' /\ OneOfEach'
      /\ \A s \in Runs \ {r} : RunOK(s)'
      /\ Advances(r) /\ PlaceOK(r)' /\ CauseOK(r)'
      /\ run'[r].read = x /\ run'[r].found = run[r].found
      /\ Undisturbed(r)' => RowsOK(r) /\ HeldOK(r) /\ SeatsOK(r) /\ TallyOK(r)
  BY <1>1, <1>2, <1>3, <1>6, PlainStep
<1>8. FoundOK(r)' /\ SearchOK(r)' /\ StillFinds(r)
  BY <1>1, <1>7, FoundKept
<1>9. NumberOK(r)'
  BY <1>4, <1>7 DEF NumberOK
<1>10. ASSUME Undisturbed(r)' PROVE RowsOK(r)' /\ HeldOK(r)' /\ SeatsOK(r)' /\ TallyOK(r)'
  <2>1. RowsOK(r)'
    BY <1>1, <1>2, <1>7, <1>10, RowsKept
  <2>2. HeldOK(r)'
    BY <1>1, <1>2, <1>7, <1>10, HeldKept
  <2>3. SeatsOK(r)'
    <3>1. Found(r, "event")' = Found(r, "event")
      BY <1>7, SameFound
    <3>2. \A c : Numbers(c)' = Numbers(c) /\ Seated(c)' = Seated(c)
      BY <1>2 DEF Numbers, Seated
    <3>3. \A g \in Invited : EachOf("seat", g) \in DoneBy(r)' => EachOf("seat", g) \in DoneBy(r)
      BY <1>1, <1>7 DEF Advances, EachOf
    <3> QED
      BY <1>4, <1>7, <1>10, <3>1, <3>2, <3>3 DEF SeatsOK, x
  <2>4. TallyOK(r)'
    BY <1>1, <1>2, <1>7, <1>8, <1>10, TallyKept
  <2> QED
    BY <2>1, <2>2, <2>3, <2>4
<1> QED
  BY <1>7, <1>8, <1>9, <1>10 DEF RunOK, SeedInv

LEMMA SeatKeeps ==
  ASSUME SeedAssumption, SeedInv, NEW r \in Runs, SeatGuest(r)
  PROVE  SeedInv'
<1> DEFINE c == Found(r, "event")
           g == Entry(r).of
           number == run[r].read + 1
<1>1. Running(r) /\ Entry(r).op = "seat" /\ PlaceOK(r) /\ NumberOK(r)
  BY DEF SeatGuest, Doing, SeedInv, RunOK
<1>2. Entry(r) = EachOf("seat", g) /\ g \in Invited
  <2>1. \E q \in Invited : Entry(r) = EachOf("seat", q)
    BY <1>1, EntryFacts, OtherOps
  <2> QED
    BY <2>1 DEF EachOf
<1>3. /\ WriteOf("event") \in DoneBy(r) /\ DoOf("highest") \in DoneBy(r)
      /\ DoOf("count") \notin DoneBy(r)
  BY <1>1, <1>2, AtSeats
<1>4. run[r].read \in Nat /\ number \in Nat
  BY <1>1, <1>3 DEF NumberOK, Running
<1>5. PICK b \in Nat : \A y \in seat : y[3] \in 0..b
  BY DEF SeedInv, SeedTypes
<1>6. CASE g \notin Seated(c) /\ number \in Numbers(c) /\ Throws(r)
  <2>1. r \in disturbed
    <3>1. ASSUME r \notin disturbed PROVE FALSE
      <4>1. SeatsOK(r)
        BY <1>1, <3>1 DEF SeedInv, RunOK, Undisturbed, Running
      <4>2. number <= run[r].read
        BY <1>3, <1>6, <4>1 DEF SeatsOK
      <4> QED
        BY <1>4, <4>2
    <3> QED
      BY <3>1
  <2> QED
    BY <1>1, <1>6, <2>1, ThrowKeeps
<1>7. CASE ~(g \notin Seated(c) /\ number \in Numbers(c) /\ Throws(r))
  <2>1. PICK x \in Nat :
          /\ UNCHANGED <<live, deleted, copy, removed, dressed, chosen, ballot>>
          /\ \/ x = run[r].read /\ g \in Seated(c) /\ UNCHANGED seat /\ Goes(r, run[r])
             \/ /\ x = number /\ seat' = seat \union {<<c, g, number>>}
                /\ Goes(r, [run[r] EXCEPT !.read = x])
    <3>1. CASE g \in Seated(c) /\ UNCHANGED dbVars /\ Goes(r, run[r])
      BY <1>4, <3>1 DEF dbVars
    <3>2. CASE /\ seat' = seat \union {<<c, g, number>>}
               /\ UNCHANGED <<live, deleted, copy, removed, dressed, chosen, ballot>>
               /\ Goes(r, [run[r] EXCEPT !.read = number])
      BY <1>4, <3>2
    <3> QED
      BY <1>7, <3>1, <3>2 DEF SeatGuest
  <2>2. x \in Reads
    BY DEF Reads
  <2>3. PICK w \in RunsOn(copy) :
          /\ Goes(r, w) /\ w.script = run[r].script /\ w.at = run[r].at
          /\ w.found = run[r].found /\ w.read = x
    <3>1. CASE x = run[r].read /\ Goes(r, run[r])
      BY <2>2, <3>1, ReadsOf
    <3>2. CASE Goes(r, [run[r] EXCEPT !.read = x])
      BY <2>2, <3>2, ReadsOf
    <3> QED
      BY <2>1, <3>1, <3>2
  <2>4. \E k \in Nat : \A y \in seat' : y[3] \in 0..k
    <3>1. PICK n \in Nat : n = number
      BY <1>4
    <3>2. \A y \in seat' : y[3] \in 0..(b + n)
      <4>1. \A y \in seat' : y \in seat \/ y = <<c, g, n>>
        BY <2>1, <3>1
      <4>2. \A y \in seat : y[3] \in 0..(b + n)
        BY <1>5
      <4>3. <<c, g, n>>[3] \in 0..(b + n)
        OBVIOUS
      <4> QED
        BY <4>1, <4>2, <4>3
    <3>3. b + n \in Nat
      OBVIOUS
    <3> QED
      BY <3>2, <3>3
  <2>5. /\ SeedTypes' /\ Alone' /\ OneOfEach'
        /\ \A s \in Runs \ {r} : RunOK(s)'
        /\ Advances(r) /\ PlaceOK(r)' /\ CauseOK(r)'
        /\ run'[r].read = x /\ run'[r].found = run[r].found
        /\ Undisturbed(r)' => RowsOK(r) /\ HeldOK(r) /\ SeatsOK(r) /\ TallyOK(r)
    BY <1>1, <2>1, <2>3, <2>4, PlainStep
  <2>6. FoundOK(r)' /\ SearchOK(r)' /\ StillFinds(r)
    BY <1>1, <2>5, FoundKept
  <2>7. NumberOK(r)'
    BY <2>5 DEF NumberOK
  <2>8. ASSUME Undisturbed(r)' PROVE RowsOK(r)' /\ HeldOK(r)' /\ SeatsOK(r)' /\ TallyOK(r)'
    <3>1. RowsOK(r)'
      BY <1>1, <2>1, <2>5, <2>8, RowsKept
    <3>2. HeldOK(r)'
      BY <1>1, <2>1, <2>5, <2>8, HeldKept
    <3>3. SeatsOK(r)'
      <4>1. PICK k : k = Found(r, "event") /\ Found(r, "event")' = k
        BY <2>5, SameFound
      <4>2. \A m \in Numbers(k) : m \in Nat /\ m <= run[r].read
        BY <1>3, <1>5, <2>5, <2>8, <4>1 DEF SeatsOK, Numbers
      <4>3. Numbers(k)' \subseteq Numbers(k) \union {x} /\ Seated(k) \subseteq Seated(k)'
        BY <2>1 DEF Numbers, Seated
      <4>4. g \in Seated(k)'
        <5>1. CASE g \in Seated(c)
          BY <4>1, <4>3, <5>1
        <5>2. CASE seat' = seat \union {<<c, g, number>>}
          <6>1. PICK y \in seat' : y[1] = k /\ y[2] = g
            <7>1. <<c, g, number>> \in seat' /\ c = k
              BY <4>1, <5>2
            <7> HIDE DEF c, g, number
            <7>2. <<c, g, number>>[1] = c /\ <<c, g, number>>[2] = g
              OBVIOUS
            <7> QED
              BY <7>1, <7>2
          <6> HIDE DEF c, g, number
          <6> QED
            BY <6>1 DEF Seated
        <5> QED
          BY <2>1, <5>1, <5>2
      <4>5. run[r].read <= x
        BY <1>4, <2>1
      <4>6. ASSUME NEW q \in Invited, EachOf("seat", q) \in DoneBy(r)'
            PROVE  q \in Seated(k)'
        <5>1. CASE EachOf("seat", q) \in DoneBy(r)
          BY <2>5, <2>8, <4>1, <4>3, <5>1 DEF SeatsOK
        <5>2. CASE EachOf("seat", q) \notin DoneBy(r)
          <6>1. EachOf("seat", q) = EachOf("seat", g)
            BY <1>2, <2>5, <4>6, <5>2 DEF Advances
          <6>2. q = g
            BY <6>1 DEF EachOf
          <6> QED
            BY <4>4, <6>2
        <5> QED
          BY <5>1, <5>2
      <4>7. \A m \in Numbers(k)' : m <= x
        BY <1>4, <4>2, <4>3, <4>5
      <4> QED
        BY <2>5, <4>1, <4>6, <4>7 DEF SeatsOK
    <3>4. TallyOK(r)'
      BY <1>1, <2>1, <2>5, <2>6, <2>8, TallyKept
    <3> QED
      BY <3>1, <3>2, <3>3, <3>4
  <2> QED
    BY <2>5, <2>6, <2>7, <2>8 DEF RunOK, SeedInv
<1> QED
  BY <1>6, <1>7

(* A step on the poll.                                                     *)
LEMMA PollStep ==
  ASSUME SeedAssumption, SeedInv, NEW r \in Runs, Running(r), NEW x \in Reads,
         NEW w, w = run[r] \/ (w = [run[r] EXCEPT !.read = x] /\ Entry(r).op = "count"),
         Goes(r, w), UNCHANGED <<live, deleted, copy, removed, dressed, seat>>,
         Entry(r).op \in {"reset", "ballot", "count", "tally"},
         Advances(r) /\ StillFinds(r) /\ TallyOK(r) /\ run'[r].read = w.read => TallyOK(r)'
  PROVE  SeedInv'
<1>1. /\ w \in RunsOn(copy) /\ w.script = run[r].script /\ w.at = run[r].at /\ w.found = run[r].found
      /\ w.read = run[r].read \/ Entry(r).op = "count"
  <2>1. CASE w = run[r]
    BY <2>1, ReadsOf
  <2>2. CASE w = [run[r] EXCEPT !.read = x] /\ Entry(r).op = "count"
    BY <2>2, ReadsOf
  <2> QED
    BY <2>1, <2>2
<1>2. \E b \in Nat : \A y \in seat' : y[3] \in 0..b
  BY DEF SeedInv, SeedTypes
<1>3. /\ SeedTypes' /\ Alone' /\ OneOfEach'
      /\ \A s \in Runs \ {r} : RunOK(s)'
      /\ Advances(r) /\ PlaceOK(r)' /\ CauseOK(r)'
      /\ run'[r].read = w.read /\ run'[r].found = run[r].found
      /\ Undisturbed(r)' => RowsOK(r) /\ HeldOK(r) /\ SeatsOK(r) /\ TallyOK(r)
  BY <1>1, <1>2, PlainStep
<1>4. FoundOK(r)' /\ SearchOK(r)' /\ StillFinds(r)
  BY <1>3, FoundKept
<1>5. NumberOK(r)'
  <2>1. Entry(r).op = "count" => Entry(r) = DoOf("count")
    BY <1>3, EntryFacts, OtherOps DEF Advances
  <2> QED
    BY <1>1, <1>3, <2>1, NumberKept
<1>6. ASSUME Undisturbed(r)' PROVE RowsOK(r)' /\ HeldOK(r)' /\ SeatsOK(r)' /\ TallyOK(r)'
  <2>1. RowsOK(r)'
    BY <1>3, <1>6, RowsKept
  <2>2. HeldOK(r)'
    BY <1>3, <1>6, HeldKept
  <2>3. SeatsOK(r)'
    BY <1>1, <1>3, <1>4, <1>6, SeatsKept
  <2>4. TallyOK(r)'
    BY <1>3, <1>4, <1>6
  <2> QED
    BY <2>1, <2>2, <2>3, <2>4
<1>7. RunOK(r)'
  BY <1>3, <1>4, <1>5, <1>6 DEF RunOK
<1> QED
  BY <1>3, <1>7 DEF SeedInv

(* What a step on the poll does to what the run has done of it.            *)
LEMMA PollDone ==
  ASSUME SeedAssumption, NEW r \in Runs, Advances(r), StillFinds(r),
         Entry(r).op \in {"reset", "ballot", "count", "tally"}
  PROVE  /\ Found(r, "poll")' = Found(r, "poll")
         /\ DoOf("reset") \in DoneBy(r)' <=> DoOf("reset") \in DoneBy(r) \/ Entry(r).op = "reset"
         /\ DoOf("count") \in DoneBy(r)' <=> DoOf("count") \in DoneBy(r) \/ Entry(r).op = "count"
         /\ \A o : EachOf("tally", o) \in DoneBy(r)' <=>
                     EachOf("tally", o) \in DoneBy(r) \/ (Entry(r).op = "tally" /\ Entry(r).of = o)
         /\ Entry(r).op = "tally" => DoOf("count") \in DoneBy(r)
         /\ Entry(r).op = "count" =>
              DoOf("reset") \in DoneBy(r) /\ \A o : EachOf("tally", o) \notin DoneBy(r)
         /\ DoOf("count") \in DoneBy(r) => Entry(r).op = "tally"
         /\ Entry(r) \notin DoneBy(r)
<1>1. Running(r) /\ PlaceOK(r) /\ DoneBy(r)' = DoneBy(r) \union {Entry(r)}
  BY DEF Advances
<1>2. /\ Entry(r) \in StepsOf(run[r].script) /\ run[r].script \in {"base", "demo"}
      /\ Entry(r) \notin DoneBy(r) /\ DoneBy(r) \subseteq StepsOf(run[r].script)
  BY <1>1, EntryFacts
<1>3. /\ Entry(r).op = "reset" => Entry(r) = DoOf("reset")
      /\ Entry(r).op = "count" => Entry(r) = DoOf("count")
      /\ Entry(r).op = "tally" => Entry(r) = EachOf("tally", Entry(r).of)
  <2>1. Entry(r).op = "tally" => \E o : Entry(r) = EachOf("tally", o)
    BY <1>2, OtherOps
  <2> QED
    BY <1>2, <2>1, OtherOps DEF EachOf
<1>4. /\ DoOf("reset").op = "reset" /\ DoOf("count").op = "count"
      /\ \A o : EachOf("tally", o).op = "tally" /\ EachOf("tally", o).of = o
  BY DEF DoOf, EachOf
<1>5. /\ DoOf("reset") \in DoneBy(r)' <=> DoOf("reset") \in DoneBy(r) \/ Entry(r).op = "reset"
      /\ DoOf("count") \in DoneBy(r)' <=> DoOf("count") \in DoneBy(r) \/ Entry(r).op = "count"
  BY <1>1, <1>3, <1>4
<1>6. \A o : EachOf("tally", o) \in DoneBy(r)' <=>
               EachOf("tally", o) \in DoneBy(r) \/ (Entry(r).op = "tally" /\ Entry(r).of = o)
  BY <1>1, <1>3, <1>4
<1>7. /\ Entry(r).op = "tally" => DoOf("count") \in DoneBy(r)
      /\ Entry(r).op = "count" =>
           DoOf("reset") \in DoneBy(r) /\ \A o : EachOf("tally", o) \notin DoneBy(r)
  BY <1>1, <1>3, AtTallies
<1>8. DoOf("count") \in DoneBy(r) => Entry(r).op = "tally"
  BY <1>1, <1>2, <1>3, AtSeats
<1>9. Found(r, "poll")' = Found(r, "poll")
  <2>1. WriteOf("poll") \in StepsOf(run[r].script) /\ Place(WriteOf("poll")) = 45 /\ "poll" \in Things
    BY <1>2, DemoHas, StepPlaces DEF ThingAt, Things
  <2>2. Place(Entry(r)) \in {46, 47, 48, 49}
    BY <1>2, OtherOps, StepPlaces
  <2>3. \A f \in StepsOf(run[r].script) : f \notin DoneBy(r) => Place(Entry(r)) <= Place(f)
    BY <1>1, EntryFacts
  <2> QED
    BY <2>1, <2>2, <2>3 DEF StillFinds
<1> QED
  BY <1>2, <1>5, <1>6, <1>7, <1>8, <1>9

LEMMA ResetKeeps ==
  ASSUME SeedAssumption, SeedInv, NEW r \in Runs, ResetCounts(r)
  PROVE  SeedInv'
<1>1. /\ Running(r) /\ Entry(r).op = "reset"
      /\ chosen' = Recounted(Found(r, "poll"), [o \in Options |-> 0])
      /\ UNCHANGED <<live, deleted, copy, removed, dressed, seat, ballot>> /\ Goes(r, run[r])
  BY DEF ResetCounts, Doing
<1>2. ASSUME Advances(r), StillFinds(r)
      PROVE  TallyOK(r)'
  <2>1. PICK k : k = Found(r, "poll") /\ Found(r, "poll")' = k
    BY <1>1, <1>2, PollDone
  <2>2. CountsOf(k)' = {}
    <3>1. \A x \in chosen' : x[1] # k
      BY <1>1, <2>1 DEF Recounted
    <3> QED
      BY <3>1 DEF CountsOf
  <2>3. DoOf("count") \notin DoneBy(r)'
    BY <1>1, <1>2, PollDone
  <2> QED
    BY <2>1, <2>2, <2>3 DEF TallyOK
<1>3. {} \in Reads
  BY DEF Reads
<1> QED
  BY <1>1, <1>2, <1>3, PollStep

LEMMA BallotKeeps ==
  ASSUME SeedAssumption, SeedInv, NEW r \in Runs, SetBallot(r)
  PROVE  SeedInv'
<1>1. /\ Running(r) /\ Entry(r).op = "ballot" /\ UNCHANGED chosen
      /\ UNCHANGED <<live, deleted, copy, removed, dressed, seat>> /\ Goes(r, run[r])
  BY DEF SetBallot, Doing
<1>2. ASSUME Advances(r), StillFinds(r), TallyOK(r)
      PROVE  TallyOK(r)'
  <2>1. /\ Found(r, "poll")' = Found(r, "poll")
        /\ DoOf("reset") \in DoneBy(r)' => DoOf("reset") \in DoneBy(r)
        /\ DoOf("count") \notin DoneBy(r)' /\ DoOf("count") \notin DoneBy(r)
    BY <1>1, <1>2, PollDone
  <2>2. \A c : CountsOf(c)' = CountsOf(c)
    BY <1>1 DEF CountsOf
  <2> QED
    BY <1>2, <2>1, <2>2 DEF TallyOK
<1>3. {} \in Reads
  BY DEF Reads
<1> QED
  BY <1>1, <1>2, <1>3, PollStep

LEMMA CountKeeps ==
  ASSUME SeedAssumption, SeedInv, NEW r \in Runs, CountBallots(r)
  PROVE  SeedInv'
<1> DEFINE x == [o \in Options |-> Ballots(Found(r, "poll"), o)]
<1>1. /\ Running(r) /\ Entry(r).op = "count" /\ UNCHANGED dbVars
      /\ Goes(r, [run[r] EXCEPT !.read = x])
  BY DEF CountBallots, Doing
<1>2. x \in Reads
  <2>1. x \in [Options -> Nat]
    BY BallotsNat
  <2> QED
    BY <2>1 DEF Reads
<1>3. [run[r] EXCEPT !.read = x].read = x
  <2> HIDE DEF x
  <2> QED
    BY <1>2, ReadsOf
<1>4. UNCHANGED <<live, deleted, copy, removed, dressed, seat, chosen, ballot>>
  BY <1>1 DEF dbVars
<1>5. ASSUME Advances(r), StillFinds(r), TallyOK(r), run'[r].read = x
      PROVE  TallyOK(r)'
  <2>1. PICK k : k = Found(r, "poll") /\ Found(r, "poll")' = k
    BY <1>1, <1>5, PollDone
  <2>2. /\ DoOf("reset") \in DoneBy(r) /\ DoOf("count") \in DoneBy(r)'
        /\ DoOf("count") \notin DoneBy(r)
        /\ \A o : EachOf("tally", o) \notin DoneBy(r)'
    BY <1>1, <1>5, PollDone
  <2>3. \A o : CountOf(k, o)' = CountOf(k, o) /\ Ballots(k, o)' = Ballots(k, o)
    BY <1>4 DEF CountOf, Ballots
  <2>4. \A o : CountOf(k, o) = 0
    <3>1. CountsOf(k) = {}
      BY <1>5, <2>1, <2>2 DEF TallyOK
    <3> QED
      BY <3>1, NoCounts
  <2>5. run'[r].read = [o \in Options |-> Ballots(k, o)']
    BY <1>5, <2>1, <2>3
  <2> HIDE DEF x
  <2> QED
    BY <2>1, <2>2, <2>3, <2>4, <2>5 DEF TallyOK
<1> HIDE DEF x
<1> QED
  BY <1>1, <1>2, <1>3, <1>4, <1>5, PollStep

LEMMA TallyKeeps ==
  ASSUME SeedAssumption, SeedInv, NEW r \in Runs, WriteCount(r)
  PROVE  SeedInv'
<1> DEFINE c == Found(r, "poll")
           p == Entry(r).of
           count == run[r].read[p]
           f == [o \in Options |-> IF o = p THEN count ELSE CountOf(c, o)]
<1>1. /\ Running(r) /\ Entry(r).op = "tally"
      /\ IF count = 0 THEN UNCHANGED chosen ELSE chosen' = Recounted(c, f)
      /\ UNCHANGED <<live, deleted, copy, removed, dressed, seat, ballot>> /\ Goes(r, run[r])
  BY DEF WriteCount, Doing
<1>2. ASSUME Advances(r), StillFinds(r), TallyOK(r), run'[r].read = run[r].read
      PROVE  TallyOK(r)'
  <2>1. PICK k : k = Found(r, "poll") /\ Found(r, "poll")' = k
    BY <1>1, <1>2, PollDone
  <2>2. /\ DoOf("count") \in DoneBy(r) /\ DoOf("count") \in DoneBy(r)'
        /\ \A o : EachOf("tally", o) \in DoneBy(r)' <=> EachOf("tally", o) \in DoneBy(r) \/ p = o
        /\ Entry(r) \notin DoneBy(r)
    BY <1>1, <1>2, PollDone
  <2>3. Entry(r) = EachOf("tally", p) /\ p \in Options
    <3>1. \E o \in Options : Entry(r) = EachOf("tally", o)
      BY <1>1, <1>2, EntryFacts, OtherOps DEF Advances
    <3> QED
      BY <3>1 DEF EachOf
  <2>4. /\ run[r].read = [o \in Options |-> Ballots(k, o)]
        /\ \A o \in Options :
             /\ EachOf("tally", o) \in DoneBy(r) => CountOf(k, o) = Ballots(k, o)
             /\ EachOf("tally", o) \notin DoneBy(r) => CountOf(k, o) = 0
    BY <1>2, <2>1, <2>2 DEF TallyOK
  <2>5. \A o : Ballots(k, o)' = Ballots(k, o)
    BY <1>1 DEF Ballots
  <2>6. ASSUME NEW o \in Options
        PROVE  CountOf(k, o)' = IF o = p THEN Ballots(k, p) ELSE CountOf(k, o)
    <3>1. count = Ballots(k, p)
      BY <2>3, <2>4
    <3>2. CASE count = 0
      <4>1. CountOf(k, o)' = CountOf(k, o)
        BY <1>1, <3>2 DEF CountOf
      <4>2. CountOf(k, p) = 0
        BY <2>2, <2>3, <2>4
      <4> QED
        BY <3>1, <3>2, <4>1, <4>2
    <3>3. CASE count # 0
      <4>1. chosen' = Recounted(k, f)
        BY <1>1, <2>1, <3>3
      <4>2. CountOf(k, o)' = f[o]
        <5> HIDE DEF f
        <5> QED
          BY <4>1, RecountedIs
      <4> QED
        BY <2>1, <3>1, <4>2
    <3> QED
      BY <3>2, <3>3
  <2>7. \A o \in Options :
          /\ EachOf("tally", o) \in DoneBy(r)' => CountOf(k, o)' = Ballots(k, o)'
          /\ EachOf("tally", o) \notin DoneBy(r)' => CountOf(k, o)' = 0
    BY <2>2, <2>4, <2>5, <2>6
  <2>8. run'[r].read = [o \in Options |-> Ballots(k, o)']
    BY <1>2, <2>4, <2>5
  <2> HIDE DEF c, p, count, f
  <2> QED
    BY <2>1, <2>2, <2>7, <2>8 DEF TallyOK
<1>3. {} \in Reads
  BY DEF Reads
<1>4. UNCHANGED <<live, deleted, copy, removed, dressed, seat>>
  BY <1>1
<1> HIDE DEF c, p, count, f
<1> QED
  BY <1>1, <1>2, <1>3, <1>4, PollStep

------------------------------------------------------------------------------
(* Searches                                                                *)

LEMMA HitsOf ==
  ASSUME SeedInv, NEW r \in Runs, NEW c \in copy \union {Nothing}
  PROVE  \E w \in RunsOn(copy) :
           /\ w = [run[r] EXCEPT !.hit = c] /\ w.script = run[r].script /\ w.at = run[r].at
           /\ w.found = run[r].found /\ w.read = run[r].read /\ w.hit = c
<1>1. PICK k \in RunsOn(copy) : k = run[r]
  BY DEF SeedInv, SeedTypes
<1>2. [k EXCEPT !.hit = c] \in RunsOn(copy)
  BY DEF RunsOn
<1>3. /\ [k EXCEPT !.hit = c].script = k.script
      /\ [k EXCEPT !.hit = c].at = k.at
      /\ [k EXCEPT !.hit = c].found = k.found
      /\ [k EXCEPT !.hit = c].hit = c
      /\ [k EXCEPT !.hit = c].read = k.read
  BY DEF RunsOn
<1> QED
  BY <1>1, <1>2, <1>3

LEMMA FindKeeps ==
  ASSUME SeedAssumption, SeedInv, NEW r \in Runs, FindCopy(r)
  PROVE  SeedInv'
<1> DEFINE u == Entry(r).thing
           p == ParentIn(r, u)
<1>1. Running(r) /\ Entry(r).op = "find" /\ PlaceOK(r) /\ FoundOK(r)
  BY DEF FindCopy, Doing, SeedInv, RunOK
<1>2. PICK c \in IF Matches(u, p) = {} THEN {Nothing} ELSE Matches(u, p) :
         UNCHANGED dbVars /\ Goes(r, [run[r] EXCEPT !.hit = c])
  BY DEF FindCopy
<1>3. Entry(r) = FindOf(u) /\ u \in Things
  <2>1. \E t \in Things : Entry(r) = FindOf(t)
    BY <1>1, EntryFacts, OtherOps
  <2> QED
    BY <2>1 DEF FindOf
<1>4. UNCHANGED <<live, deleted, copy, removed, dressed, seat, chosen, ballot>>
  BY <1>2 DEF dbVars
<1>5. /\ c \in copy \union {Nothing} /\ c \notin removed
      /\ c # Nothing => c \in Alike(u, p)
      /\ c = Nothing => Matches(u, p) = {}
  <2>1. Nothing \notin copy /\ removed \subseteq copy
    BY DEF SeedInv, SeedTypes
  <2>2. Matches(u, p) = Alike(u, p) \ removed /\ Alike(u, p) \subseteq copy
    BY DEF Matches, Alike
  <2>3. Matches(u, p) = {} \/ c \in Matches(u, p)
    BY <1>2
  <2>4. Matches(u, p) = {} => c = Nothing
    BY <1>2
  <2> HIDE DEF u, p
  <2> QED
    BY <2>1, <2>2, <2>3, <2>4
<1> HIDE DEF u, p
<1>6. PICK w \in RunsOn(copy) :
        /\ w = [run[r] EXCEPT !.hit = c] /\ w.script = run[r].script /\ w.at = run[r].at
        /\ w.found = run[r].found /\ w.read = run[r].read /\ w.hit = c
  BY <1>5, HitsOf
<1>7. \E b \in Nat : \A y \in seat' : y[3] \in 0..b
  BY <1>4 DEF SeedInv, SeedTypes
<1>8. /\ SeedTypes' /\ Alone' /\ OneOfEach'
      /\ \A s \in Runs \ {r} : RunOK(s)'
      /\ Advances(r) /\ PlaceOK(r)' /\ CauseOK(r)'
      /\ run'[r].read = run[r].read /\ run'[r].found = run[r].found /\ run'[r].hit = c
      /\ Undisturbed(r)' => RowsOK(r) /\ HeldOK(r) /\ SeatsOK(r) /\ TallyOK(r)
  BY <1>1, <1>2, <1>4, <1>6, <1>7, PlainStep
<1>9. \A t : Found(r, t)' = Found(r, t) /\ ParentIn(r, t)' = ParentIn(r, t)
  BY <1>8, SameFound
<1>10. /\ \A t : Entry(r) # WriteOf(t) /\ Entry(r) # DressOf(t)
       /\ \A t : Entry(r) = FindOf(t) => t = u
  BY <1>1, <1>3 DEF FindOf, WriteOf, DressOf
<1>11. \A t \in Things : FindOf(t) \in DoneBy(r)' /\ WriteOf(t) \notin DoneBy(r)' => t = u
  BY <1>8, <1>10, AfterFind
<1>12. \A t : /\ WriteOf(t) \in DoneBy(r)' <=> WriteOf(t) \in DoneBy(r)
              /\ DressOf(t) \in DoneBy(r)' <=> DressOf(t) \in DoneBy(r)
  BY <1>8, <1>10 DEF Advances
<1>13. p = ParentIn(r, u)
  BY DEF p
<1>14. \A t, q : Alike(t, q)' = Alike(t, q) /\ Matches(t, q)' = Matches(t, q)
  BY <1>4 DEF Matches, Alike
<1>15. FoundOK(r)'
  <2>1. run[r].state # "idle"
    BY <1>1 DEF Running
  <2>2. \A t \in Things : FindOf(t) \in DoneBy(r)' /\ WriteOf(t) \notin DoneBy(r)' /\ c # Nothing =>
          c \in Alike(t, ParentIn(r, t))
    BY <1>5, <1>11, <1>13
  <2> QED
    BY <1>1, <1>8, <1>9, <1>12, <1>14, <2>1, <2>2 DEF FoundOK
<1>16. SearchOK(r)'
  BY <1>5, <1>8, <1>9, <1>11, <1>13, <1>14 DEF SearchOK
<1>17. StillFinds(r)
  BY <1>9 DEF StillFinds
<1>18. NumberOK(r)'
  BY <1>1, <1>8, NumberKept
<1>19. ASSUME Undisturbed(r)' PROVE RowsOK(r)' /\ HeldOK(r)' /\ SeatsOK(r)' /\ TallyOK(r)'
  <2>1. RowsOK(r)'
    BY <1>1, <1>4, <1>8, <1>19, RowsKept
  <2>2. HeldOK(r)'
    BY <1>4, <1>5, <1>8, <1>9, <1>12, <1>19 DEF HeldOK
  <2>3. SeatsOK(r)'
    BY <1>1, <1>4, <1>8, <1>17, <1>19, SeatsKept
  <2>4. TallyOK(r)'
    BY <1>1, <1>4, <1>8, <1>17, <1>19, TallyKept
  <2> QED
    BY <2>1, <2>2, <2>3, <2>4
<1> QED
  BY <1>8, <1>15, <1>16, <1>18, <1>19 DEF RunOK, SeedInv

------------------------------------------------------------------------------
(* What a search has found, or what is made when it found nothing          *)

LEMMA FoundsOf ==
  ASSUME SeedInv, NEW r \in Runs, NEW S, copy \subseteq S, NEW c \in S,
         Goes(r, [run[r] EXCEPT !.found = @ \union {c}, !.hit = Nothing])
  PROVE  \E w \in RunsOn(S) :
           /\ Goes(r, w)
           /\ w.script = run[r].script /\ w.at = run[r].at
           /\ w.found = run[r].found \union {c} /\ w.read = run[r].read /\ w.hit = Nothing
<1>1. PICK k \in RunsOn(S) : k = run[r]
  <2>1. RunsOn(copy) \subseteq RunsOn(S)
    BY DEF RunsOn
  <2> QED
    BY <2>1 DEF SeedInv, SeedTypes
<1>2. PICK f \in SUBSET S : f = k.found \union {c}
  BY DEF RunsOn
<1>3. [k EXCEPT !.found = f, !.hit = Nothing] \in RunsOn(S)
  BY DEF RunsOn
<1>4. /\ [k EXCEPT !.found = f, !.hit = Nothing].script = k.script
      /\ [k EXCEPT !.found = f, !.hit = Nothing].at = k.at
      /\ [k EXCEPT !.found = f, !.hit = Nothing].found = f
      /\ [k EXCEPT !.found = f, !.hit = Nothing].hit = Nothing
      /\ [k EXCEPT !.found = f, !.hit = Nothing].read = k.read
  BY DEF RunsOn
<1>5. Goes(r, [k EXCEPT !.found = f, !.hit = Nothing])
  <2>1. [k EXCEPT !.found = f, !.hit = Nothing] = [run[r] EXCEPT !.found = @ \union {c}, !.hit = Nothing]
    BY <1>1, <1>2
  <2> QED
    BY <2>1
<1> QED
  BY <1>1, <1>2, <1>3, <1>4, <1>5

LEMMA WriteFound ==
  ASSUME SeedAssumption, NEW r \in Runs, Advances(r), NEW u \in Things, Entry(r) = WriteOf(u),
         NEW c, c.thing = u, c.parent = ParentIn(r, u),
         run'[r].found = run[r].found \union {c}, run'[r].read = run[r].read
  PROVE  /\ FoundOK(r)' /\ SearchOK(r)' /\ StillFinds(r) /\ NumberOK(r)'
         /\ UNCHANGED <<live, deleted>> /\ RowsOK(r) => RowsOK(r)'
         /\ UNCHANGED seat /\ SeatsOK(r) => SeatsOK(r)'
         /\ UNCHANGED <<chosen, ballot>> /\ TallyOK(r) => TallyOK(r)'
         /\ UNCHANGED removed /\ UNCHANGED dressed /\ c \notin removed /\ HeldOK(r) => HeldOK(r)'
<1>1. /\ Running(r) /\ PlaceOK(r) /\ FoundOK(r) /\ run[r].state # "idle"
      /\ DoneBy(r)' = DoneBy(r) \union {Entry(r)}
  BY DEF Advances, Running
<1>2. /\ Entry(r) \notin DoneBy(r) /\ Entry(r) \in StepsOf(run[r].script)
      /\ run[r].script \in {"base", "demo"} /\ DoneBy(r) \subseteq StepsOf(run[r].script)
      /\ \A f \in DoneBy(r) : Place(f) <= Place(Entry(r))
  BY <1>1, EntryFacts
<1>3. /\ Entry(r).op = "write"
      /\ \A t : Entry(r) # FindOf(t) /\ Entry(r) # DressOf(t)
      /\ \A t : Entry(r) = WriteOf(t) => t = u
  BY DEF FindOf, WriteOf, DressOf
<1>4. \A t \in Things : ~(FindOf(t) \in DoneBy(r)' /\ WriteOf(t) \notin DoneBy(r)')
  BY <1>3, AfterFind
<1>5. \A d \in run[r].found : d.thing # u
  BY <1>1, <1>2 DEF FoundOK
<1>6. \A t \in Things : WriteOf(t) \in DoneBy(r) => Found(r, t)' = Found(r, t)
  <2>1. \A t \in Things : WriteOf(t) \in DoneBy(r) => c.thing # t
    BY <1>2
  <2> QED
    BY <1>1, <2>1, FoundStays
<1>7. StillFinds(r)
  BY <1>6 DEF StillFinds
<1>8. FoundOK(r)'
  <2>1. \A x, y \in run[r].found \union {c} : x.thing = y.thing => x = y
    BY <1>1, <1>5 DEF FoundOK
  <2>2. \A x \in run[r].found \union {c} : WriteOf(x.thing) \in DoneBy(r)'
    BY <1>1 DEF FoundOK
  <2>3. \A t \in Things : WriteOf(t) \in DoneBy(r)' => \E x \in run[r].found \union {c} : x.thing = t
    BY <1>1, <1>3 DEF FoundOK
  <2>4. ASSUME NEW x \in run[r].found \union {c}, x.thing \in DOMAIN ParentOf
        PROVE  x.parent \in run[r].found \union {c}
    <3>1. CASE x = c
      <4>1. ParentIn(r, u) \in run[r].found
        BY <1>1, <2>4, <3>1, ParentFound
      <4> QED
        BY <3>1, <4>1
    <3>2. CASE x \in run[r].found
      BY <1>1, <2>4, <3>2 DEF FoundOK
    <3> QED
      BY <3>1, <3>2
  <2> QED
    BY <1>4, <2>1, <2>2, <2>3, <2>4 DEF FoundOK
<1>9. SearchOK(r)'
  BY <1>4 DEF SearchOK
<1>10. NumberOK(r)'
  BY <1>3, NumberKept
<1>11. UNCHANGED <<live, deleted>> /\ RowsOK(r) => RowsOK(r)'
  BY <1>3, RowsKept
<1>12. UNCHANGED seat /\ SeatsOK(r) => SeatsOK(r)'
  BY <1>3, <1>7, SeatsKept
<1>13. UNCHANGED <<chosen, ballot>> /\ TallyOK(r) => TallyOK(r)'
  BY <1>3, <1>7, TallyKept
<1>14. ASSUME UNCHANGED removed, UNCHANGED dressed, c \notin removed, HeldOK(r)
       PROVE  HeldOK(r)'
  <2>1. ASSUME NEW t \in Dressed, DressOf(t) \in DoneBy(r)'
        PROVE  Found(r, t)' \in dressed
    <3>1. DressOf(t) \in DoneBy(r) /\ DressOf(t).op = "dress" /\ t \in Things
      BY <1>1, <1>3, <2>1 DEF DressOf, Dressed, Things, ParentOf
    <3>2. /\ WriteOf(t) \in StepsOf(run[r].script)
          /\ Place(WriteOf(t)) = ThingAt[t] + 1 /\ Place(DressOf(t)) = ThingAt[t] + 3 /\ ThingAt[t] \in Int
      BY <1>2, <3>1, DemoHas, StepPlaces
    <3>3. run[r].state \in {"runs", "done", "failed"} /\ Place(WriteOf(t)) < Place(DressOf(t))
      BY <1>1, <3>2 DEF Running
    <3>4. WriteOf(t) \in DoneBy(r)
      BY <1>1, <3>1, <3>2, <3>3, Behind
    <3> QED
      BY <1>6, <1>14, <3>1, <3>4 DEF HeldOK
  <2> QED
    BY <1>4, <1>14, <2>1 DEF HeldOK
<1> QED
  BY <1>7, <1>8, <1>9, <1>10, <1>11, <1>12, <1>13, <1>14

(* A copy that is made is the first or one more of its kind.               *)
LEMMA NewCopy ==
  ASSUME SeedTypes, NEW u \in Things, NEW p, NEW new,
         new = [thing |-> u, parent |-> p, number |-> Cardinality(Of(copy, u)) + 1],
         NEW S, S = copy \union {new}
  PROVE  /\ new.thing = u /\ new.parent = p /\ new \notin copy /\ new # Nothing
         /\ IsFiniteSet(S)
         /\ \A c \in S : /\ c.thing \in Things /\ c.number \in Nat
                         /\ c.number <= Cardinality(Of(S, c.thing))
<1>1. \A t : IsFiniteSet(Of(copy, t)) /\ Cardinality(Of(copy, t)) \in Nat
  <2>1. \A t : Of(copy, t) \subseteq copy /\ IsFiniteSet(copy)
    BY DEF SeedTypes, Of
  <2>2. \A t : IsFiniteSet(Of(copy, t))
    BY <2>1, FS_Subset
  <2> QED
    BY <2>2, FS_CardinalityType
<1>2. PICK n \in Nat : n = Cardinality(Of(copy, u))
  BY <1>1
<1>3. new.thing = u /\ new.parent = p /\ new.number = n + 1
  BY <1>2
<1>4. new \notin copy
  <2>1. \A c \in copy : c.thing = u => c.number <= n
    BY <1>2 DEF SeedTypes
  <2> QED
    BY <1>3, <2>1
<1>5. new # Nothing
  <2>1. DOMAIN new = {"thing", "parent", "number"}
    OBVIOUS
  <2>2. DOMAIN Nothing = {}
    BY DEF Nothing
  <2> QED
    BY <2>1, <2>2
<1>6. IsFiniteSet(S)
  BY FS_AddElement DEF SeedTypes
<1>7. Of(S, u) = Of(copy, u) \union {new} /\ \A t : t # u => Of(S, t) = Of(copy, t)
  BY <1>3 DEF Of
<1>8. new \notin Of(copy, u)
  BY <1>4 DEF Of
<1>9. Cardinality(Of(S, u)) = n + 1
  <2>1. PICK M : M = Of(copy, u) /\ IsFiniteSet(M) /\ new \notin M /\ Cardinality(M) = n
    BY <1>1, <1>2, <1>8
  <2>2. Cardinality(M \union {new}) = Cardinality(M) + 1
    BY <2>1, FS_AddElement
  <2> QED
    BY <1>7, <2>1, <2>2
<1>10. ASSUME NEW c \in S
       PROVE  c.thing \in Things /\ c.number \in Nat /\ c.number <= Cardinality(Of(S, c.thing))
  <2>1. CASE c = new
    BY <1>3, <1>9, <2>1
  <2>2. CASE c \in copy
    <3>1. c.thing \in Things /\ c.number \in Nat /\ c.number <= Cardinality(Of(copy, c.thing))
      BY <2>2 DEF SeedTypes
    <3>2. CASE c.thing = u
      BY <1>2, <1>9, <3>1, <3>2
    <3>3. CASE c.thing # u
      BY <1>7, <3>1, <3>3
    <3> QED
      BY <3>2, <3>3
  <2> QED
    BY <2>1, <2>2
<1> QED
  BY <1>3, <1>4, <1>5, <1>6, <1>10

LEMMA WriteKeeps ==
  ASSUME SeedAssumption, SeedInv, NEW r \in Runs, WriteCopy(r)
  PROVE  SeedInv'
<1> DEFINE u == Entry(r).thing
           p == ParentIn(r, u)
           new == [thing |-> u, parent |-> p, number |-> Cardinality({c \in copy : c.thing = u}) + 1]
           taken == u \in Unique /\ Alike(u, p) # {}
<1>1. Running(r) /\ Entry(r).op = "write" /\ PlaceOK(r) /\ FoundOK(r) /\ SearchOK(r) /\ SeedTypes
  BY DEF WriteCopy, Doing, SeedInv, RunOK
<1>2. Entry(r) = WriteOf(u) /\ u \in Things
  <2>1. \E t \in Things : Entry(r) = WriteOf(t)
    BY <1>1, EntryFacts, OtherOps
  <2> QED
    BY <2>1 DEF WriteOf
<1>3. FindOf(u) \in DoneBy(r) /\ WriteOf(u) \notin DoneBy(r)
  <2>1. /\ run[r].script \in {"base", "demo"} /\ Entry(r) \in StepsOf(run[r].script)
        /\ Entry(r) \notin DoneBy(r)
        /\ \A f \in StepsOf(run[r].script) : f \notin DoneBy(r) => Place(Entry(r)) <= Place(f)
    BY <1>1, EntryFacts
  <2>2. FindOf(u) \in StepsOf(run[r].script)
    BY <1>1, <1>2, <2>1, DemoHas
  <2>3. Place(FindOf(u)) = ThingAt[u] /\ Place(WriteOf(u)) = ThingAt[u] + 1 /\ ThingAt[u] \in Int
    BY <1>2, StepPlaces
  <2> QED
    BY <1>2, <2>1, <2>2, <2>3
<1>4. /\ run[r].hit # Nothing => run[r].hit \in Alike(u, p)
      /\ (overlapped => r \notin disturbed) /\ run[r].hit = Nothing => Matches(u, p) = {}
  BY <1>1, <1>2, <1>3 DEF FoundOK, SearchOK, Running
<1>5. CASE /\ run[r].hit # Nothing /\ UNCHANGED dbVars
           /\ Goes(r, [run[r] EXCEPT !.found = @ \union {run[r].hit}, !.hit = Nothing])
  <2>1. UNCHANGED <<live, deleted, copy, removed, dressed, seat, chosen, ballot>>
    BY <1>5 DEF dbVars
  <2>2. PICK c \in copy : c = run[r].hit /\ c.thing = u /\ c.parent = p
    BY <1>4, <1>5 DEF Alike
  <2> HIDE DEF u, p, new, taken
  <2>3. PICK w \in RunsOn(copy) :
          /\ Goes(r, w)
          /\ w.script = run[r].script /\ w.at = run[r].at
          /\ w.found = run[r].found \union {c} /\ w.read = run[r].read /\ w.hit = Nothing
    <3>1. Goes(r, [run[r] EXCEPT !.found = @ \union {c}, !.hit = Nothing])
      BY <1>5, <2>2
    <3>2. copy \subseteq copy
      OBVIOUS
    <3> QED
      BY <3>1, <3>2, FoundsOf
  <2>4. Goes(r, w)
    BY <2>3
  <2>5. \E b \in Nat : \A y \in seat' : y[3] \in 0..b
    BY <1>1, <2>1 DEF SeedTypes
  <2>6. /\ SeedTypes' /\ Alone' /\ OneOfEach'
        /\ \A s \in Runs \ {r} : RunOK(s)'
        /\ Advances(r) /\ PlaceOK(r)' /\ CauseOK(r)'
        /\ run'[r].read = run[r].read /\ run'[r].found = run[r].found \union {c}
        /\ Undisturbed(r)' => RowsOK(r) /\ HeldOK(r) /\ SeatsOK(r) /\ TallyOK(r)
    BY <1>1, <2>1, <2>3, <2>4, <2>5, PlainStep
  <2>7. c.parent = ParentIn(r, u)
    BY <2>2 DEF p
  <2>8. /\ FoundOK(r)' /\ SearchOK(r)' /\ StillFinds(r) /\ NumberOK(r)'
        /\ UNCHANGED <<live, deleted>> /\ RowsOK(r) => RowsOK(r)'
        /\ UNCHANGED seat /\ SeatsOK(r) => SeatsOK(r)'
        /\ UNCHANGED <<chosen, ballot>> /\ TallyOK(r) => TallyOK(r)'
        /\ UNCHANGED removed /\ UNCHANGED dressed /\ c \notin removed /\ HeldOK(r) => HeldOK(r)'
    BY <1>2, <2>2, <2>6, <2>7, WriteFound
  <2>9. HeldOK(r) => c \notin removed
    BY <1>2, <1>3, <2>2 DEF HeldOK
  <2> QED
    BY <2>1, <2>6, <2>8, <2>9 DEF RunOK, SeedInv
<1>6. CASE /\ run[r].hit = Nothing /\ ~taken
           /\ copy' = copy \union {new}
           /\ UNCHANGED <<live, deleted, removed, dressed, seat, chosen, ballot>>
           /\ Goes(r, [run[r] EXCEPT !.found = @ \union {new}, !.hit = Nothing])
  <2>1. PICK c : /\ c = new
                 /\ c = [thing |-> u, parent |-> p, number |-> Cardinality(Of(copy, u)) + 1]
    BY DEF Of
  <2>2. PICK S : S = copy \union {c}
    OBVIOUS
  <2>3. /\ c.thing = u /\ c.parent = p /\ c \notin copy /\ c # Nothing
        /\ IsFiniteSet(S)
        /\ \A d \in S : /\ d.thing \in Things /\ d.number \in Nat
                        /\ d.number <= Cardinality(Of(S, d.thing))
    <3> HIDE DEF u, p, new, taken
    <3> QED
      BY <1>1, <1>2, <2>1, <2>2, NewCopy
  <2>4. /\ copy' = S /\ c \in S /\ copy \subseteq S
        /\ Goes(r, [run[r] EXCEPT !.found = @ \union {c}, !.hit = Nothing])
        /\ UNCHANGED <<live, deleted, removed, dressed, seat, chosen, ballot>>
    BY <1>6, <2>1, <2>2
  <2>5. p = ParentIn(r, u) /\ (u \in Unique => Alike(u, p) = {})
    BY <1>6
  <2> HIDE DEF u, p, new, taken
  <2>6. PICK w \in RunsOn(S) :
          /\ Goes(r, w)
          /\ w.script = run[r].script /\ w.at = run[r].at
          /\ w.found = run[r].found \union {c} /\ w.read = run[r].read /\ w.hit = Nothing
    BY <2>4, FoundsOf
  <2>7. Goes(r, w)
    BY <2>6
  <2>8. /\ run' \in [Runs -> RunsOn(S)]
        /\ \A s \in Runs \ {r} : run'[s] = run[s]
        /\ Advances(r) /\ PlaceOK(r)' /\ CauseOK(r)' /\ Alone'
        /\ run'[r].read = run[r].read /\ run'[r].found = run[r].found \union {c}
        /\ Undisturbed(r)' => Undisturbed(r)
        /\ UNCHANGED overlapped /\ disturbed \subseteq disturbed'
        /\ r \in disturbed' => r \in disturbed
        /\ \A s \in Runs \ {r} :
             UNCHANGED dbVars \/ (run[s].state \in {"runs", "done"} => s \in disturbed')
    <3>1. /\ run' \in [Runs -> RunsOn(S)]
          /\ \A s \in Runs \ {r} : run'[s] = run[s]
          /\ Advances(r) /\ PlaceOK(r)' /\ CauseOK(r)' /\ Alone'
          /\ run'[r].read = w.read /\ run'[r].hit = w.hit /\ run'[r].found = w.found
          /\ Undisturbed(r)' => Undisturbed(r)
          /\ UNCHANGED overlapped /\ disturbed \subseteq disturbed'
          /\ r \in disturbed' => r \in disturbed
          /\ \A s \in Runs \ {r} :
               UNCHANGED dbVars \/ (run[s].state \in {"runs", "done"} => s \in disturbed')
      BY <1>1, <2>4, <2>6, <2>7, GoesAdvances
    <3> QED
      BY <2>6, <3>1
  <2>9. SeedTypes'
    BY <1>1, <2>2, <2>3, <2>4, <2>8 DEF SeedTypes
  <2>10. c.parent = ParentIn(r, u)
    BY <2>3, <2>5
  <2>11. /\ FoundOK(r)' /\ SearchOK(r)' /\ StillFinds(r) /\ NumberOK(r)'
         /\ UNCHANGED <<live, deleted>> /\ RowsOK(r) => RowsOK(r)'
         /\ UNCHANGED seat /\ SeatsOK(r) => SeatsOK(r)'
         /\ UNCHANGED <<chosen, ballot>> /\ TallyOK(r) => TallyOK(r)'
         /\ UNCHANGED removed /\ UNCHANGED dressed /\ c \notin removed /\ HeldOK(r) => HeldOK(r)'
    BY <1>2, <2>3, <2>8, <2>10, WriteFound
  <2>12. c \notin removed
    BY <1>1, <2>3 DEF SeedTypes
  <2>13. Undisturbed(r)' => RowsOK(r)' /\ HeldOK(r)' /\ SeatsOK(r)' /\ TallyOK(r)'
    BY <2>4, <2>8, <2>11, <2>12 DEF SeedInv, RunOK
  <2>14. RunOK(r)'
    BY <2>8, <2>11, <2>13 DEF RunOK
  <2>15. \A t \in Unique : \A q : Alike(t, q) # {} => Matches(t, q)' \subseteq Matches(t, q)
    <3>1. SUFFICES ASSUME NEW t \in Unique, NEW q, Alike(t, q) # {}, NEW d \in Matches(t, q)'
                   PROVE  d \in Matches(t, q)
      OBVIOUS
    <3>2. d \in S /\ d \notin removed /\ d.thing = t /\ d.parent = q
      BY <2>4, <3>1 DEF Matches, Alike
    <3>3. d # c
      BY <2>3, <2>5, <3>1, <3>2
    <3> QED
      BY <2>2, <3>2, <3>3 DEF Matches, Alike
  <2>16. \A s \in Runs \ {r} : RunOK(s)'
    BY <1>1, <2>4, <2>8, <2>15, OthersKeep
  <2>17. OneOfEach'
    <3>1. SUFFICES ASSUME ~overlapped, NEW d \in S \ removed, NEW e \in S \ removed,
                          d.thing = e.thing, d.parent = e.parent
                   PROVE  d = e
      BY <2>4, <2>8 DEF OneOfEach
    <3>2. \A x \in copy \ removed : ~(x.thing = u /\ x.parent = p)
      BY <1>4, <1>6, <3>1 DEF Matches, Alike
    <3>3. CASE d = c \/ e = c
      BY <2>2, <2>3, <3>1, <3>2, <3>3
    <3>4. CASE d # c /\ e # c
      BY <2>2, <3>1, <3>4 DEF SeedInv, OneOfEach
    <3> QED
      BY <3>3, <3>4
  <2> QED
    BY <2>8, <2>9, <2>14, <2>16, <2>17 DEF SeedInv
<1>7. CASE run[r].hit = Nothing /\ taken /\ Throws(r)
  <2>1. r \in disturbed \/ (Alike(u, p) # {} /\ Matches(u, p) = {} /\ u \in Unique)
    BY <1>4, <1>7
  <2>2. \/ r \in disturbed
        \/ \E t \in Unique : Alike(t, ParentIn(r, t)) # {} /\ Matches(t, ParentIn(r, t)) = {}
    BY <2>1
  <2> QED
    BY <1>1, <1>7, <2>2, ThrowKeeps
<1> QED
  BY <1>5, <1>6, <1>7 DEF WriteCopy

------------------------------------------------------------------------------
(* The beginning, and what is not a statement of a run                     *)

LEMMA SameRun ==
  ASSUME SeedInv, NEW s \in Runs, run'[s] = run[s], UNCHANGED dbVars,
         s \in disturbed' <=> s \in disturbed,
         Running(s) /\ overlapped => overlapped'
  PROVE  RunOK(s)'
<1>1. RunOK(s)
  BY DEF SeedInv
<1>2. DoneBy(s)' = DoneBy(s)
  BY DEF DoneBy
<1>3. \A t : ParentIn(s, t)' = ParentIn(s, t)
  BY SameFound
<1>4. \A t, p : Alike(t, p)' = Alike(t, p) /\ Matches(t, p)' = Matches(t, p)
  BY DEF Alike, Matches, dbVars
<1>5. PlaceOK(s)'
  BY <1>1 DEF RunOK, PlaceOK
<1>6. FoundOK(s)'
  BY <1>1, <1>2, <1>3, <1>4 DEF RunOK, FoundOK
<1>7. NumberOK(s)'
  BY <1>1, <1>2 DEF RunOK, NumberOK
<1>8. SearchOK(s)'
  BY <1>1, <1>2, <1>3, <1>4 DEF RunOK, SearchOK, Running
<1>9. CauseOK(s)'
  BY <1>1, <1>3, <1>4 DEF RunOK, CauseOK
<1>10. Undisturbed(s)' => Undisturbed(s)
  BY DEF Undisturbed
<1> QED
  BY <1>1, <1>5, <1>6, <1>7, <1>8, <1>9, <1>10, SameHolds DEF RunOK

LEMMA IdleRun ==
  ASSUME NEW r \in Runs, run[r].state = "idle"
  PROVE  RunOK(r)
BY DEF RunOK, PlaceOK, FoundOK, NumberOK, SearchOK, CauseOK, Running, Undisturbed

LEMMA NoRunIs ==
  \A S : /\ NoRun \in RunsOn(S) /\ NoRun.state = "idle"
         /\ NoRun.found = {} /\ NoRun.hit = Nothing
BY DEF NoRun, RunsOn, Reads

LEMMA SeedStart ==
  ASSUME SeedAssumption, SeedInit
  PROVE  SeedInv
<1>1. run \in [Runs -> RunsOn(copy)] /\ \A r \in Runs : run[r].state = "idle"
  BY NoRunIs DEF SeedInit
<1>2. SeedTypes
  <2>1. IsFiniteSet(copy) /\ copy = {} /\ removed = {} /\ seat = {}
    BY FS_EmptySet DEF SeedInit
  <2> QED
    BY <1>1, <2>1 DEF SeedTypes
<1>3. Alone /\ OneOfEach
  BY <1>1 DEF SeedInit, Alone, OneOfEach, Running
<1> QED
  BY <1>1, <1>2, <1>3, IdleRun DEF SeedInv

LEMMA StartKeeps ==
  ASSUME SeedAssumption, SeedInv, NEW r \in Runs, NEW script \in DOMAIN Script, Start(r, script)
  PROVE  SeedInv'
<1> DEFINE p == script
           s == Script[p]
<1>1. p \in {"base", "demo"} /\ Chain(s, StepsOf(p), 1, 54)
  BY ScriptChain
<1>2. Len(s) \in Nat /\ Len(s) >= 1
  <2>1. /\ s \in Seq(StepsOf(p)) /\ Len(s) \in Nat /\ DOMAIN s = 1..Len(s)
        /\ \A e \in StepsOf(p) : \E i \in DOMAIN s : s[i] = e
    BY <1>1, LenProperties DEF Chain
  <2>2. \E e : e \in StepsOf(p)
    BY <1>1 DEF StepsOf, BaseSteps, DemoSteps
  <2> HIDE DEF s
  <2> QED
    BY <2>1, <2>2
<1>3. PICK z \in RunsOn(copy) :
        /\ run' = [run EXCEPT ![r] = z]
        /\ z.script = p /\ z.at = 1 /\ z.state = "runs" /\ z.found = {} /\ z.hit = Nothing
  <2>1. PICK k \in RunsOn(copy) : k = NoRun
    BY NoRunIs
  <2>2. PICK z : z = [k EXCEPT !.script = p, !.at = 1, !.state = "runs"]
    OBVIOUS
  <2>3. z \in RunsOn(copy)
    BY <1>1, <2>2 DEF RunsOn
  <2>4. /\ z.script = p /\ z.at = 1 /\ z.state = "runs" /\ z.found = k.found /\ z.hit = k.hit
    BY <2>2 DEF RunsOn
  <2>5. run' = [run EXCEPT ![r] = z]
    BY <2>1, <2>2 DEF Start
  <2> QED
    BY <2>1, <2>3, <2>4, <2>5, NoRunIs
<1>4. /\ run' \in [Runs -> RunsOn(copy)] /\ run'[r] = z
      /\ \A q \in Runs \ {r} : run'[q] = run[q]
  BY <1>3 DEF SeedInv, SeedTypes
<1>5. /\ UNCHANGED dbVars /\ disturbed' = disturbed \ {r}
      /\ overlapped' = (overlapped \/ \E q \in Runs : Running(q))
  BY DEF Start
<1>6. UNCHANGED <<live, deleted, copy, removed, dressed, seat, chosen, ballot>>
  BY <1>5 DEF dbVars
<1>7. SeedTypes'
  BY <1>4, <1>6 DEF SeedInv, SeedTypes
<1>8. Alone'
  <2>1. ~overlapped' => \A q \in Runs : Running(q)' => q = r
    BY <1>4, <1>5 DEF Running
  <2> QED
    BY <2>1 DEF Alone
<1>9. OneOfEach'
  BY <1>5, <1>6 DEF SeedInv, OneOfEach
<1>10. ASSUME NEW q \in Runs \ {r} PROVE RunOK(q)'
  BY <1>4, <1>5, SameRun
<1>11. DoneBy(r)' = {}
  <2>1. DoneBy(r)' = Prefix(s, 1)
    BY <1>3, <1>4 DEF DoneBy
  <2> QED
    BY <2>1 DEF Prefix
<1>12. PlaceOK(r)'
  <2>1. 1 \in 1..(Len(s) + 1) /\ 1 # Len(s) + 1
    BY <1>2
  <2> HIDE DEF s
  <2>2. /\ run'[r].script = p /\ run'[r].at = 1 /\ run'[r].state = "runs"
        /\ Script[run'[r].script] = s
    BY <1>3, <1>4 DEF s
  <2> QED
    BY <1>1, <2>1, <2>2 DEF PlaceOK
<1> HIDE DEF s, p
<1>13. FoundOK(r)' /\ NumberOK(r)' /\ SearchOK(r)' /\ CauseOK(r)'
  BY <1>3, <1>4, <1>11 DEF FoundOK, NumberOK, SearchOK, CauseOK
<1>14. RowsOK(r)' /\ HeldOK(r)' /\ SeatsOK(r)' /\ TallyOK(r)'
  BY <1>3, <1>4, <1>11 DEF RowsOK, HeldOK, SeatsOK, TallyOK
<1>15. RunOK(r)'
  BY <1>12, <1>13, <1>14 DEF RunOK
<1> QED
  BY <1>7, <1>8, <1>9, <1>10, <1>15 DEF SeedInv

LEMMA StopKeeps ==
  ASSUME SeedInv, NEW r \in Runs, Stop(r)
  PROVE  SeedInv'
<1>1. /\ run' \in [Runs -> RunsOn(copy)] /\ run'[r].state = "idle"
      /\ \A q \in Runs \ {r} : run'[q] = run[q]
  BY NoRunIs DEF Stop, SeedInv, SeedTypes
<1>2. UNCHANGED <<dbVars, disturbed, overlapped>>
  BY DEF Stop
<1>3. UNCHANGED <<live, deleted, copy, removed, dressed, seat, chosen, ballot>>
  BY <1>2 DEF dbVars
<1>4. SeedTypes' /\ OneOfEach'
  BY <1>1, <1>2, <1>3 DEF SeedInv, SeedTypes, OneOfEach
<1>5. \A q \in Runs : Running(q)' => Running(q)
  BY <1>1 DEF Running
<1>6. Alone'
  BY <1>2, <1>5 DEF SeedInv, Alone
<1>7. ASSUME NEW q \in Runs \ {r} PROVE RunOK(q)'
  BY <1>1, <1>2, SameRun
<1>8. RunOK(r)'
  BY <1>1 DEF RunOK, PlaceOK, FoundOK, NumberOK, SearchOK, CauseOK, Running, Undisturbed
<1> QED
  BY <1>4, <1>6, <1>7, <1>8 DEF SeedInv

LEMMA NothingKeeps ==
  ASSUME SeedInv, UNCHANGED seedVars
  PROVE  SeedInv'
<1>1. UNCHANGED <<dbVars, run, disturbed, overlapped>>
  BY DEF seedVars
<1>2. UNCHANGED <<live, deleted, copy, removed, dressed, seat, chosen, ballot>>
  BY <1>1 DEF dbVars
<1>3. SeedTypes' /\ OneOfEach' /\ Alone'
  BY <1>1, <1>2 DEF SeedInv, SeedTypes, OneOfEach, Alone, Running
<1>4. ASSUME NEW q \in Runs PROVE RunOK(q)'
  BY <1>1, SameRun
<1> QED
  BY <1>3, <1>4 DEF SeedInv

------------------------------------------------------------------------------
(* What users do disturbs every run under way or done: what it had done    *)
(* may be there no longer, but its place and what it has found stay, and   *)
(* no search finds more than before.                                       *)
LEMMA UsersKeep ==
  ASSUME SeedInv, Meanwhile, UNCHANGED copy,
         removed \subseteq removed', removed' \subseteq copy,
         \E b \in Nat : \A y \in seat' : y[3] \in 0..b
  PROVE  SeedInv'
<1>1. /\ UNCHANGED <<run, overlapped>> /\ disturbed \subseteq disturbed'
      /\ \A r \in Runs : run[r].state \in {"runs", "done"} => r \in disturbed'
  BY DEF Meanwhile
<1>2. SeedTypes'
  BY <1>1 DEF SeedInv, SeedTypes
<1>3. Alone' /\ OneOfEach'
  BY <1>1 DEF SeedInv, Alone, OneOfEach, Running
<1>4. \A t, p : Alike(t, p)' = Alike(t, p) /\ Matches(t, p)' \subseteq Matches(t, p)
  BY DEF Alike, Matches
<1>5. ASSUME NEW r \in Runs PROVE RunOK(r)'
  <2>1. RunOK(r) /\ run'[r] = run[r]
    BY <1>1 DEF SeedInv
  <2>2. DoneBy(r)' = DoneBy(r) /\ \A t : ParentIn(r, t)' = ParentIn(r, t)
    <3>1. DoneBy(r)' = DoneBy(r)
      BY <1>1 DEF DoneBy
    <3> QED
      BY <2>1, <3>1, SameFound
  <2>3. PlaceOK(r)' /\ NumberOK(r)'
    BY <2>1, <2>2 DEF RunOK, PlaceOK, NumberOK
  <2>4. FoundOK(r)'
    BY <1>4, <2>1, <2>2 DEF RunOK, FoundOK
  <2>5. ~Undisturbed(r)'
    BY <1>1, <2>1 DEF Undisturbed
  <2>6. SearchOK(r)'
    <3>1. SUFFICES ASSUME Running(r)', overlapped' => r \notin disturbed',
                          NEW t \in Things, FindOf(t) \in DoneBy(r)', WriteOf(t) \notin DoneBy(r)',
                          run'[r].hit = Nothing
                   PROVE  Matches(t, ParentIn(r, t))' = {}
      BY DEF SearchOK
    <3>2. Running(r) /\ (overlapped => r \notin disturbed)
      BY <1>1, <2>1, <3>1 DEF Running
    <3>3. PICK q : q = ParentIn(r, t) /\ q = ParentIn(r, t)'
      BY <2>2
    <3>4. Matches(t, q) = {}
      BY <2>1, <2>2, <3>1, <3>2, <3>3 DEF RunOK, SearchOK
    <3>5. Matches(t, q)' = {}
      BY <1>4, <3>4
    <3> QED
      BY <3>3, <3>5
  <2>7. CauseOK(r)'
    <3>1. SUFFICES ASSUME run[r].state = "failed", r \notin disturbed
                   PROVE  CauseOK(r)'
      BY <1>1, <2>1 DEF CauseOK
    <3>2. PICK t \in Unique : Alike(t, ParentIn(r, t)) # {} /\ Matches(t, ParentIn(r, t)) = {}
      BY <2>1, <3>1 DEF RunOK, CauseOK
    <3>3. PICK q : q = ParentIn(r, t) /\ q = ParentIn(r, t)'
      BY <2>2
    <3>4. Alike(t, q)' # {} /\ Matches(t, q)' = {}
      BY <1>4, <3>2, <3>3
    <3> QED
      BY <3>3, <3>4 DEF CauseOK
  <2> QED
    BY <2>3, <2>4, <2>5, <2>6, <2>7 DEF RunOK
<1> QED
  BY <1>2, <1>3, <1>5 DEF SeedInv

LEMMA InviteKeeps ==
  ASSUME SeedInv, NEW c, NEW g, Invite(c, g)
  PROVE  SeedInv'
<1>1. PICK b \in Nat : \A y \in seat : y[3] \in 0..b
  BY DEF SeedInv, SeedTypes
<1>2. PICK n \in Nat : n = HighestIn(c)
  BY HighestIs DEF SeedInv, SeedTypes
<1>3. PICK m \in Nat : m = b + n + 1
  OBVIOUS
<1>4. seat' = seat \union {<<c, g, n + 1>>}
  BY <1>2 DEF Invite
<1>5. \A y \in seat' : y[3] \in 0..m
  <2> SUFFICES ASSUME NEW y \in seat' PROVE y[3] \in 0..m
    OBVIOUS
  <2>1. CASE y \in seat
    BY <1>1, <1>3, <2>1
  <2>2. CASE y = <<c, g, n + 1>>
    BY <1>3, <2>2
  <2> QED
    BY <1>4, <2>1, <2>2
<1>6. UNCHANGED <<copy, removed>> /\ removed \subseteq copy /\ Meanwhile
  BY DEF Invite, SeedInv, SeedTypes
<1> QED
  BY <1>5, <1>6, UsersKeep

LEMMA UsersMeanwhileKeep ==
  ASSUME SeedInv, UsersMeanwhile
  PROVE  SeedInv'
<1>0. removed \subseteq copy /\ \E b \in Nat : \A y \in seat : y[3] \in 0..b
  BY DEF SeedInv, SeedTypes
<1>1. ASSUME NEW k, DeleteRow(k) \/ RevokeRow(k)
      PROVE  SeedInv'
  <2>1. UNCHANGED <<copy, removed, seat>> /\ Meanwhile
    BY <1>1 DEF DeleteRow, RevokeRow
  <2> QED
    BY <1>0, <2>1, UsersKeep
<1>2. ASSUME NEW c, DeleteCopy(c)
      PROVE  SeedInv'
  <2>1. UNCHANGED <<copy, seat>> /\ Meanwhile /\ removed' = removed \union {c} /\ c \in copy
    BY <1>2 DEF DeleteCopy
  <2> QED
    BY <1>0, <2>1, UsersKeep
<1>3. ASSUME NEW c, NEW v, NEW o, Vote(c, v, o)
      PROVE  SeedInv'
  <2>1. UNCHANGED <<copy, removed, seat>> /\ Meanwhile
    BY <1>3 DEF Vote
  <2> QED
    BY <1>0, <2>1, UsersKeep
<1> QED
  BY <1>1, <1>2, <1>3, InviteKeeps DEF UsersMeanwhile

------------------------------------------------------------------------------
(* What the invariant says of how runs end                                 *)

LEMMA NextKeeps ==
  ASSUME SeedAssumption, SeedInv, [SeedNext]_seedVars
  PROVE  SeedInv'
<1>1. CASE UNCHANGED seedVars
  BY <1>1, NothingKeeps
<1>2. CASE UsersMeanwhile
  BY <1>2, UsersMeanwhileKeep
<1>3. ASSUME NEW r \in Runs, NEW script \in DOMAIN Script, Start(r, script)
      PROVE  SeedInv'
  BY <1>3, StartKeeps
<1>4. ASSUME NEW r \in Runs, Stop(r)
      PROVE  SeedInv'
  BY <1>4, StopKeeps
<1>5. ASSUME NEW r \in Runs, SeedStep(r)
      PROVE  SeedInv'
  <2>1. CASE UpsertRow(r)
    BY <2>1, UpsertKeeps
  <2>2. CASE ReadPermissions(r)
    BY <2>2, ReadKeeps
  <2>3. CASE WipeGrants(r)
    BY <2>3, WipeKeeps
  <2>4. CASE FillGrants(r)
    BY <2>4, FillKeeps
  <2>5. CASE FindCopy(r)
    BY <2>5, FindKeeps
  <2>6. CASE WriteCopy(r)
    BY <2>6, WriteKeeps
  <2>7. CASE DressCopy(r)
    BY <2>7, DressKeeps
  <2>8. CASE ReadHighest(r)
    BY <2>8, HighestKeeps
  <2>9. CASE SeatGuest(r)
    BY <2>9, SeatKeeps
  <2>10. CASE ResetCounts(r)
    BY <2>10, ResetKeeps
  <2>11. CASE SetBallot(r)
    BY <2>11, BallotKeeps
  <2>12. CASE CountBallots(r)
    BY <2>12, CountKeeps
  <2>13. CASE WriteCount(r)
    BY <2>13, TallyKeeps
  <2> QED
    BY <1>5, <2>1, <2>2, <2>3, <2>4, <2>5, <2>6, <2>7, <2>8, <2>9, <2>10, <2>11, <2>12, <2>13
    DEF SeedStep
<1> QED
  BY <1>1, <1>2, <1>3, <1>4, <1>5 DEF SeedNext

LEMMA StatementsAre ==
  ASSUME SeedAssumption, NEW p \in {"base", "demo"}
  PROVE  Statements(p) = StepsOf(p)
<1> DEFINE s == Script[p]
<1>1. Chain(s, StepsOf(p), 1, 54)
  BY ScriptChain
<1>2. /\ \A i \in DOMAIN s : s[i] \in StepsOf(p)
      /\ \A e \in StepsOf(p) : \E i \in DOMAIN s : s[i] = e
  BY <1>1, ElementOfSeq, LenProperties DEF Chain
<1> HIDE DEF s
<1>3. {s[i] : i \in DOMAIN s} = StepsOf(p)
  BY <1>2
<1> QED
  BY <1>3 DEF Statements, s

LEMMA WellDone ==
  ASSUME SeedAssumption, SeedInv, NEW r \in Runs, run[r].state = "done", r \notin disturbed
  PROVE  /\ RowsThere(run[r].script)
         /\ run[r].script = "demo" =>
              /\ CopiesThere(run[r].found)
              /\ PollThere(Found(r, "poll")) /\ EventThere(Found(r, "event"))
<1> DEFINE p == run[r].script
<1>1. /\ PlaceOK(r) /\ FoundOK(r) /\ RowsOK(r) /\ HeldOK(r) /\ SeatsOK(r) /\ TallyOK(r)
      /\ run[r].found \subseteq copy /\ \A c \in copy : c.thing \in Things
  <2>1. run[r] \in RunsOn(copy) /\ \A c \in copy : c.thing \in Things
    BY DEF SeedInv, SeedTypes
  <2>2. Undisturbed(r)
    BY DEF Undisturbed
  <2> QED
    BY <2>1, <2>2 DEF SeedInv, RunOK, RunsOn
<1>2. p \in {"base", "demo"} /\ DoneBy(r) = StepsOf(p)
  BY <1>1, DoneFacts
<1>3. Statements(p) = DoneBy(r)
  BY <1>2, StatementsAre
<1>4. RowsThere(p)
  <2>1. ASSUME NEW e \in UpsertsIn(p)
        PROVE  e.key \in IF e.restore THEN live ELSE live \union deleted
    <3>1. e \in DoneBy(r) /\ e.op = "upsert"
      BY <1>3 DEF UpsertsIn
    <3>2. e.restore \in BOOLEAN
      BY <1>2, <3>1, UpsertKeys
    <3> QED
      BY <1>1, <3>1, <3>2 DEF RowsOK
  <2>2. ASSUME NEW e \in FillsIn(p), NEW c \in AllCodes,
               IF e.all THEN Code(c) \in live ELSE c \in e.codes
        PROVE  Grant(e.role, c) \in live
    <3>1. e \in DoneBy(r) /\ e.op = "fill"
      BY <1>3 DEF FillsIn
    <3>2. \/ e = FillReadOf("super_admin")
          \/ \E n \in SeedRoles, C \in SUBSET AllCodes : e = FillOf(n, C)
      <4>1. e \in {FillReadOf("super_admin"), FillOf("owner", Codes), FillOf("teacher", Codes),
                   FillOf("owner", AllCodes)}
        BY <1>2, <3>1, OtherOps
      <4> QED
        BY <4>1 DEF SeedRoles, AllCodes
    <3>3. CASE e = FillReadOf("super_admin")
      <4>1. e.all = TRUE /\ e.role = "super_admin"
        BY <3>3 DEF FillReadOf
      <4>2. Code(c) \in live
        BY <2>2, <4>1
      <4> QED
        BY <1>1, <3>1, <3>3, <4>1, <4>2 DEF RowsOK
    <3>4. CASE \E n \in SeedRoles, C \in SUBSET AllCodes : e = FillOf(n, C)
      <4>1. PICK n \in SeedRoles, C \in SUBSET AllCodes : e = FillOf(n, C)
        BY <3>4
      <4>2. e.all = FALSE /\ e.role = n /\ e.codes = C
        BY <4>1 DEF FillOf
      <4>3. c \in C
        BY <2>2, <4>2
      <4> QED
        BY <1>1, <3>1, <4>1, <4>2, <4>3 DEF RowsOK
    <3> QED
      BY <3>2, <3>3, <3>4
  <2> QED
    BY <2>1, <2>2 DEF RowsThere
<1>5. ASSUME p = "demo"
      PROVE  /\ CopiesThere(run[r].found)
             /\ PollThere(Found(r, "poll")) /\ EventThere(Found(r, "event"))
  <2>1. /\ \A t \in Things : WriteOf(t) \in DoneBy(r)
        /\ \A t \in Dressed : DressOf(t) \in DoneBy(r)
        /\ \A g \in Invited : EachOf("seat", g) \in DoneBy(r)
        /\ \A o \in Options : EachOf("tally", o) \in DoneBy(r)
        /\ DoOf("count") \in DoneBy(r)
    BY <1>2, <1>5 DEF StepsOf, DemoSteps
  <2>2. {c.thing : c \in run[r].found} = Things
    <3>1. \A c \in run[r].found : c.thing \in Things
      BY <1>1
    <3>2. \A t \in Things : \E c \in run[r].found : c.thing = t
      BY <1>1, <2>1 DEF FoundOK
    <3> QED
      BY <3>1, <3>2
  <2>3. /\ run[r].found \intersect removed = {}
        /\ \A c \in run[r].found : c.thing \in DOMAIN ParentOf => c.parent \in run[r].found
    BY <1>1 DEF HeldOK, FoundOK
  <2>4. ASSUME NEW c \in run[r].found, c.thing \in {"faculty", "room", "topic", "task", "notice"}
        PROVE  c \in dressed
    <3>1. c.thing \in Dressed
      BY <2>4 DEF Dressed
    <3>2. Found(r, c.thing) \in dressed
      BY <1>1, <2>1, <3>1 DEF HeldOK
    <3>3. Found(r, c.thing) = c
      BY <1>1, FoundIs
    <3> QED
      BY <3>2, <3>3
  <2>5. CopiesThere(run[r].found)
    BY <2>2, <2>3, <2>4 DEF CopiesThere
  <2>6. PollThere(Found(r, "poll"))
    BY <1>1, <2>1 DEF TallyOK, PollThere
  <2>7. EventThere(Found(r, "event"))
    BY <1>1, <2>1 DEF SeatsOK, EventThere
  <2> QED
    BY <2>5, <2>6, <2>7
<1> QED
  BY <1>4, <1>5

LEMMA NoneOrOne ==
  ASSUME NEW S, \A c, d \in S : c = d
  PROVE  Cardinality(S) <= 1
<1>1. CASE S = {}
  BY <1>1, FS_EmptySet
<1>2. CASE S # {}
  <2>1. PICK c : S = {c}
    BY <1>2
  <2>2. Cardinality({c}) = 1
    BY FS_Singleton
  <2> QED
    BY <2>1, <2>2
<1> QED
  BY <1>1, <1>2

------------------------------------------------------------------------------
(* The results                                                             *)

(* Whatever seeds are started, stopped or run side by side, and whatever   *)
(* users do meanwhile, every run is where its script says, has found one   *)
(* copy of each thing it has written, and finds standing what it did unless *)
(* someone else wrote (seed.ts and seed_data.ts).                          *)
THEOREM SeedInvariance == SeedSpec => []SeedInv
<1>1. SeedInit => SeedInv
  BY SeedAssumption, SeedStart
<1>2. SeedInv /\ [SeedNext]_seedVars => SeedInv'
  BY SeedAssumption, NextKeeps
<1> QED
  BY <1>1, <1>2, PTL DEF SeedSpec

(* A run that ends well and is not written over has made everything its    *)
(* script names, whatever earlier runs left; one that throws had its rows  *)
(* changed under it, or met a deleted unit whose name is still taken       *)
(* (main of seed.ts and of seed_data.ts).                                  *)
THEOREM SeedsEndWell == SeedSpec => []EndsWell
<1>1. SeedInv => SeededWhenDone
  <2> SUFFICES ASSUME SeedInv, NEW r \in Runs, run[r].state = "done", r \notin disturbed
               PROVE  /\ RowsThere(run[r].script)
                      /\ run[r].script = "demo" =>
                           /\ CopiesThere(run[r].found)
                           /\ PollThere(Found(r, "poll")) /\ EventThere(Found(r, "event"))
    BY DEF SeededWhenDone
  <2> QED
    BY SeedAssumption, WellDone
<1>2. SeedInv => FailsForCause
  <2> SUFFICES ASSUME SeedInv, NEW r \in Runs, run[r].state = "failed", r \notin disturbed
               PROVE  \E t \in Unique : Alike(t, ParentIn(r, t)) # {} /\ Matches(t, ParentIn(r, t)) = {}
    BY DEF FailsForCause
  <2> QED
    BY DEF SeedInv, RunOK, CauseOK
<1>3. SeedInv => EndsWell
  BY <1>1, <1>2 DEF EndsWell
<1> QED
  BY <1>3, SeedInvariance, PTL

(* Things without a unique key, which are searched for and then written,   *)
(* are not made twice unless two seeds were under way    *)
(* together (the findFirst and create pairs of seed_data.ts).              *)
THEOREM SeedsMakeOneOfEach == SeedSpec => []OneOfEachUnlessOverlapped
<1>1. SeedInv => OneOfEachUnlessOverlapped
  <2> SUFFICES ASSUME SeedInv, ~overlapped, NEW t \in Things, NEW p \in copy \union {Nothing}
               PROVE  Cardinality(Matches(t, p)) <= 1
    BY DEF OneOfEachUnlessOverlapped
  <2>1. \A c, d \in Matches(t, p) : c = d
    BY DEF SeedInv, OneOfEach, Matches, Alike
  <2> QED
    BY <2>1, NoneOrOne
<1> QED
  BY <1>1, SeedInvariance, PTL
===============================================================================
