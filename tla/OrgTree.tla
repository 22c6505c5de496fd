------------------------------ MODULE OrgTree --------------------------------
(***************************************************************************)
(* The organisation tree and its tags (org-units.service.ts): units with   *)
(* parents, created, moved, renamed and soft-deleted by requests whose     *)
(* statements interleave, since nothing runs in a transaction.             *)
(*                                                                         *)
(* Two unit rows with one parent and one name cannot exist, deleted ones   *)
(* included, unless they are at the top: NULLs are distinct to the unique  *)
(* key (parentId, name).  Descriptions are left out.  Operations on tags   *)
(* are single steps: their checks are repeated by the unique keys, or are  *)
(* about rows that are never removed, so that statements in between        *)
(* change nothing.                                                         *)
(***************************************************************************)
EXTENDS People, FiniteSets, Naturals

CONSTANTS
  Units,    \* ids of units
  Names,    \* names of units
  Tags,     \* tags; Tag.name is unique, so a tag is its name
  OrgReqs,  \* handlers of requests on units in flight: bounds the interleavings
  Top,      \* parentId null
  Same      \* a field the request does not give: undefined

ASSUME OrgAssumption ==
  /\ IsFiniteSet(Units)
  /\ Top \notin Units /\ Same \notin Units \union Names \union {Top}

VARIABLES
  unit,     \* unit[n]: the OrgUnit row, or NoUnit
  tag,      \* tag[t]: whether there is a Tag row and deletedAt is null
  tagged,   \* rows of OrgUnitTag
  unitReq,  \* unitReq[h]: the request on units handler h works on
  looped,   \* history: a unit was put below itself
  raced     \* history: a unit was written after other units changed
            \* under the request, or under a parent it did not look at

unitVars == <<unit, unitReq, looped, raced>>
tagVars == <<tag, tagged>>
treeVars == <<unitVars, tagVars>>

NoUnit == [parent |-> Top, name |-> Same, live |-> FALSE]

UnitRows == [parent : Units \union {Top}, name : Names, live : BOOLEAN]

HasRow(n) == unit[n] # NoUnit

LiveUnits == {n \in Units : unit[n].live}

(* parent, name: what the request gives; under: the parent whose units the *)
(* name was compared with; stale: units changed since.                     *)
NoUnitReq == [op |-> "none", at |-> "idle", id |-> Top, parent |-> Same,
              name |-> Same, under |-> Same, stale |-> FALSE]

UnitReqs ==
  [op : {"none", "create", "update", "delete"},
   at : {"idle", "parent", "current", "names", "write"}, id : Units \union {Top},
   parent : Units \union {Top, Same}, name : Names \union {Same},
   under : Units \union {Top, Same}, stale : BOOLEAN]

OnUnit(h, op, step) == unitReq[h].op = op /\ unitReq[h].at = step

(* What every request in flight does not know once the units change.       *)
Returned(h) == [unitReq EXCEPT ![h] = NoUnitReq]
Unaware(reqs) == [h \in OrgReqs |-> IF reqs[h] = NoUnitReq THEN NoUnitReq
                                    ELSE [reqs[h] EXCEPT !.stale = TRUE]]

------------------------------------------------------------------------------
(* The tree *)

Children(S) == {n \in LiveUnits : unit[n].parent \in S}

(* S and all the live units under it.                                      *)
Below(S) ==
  LET f[i \in 0..Cardinality(Units)] ==
        IF i = 0 THEN S ELSE f[i - 1] \union Children(f[i - 1])
  IN f[Cardinality(Units)]

InLoop(n) == n \in Below(Children({n}))

(* getOrgUnitTree: a unit hangs under its parent when that one is live,    *)
(* and is a root otherwise; what hangs under no root is not in the answer. *)
TreeRoots == {n \in LiveUnits : unit[n].parent \notin LiveUnits}

TreeShown == Below(TreeRoots)

------------------------------------------------------------------------------
(* Requests on units *)

(* Bound of the instance: no more creations in flight than ids left.       *)
IdsLeft ==
  Cardinality({n \in Units : ~HasRow(n)}) > Cardinality({h \in OrgReqs : unitReq[h].op = "create"})

AskCreate(h) ==
  /\ unitReq[h] = NoUnitReq /\ IdsLeft
  /\ \E parent \in LiveUnits \union {Top}, name \in Names :
       unitReq' = [unitReq EXCEPT ![h] =
                     [op |-> "create", at |-> "names", id |-> Top, parent |-> parent,
                      name |-> name, under |-> parent, stale |-> FALSE]]
  /\ UNCHANGED <<unit, looped, raced, tagVars>>

(* updateOrgUnit and deleteOrgUnit look at the unit first; a parent that   *)
(* is given is looked at next, null and undefined are not.                 *)
AskUpdate(h) ==
  /\ unitReq[h] = NoUnitReq
  /\ \E n \in LiveUnits, parent \in Units \union {Top, Same}, name \in Names \union {Same} :
       unitReq' = [unitReq EXCEPT ![h] =
                     [op |-> "update", id |-> n, parent |-> parent, name |-> name,
                      at |-> IF parent \in Units THEN "parent"
                             ELSE IF name = Same THEN "write" ELSE "current",
                      under |-> Same, stale |-> FALSE]]
  /\ UNCHANGED <<unit, looped, raced, tagVars>>

AskDelete(h) ==
  /\ unitReq[h] = NoUnitReq
  /\ \E n \in Units :
       unitReq' = IF n \notin LiveUnits THEN unitReq
                  ELSE [unitReq EXCEPT ![h] = [NoUnitReq EXCEPT !.op = "delete",
                                                                !.at = "write", !.id = n]]
  /\ UNCHANGED <<unit, looped, raced, tagVars>>

AssertParent(h) ==
  /\ OnUnit(h, "update", "parent")
  /\ unitReq' = IF unitReq[h].parent \notin LiveUnits THEN Returned(h)
                ELSE [unitReq EXCEPT ![h].at = IF unitReq[h].name = Same
                                               THEN "write" ELSE "current"]
  /\ UNCHANGED <<unit, looped, raced, tagVars>>

(* data.parentId ?? current.parentId: null counts as not given here.       *)
ReadCurrent(h) ==
  LET q == unitReq[h] IN
  /\ OnUnit(h, "update", "current")
  /\ unitReq' = [unitReq EXCEPT ![h].at = "names",
                   ![h].under = IF q.parent \in Units THEN q.parent ELSE unit[q.id].parent]
  /\ UNCHANGED <<unit, looped, raced, tagVars>>

NameTaken(q) ==
  \E n \in LiveUnits \ {q.id} : unit[n].parent = q.under /\ unit[n].name = q.name

FindName(h) ==
  /\ unitReq[h].at = "names"
  /\ unitReq' = IF NameTaken(unitReq[h]) THEN Returned(h)
                ELSE [unitReq EXCEPT ![h].at = "write", ![h].stale = FALSE]
  /\ UNCHANGED <<unit, looped, raced, tagVars>>

(* The unique key of the table, which knows nothing of null parents.       *)
KeyFree(id, row) ==
  row.parent # Top =>
    ~\E n \in Units \ {id} : HasRow(n) /\ unit[n].parent = row.parent /\ unit[n].name = row.name

Store(h, id, row) ==
  /\ unit' = [unit EXCEPT ![id] = row]
  /\ unitReq' = Unaware(Returned(h))

CreateOrgUnit(h) ==
  LET q == unitReq[h]
      row == [parent |-> q.parent, name |-> q.name, live |-> TRUE]
  IN
  /\ OnUnit(h, "create", "write")
  /\ IF ~KeyFree(Top, row)
     THEN unitReq' = Returned(h) /\ UNCHANGED <<unit, raced>>
     ELSE /\ \E n \in Units : ~HasRow(n) /\ Store(h, n, row)
          /\ raced' = (raced \/ q.stale)
  /\ UNCHANGED <<looped, tagVars>>

Given(asked, stored) == IF asked = Same THEN stored ELSE asked

(* By primary key, deleted or not; whether the unit ends up below itself   *)
(* is not asked.                                                           *)
UpdateOrgUnit(h) ==
  LET q == unitReq[h]
      row == [parent |-> Given(q.parent, unit[q.id].parent),
              name |-> Given(q.name, unit[q.id].name), live |-> unit[q.id].live]
  IN
  /\ OnUnit(h, "update", "write")
  /\ IF ~KeyFree(q.id, row)
     THEN unitReq' = Returned(h) /\ UNCHANGED <<unit, raced, looped>>
     ELSE /\ Store(h, q.id, row)
          /\ raced' = (raced \/ (row # unit[q.id] /\ (q.stale \/ row.parent # q.under)))
          /\ looped' = (looped \/ row.parent \in Below({q.id}))
  /\ UNCHANGED tagVars

DeleteOrgUnit(h) ==
  /\ OnUnit(h, "delete", "write")
  /\ Store(h, unitReq[h].id, [unit[unitReq[h].id] EXCEPT !.live = FALSE])
  /\ UNCHANGED <<looped, raced, tagVars>>

UnitStep(h) ==
  \/ AskCreate(h) \/ AskUpdate(h) \/ AskDelete(h)
  \/ AssertParent(h) \/ ReadCurrent(h) \/ FindName(h)
  \/ CreateOrgUnit(h) \/ UpdateOrgUnit(h) \/ DeleteOrgUnit(h)

------------------------------------------------------------------------------
(* Tags *)

LiveTags == {t \in Tags : tag[t] = "live"}

(* A deleted tag of that name comes back, with the units it had.           *)
CreateTag(t) ==
  /\ t \notin LiveTags
  /\ tag' = [tag EXCEPT ![t] = "live"]
  /\ UNCHANGED <<tagged, unitVars>>

DeleteTag(t) ==
  /\ t \in LiveTags
  /\ tag' = [tag EXCEPT ![t] = "deleted"]
  /\ UNCHANGED <<tagged, unitVars>>

(* assignTagsToOrgUnit takes several tags, all live, addTagToOrgUnit one.  *)
AssignTags(n, S) ==
  /\ n \in LiveUnits /\ S \subseteq LiveTags
  /\ tagged' = tagged \union ({n} \X S)
  /\ UNCHANGED <<tag, unitVars>>

RemoveTag(n, t) ==
  /\ n \in LiveUnits
  /\ tagged' = tagged \ {<<n, t>>}
  /\ UNCHANGED <<tag, unitVars>>

TagStep ==
  \/ \E t \in Tags : CreateTag(t) \/ DeleteTag(t)
  \/ \E n \in Units, S \in (SUBSET Tags) \ {{}} : AssignTags(n, S)
  \/ \E n \in Units, t \in Tags : RemoveTag(n, t)

------------------------------------------------------------------------------
TreeInit ==
  /\ unit = [n \in Units |-> NoUnit]
  /\ unitReq = [h \in OrgReqs |-> NoUnitReq]
  /\ looped = FALSE /\ raced = FALSE
  /\ tag = [t \in Tags |-> "none"] /\ tagged = {}

TreeNext == (\E h \in OrgReqs : UnitStep(h)) \/ TagStep

TreeSpec == TreeInit /\ [][TreeNext]_treeVars
------------------------------------------------------------------------------
(* Properties *)

(* Types of the rows of units and tags and of the requests.                *)
TreeTypeOK ==
  /\ unit \in [Units -> UnitRows \union {NoUnit}]
  /\ unitReq \in [OrgReqs -> UnitReqs]
  /\ looped \in BOOLEAN /\ raced \in BOOLEAN
  /\ tag \in [Tags -> {"none", "live", "deleted"}]
  /\ tagged \subseteq Units \X Tags

(* The rule of createOrgUnit and updateOrgUnit: no two units of one parent *)
(* have one name.  It is broken at the top only, where the unique key does *)
(* not help, by a request that raced another, or that moved a unit under a *)
(* parent whose units it had not compared (a null parent is compared with  *)
(* the units of the old one).                                              *)
SiblingNamesUnlessRaced ==
  \A m, n \in LiveUnits :
    (m # n /\ unit[m].parent = unit[n].parent /\ unit[m].name = unit[n].name)
      => raced /\ unit[m].parent = Top

(* The tree that getOrgUnitTree answers with has every live unit, those    *)
(* whose parents were deleted included, unless one was put below itself.   *)
AllShownUnlessLooped == ~looped => TreeShown = LiveUnits

(* What the tree must be: names tell siblings apart, and all are shown.    *)
TreeSound == SiblingNamesUnlessRaced /\ AllShownUnlessLooped
==============================================================================
