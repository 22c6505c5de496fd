-------------------------- MODULE MCBrowserSession ---------------------------
(***************************************************************************)
(* Instances of BrowserSession for TLC.                                    *)
(***************************************************************************)
EXTENDS BrowserSession, Naturals, TLC

Symmetry == Permutations(Users) \union Permutations(Tabs) \union Permutations(Calls)
            \union Permutations(Slots) \union Permutations(Sids)

Untouched(t) == /\ page[t] = "login" /\ user[t] = None
                /\ \A x \in Slots : exchange[x].tab # t

(* Three exchanges in flight at once only while a single tab is in use.    *)
Narrow == \/ Cardinality({x \in Slots : InFlight(x)}) <= 2
          \/ \E t \in Tabs : \A v \in Tabs \ {t} : Untouched(v)

MCNext == Next /\ Narrow'

MCSpec == Init /\ [][MCNext]_vars
==============================================================================
