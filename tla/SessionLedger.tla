---------------------------- MODULE SessionLedger ----------------------------
(***************************************************************************)
(* What the refresh-session table promises, whatever requests run.  The    *)
(* table is a ledger: a session is granted once, belongs to one user for   *)
(* good, is retired once and never comes back; a session granted in        *)
(* exchange for another one (its parent) is granted to the same user, and  *)
(* only when the parent has been retired.  AuthSessions implements this    *)
(* specification.                                                          *)
(***************************************************************************)
EXTENDS FiniteSets

CONSTANTS
  Users,      \* user ids
  Sids,       \* refresh-session ids
  None        \* the empty column, no user and no session

VARIABLE ledger

FreeEntry == [phase |-> "free", user |-> None, parent |-> None]

LedgerInit == ledger = [s \in Sids |-> FreeEntry]

(* A session appears: by a login (no parent), or in exchange for a retired *)
(* session of the same user.                                               *)
Grant(s, u, p) ==
  /\ ledger[s] = FreeEntry
  /\ p # None => /\ ledger[p].phase = "revoked"
                 /\ ledger[p].user = u
  /\ ledger' = [ledger EXCEPT ![s] = [phase |-> "live", user |-> u, parent |-> p]]

(* Some live sessions are retired together.                                *)
Retire(S) ==
  /\ \A s \in S : ledger[s].phase = "live"
  /\ ledger' = [s \in Sids |-> IF s \in S THEN [ledger[s] EXCEPT !.phase = "revoked"]
                                          ELSE ledger[s]]

LedgerNext ==
  \/ \E s \in Sids, u \in Users, p \in Sids \union {None} : Grant(s, u, p)
  \/ \E S \in SUBSET Sids : Retire(S)

LedgerSpec == LedgerInit /\ [][LedgerNext]_ledger
==============================================================================
