--------------------------- MODULE MCAuthHandlers ----------------------------
(***************************************************************************)
(* One run of AuthSessions over several scenarios: each chooses operations *)
(* that meet and how many users, sessions and passwords they use.          *)
(***************************************************************************)
EXTENDS MCAuthSessions, Naturals

CONSTANT Password  \* the password of users outside the scenario

VARIABLE scenario

Scenario(ops, users, sids, passwords) ==
  [ops : {ops}, users : {U \in SUBSET Users : Cardinality(U) = users},
   sids : {sids}, passwords : {passwords}]

Scenarios ==
  Scenario(RotationOps, 2, 2, {Password})
    \union Scenario(SessionOps, 1, 2, {Password})
    \union Scenario(AccountLifeOps, 1, 2, {Password})
    \union Scenario(RotationOps, 1, 3, {Password})
    \union Scenario(PasswordOps, 1, 2, Passwords \ Temps)
    \union Scenario(PasswordResetOps, 1, 1, Temps \union {Password})

MCInit ==
  /\ Init
  /\ scenario \in Scenarios
  /\ \A u \in Users : account[u].hash \in
       IF u \in scenario.users THEN scenario.passwords ELSE {Password}

Within(h) ==
  h # Idle => /\ h.op \in scenario.ops
              /\ h.user \in scenario.users \union {None}
              /\ {h.pw, h.new} \subseteq scenario.passwords \union {None}

MCNext ==
  /\ Next
  /\ \A r \in Reqs : Within(req'[r])
  /\ Cardinality({s \in Sids : session'[s].status # "free"}) <= scenario.sids
  /\ UNCHANGED scenario

MCSpec == MCInit /\ [][MCNext]_<<vars, scenario>>
==============================================================================
