------------------------ MODULE MCAuthorityProvenance ------------------------
(***************************************************************************)
(* Three records: the one a lease names, one that may stand above it, and a *)
(* third that closes longer chains and cycles.  The grants differ in each  *)
(* field the walk compares.                                                *)
(***************************************************************************)
EXTENDS AuthorityProvenance

CONSTANTS p1, p2, p3, agent, owner, root, x, y

MCProvIds == {p1, p2, p3}
MCActors == {agent, owner, root}
MCActions == {x, y}
MCTrustedRoots == {root}

Grant(subject, issuer, scope, parent) ==
  [subject |-> subject, issuer |-> issuer, scope |-> scope, epoch |-> 1,
   issued_at |-> 0, revoked_at |-> NONE, parent |-> parent]

\* The record named by the leases: a sound grant for each parent, and one flaw
\* at a time.
First ==
  {Grant(agent, owner, s, p) : s \in {{x}, {x, y}}, p \in {NONE, p1, p2}}
    \cup {Grant(agent, root, {x}, p) : p \in {NONE, p2}}
    \cup {Grant(owner, owner, {x}, p2),
          Grant(agent, owner, {y}, p2),
          [Grant(agent, owner, {x}, p2) EXCEPT !.epoch = 0],
          [Grant(agent, owner, {x}, p2) EXCEPT !.issued_at = 2],
          [Grant(agent, owner, {x}, p2) EXCEPT !.revoked_at = 1],
          [Grant(agent, owner, {x}, p2) EXCEPT !.revoked_at = 2],
          NONE}
Second ==
  {Grant(owner, i, {x}, p) : i \in {owner, root}, p \in {NONE, p1, p3}}
    \cup {Grant(s, root, {x, y}, NONE) : s \in {agent, owner}}
    \cup {[Grant(owner, root, {x}, NONE) EXCEPT !.issued_at = 2],
          [Grant(owner, root, {x}, NONE) EXCEPT !.revoked_at = 1],
          [Grant(owner, owner, {x}, p3) EXCEPT !.revoked_at = 0],
          NONE}
Third ==
  {Grant(owner, i, s, p) : i \in {owner, root}, s \in {{x}, {y}},
                           p \in {NONE, p2}}
    \cup {NONE}

MCStores ==
  {[id \in MCProvIds |-> IF id = p1 THEN a ELSE IF id = p2 THEN b ELSE c] :
     a \in First, b \in Second, c \in Third}

MCLease(issuer, provenance) ==
  [agent |-> agent, issuer |-> issuer, scope |-> {x}, epoch |-> 1,
   provenance |-> provenance]
MCLeases == {MCLease(owner, p1), MCLease(root, p1), MCLease(owner, NONE)}
MCInstants == {1}
MCRevocationInstants == {1, 2}
=============================================================================
