--------------------------- MODULE MCOrganisation ---------------------------
(* An organisation of a champion and one more, before and after its billing. *)
EXTENDS Organisation

CONSTANTS p1, p2, champ, other

Row(status, role) == [status |-> status, role |-> role]

MCFirsts ==
    {[rows |-> [x \in Members |-> IF x = champ THEN Row("active", "org_admin") ELSE Nobody],
      bill |-> [done |-> FALSE, sub |-> 0, qty |-> 0]],
     [rows |-> [x \in Members |-> IF x = champ THEN Row("active", "org_admin")
                                  ELSE Row("active", "org_member")],
      bill |-> [done |-> TRUE, sub |-> 1, qty |-> 2]]}
=============================================================================
