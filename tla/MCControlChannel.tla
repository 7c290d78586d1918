--------------------------- MODULE MCControlChannel ---------------------------
(* An instance of ControlChannel for TLC: the instructions and their keys.   *)
EXTENDS ControlChannel

CONSTANTS o1, o2, u1, d1, r1, p1, k1, k2, k3, m1,  \* instructions
          lk, pk, lk2, lk3, sk                     \* key ids

MCOp == [i \in Iid |->
    CASE i \in {o1, o2} -> "offer" [] i = u1 -> "unoffer" [] i = d1 -> "describe"
      [] i = r1 -> "revoke" [] i = p1 -> "prepare"
      [] i = m1 -> "minimum_version" [] OTHER -> "key_rotation"]
\* k2 is signed by the key that k1 adds; k3 names a permission key.
MCSigner == [i \in Iid |-> IF i \in {r1, p1} THEN pk ELSE IF i = k2 THEN lk2 ELSE lk]
MCKeys   == [i \in Iid |-> IF i = k1 THEN {lk2} ELSE IF i = k2 THEN {lk3}
                         ELSE IF i = k3 THEN {pk} ELSE {}]
MCPaired == [c \in Classes |-> IF c = "listing" THEN {lk} ELSE IF c = "permission" THEN {pk} ELSE {}]
=============================================================================
