-------------------------------- MODULE MCPin --------------------------------
(* Pin for TLC: the first two connections share an address.                *)
EXTENDS Pin

TwoAddresses == [c \in Client |-> IF c <= 2 THEN "here" ELSE "there"]

LimitOfOne == [k \in Code |-> 1]
=============================================================================
