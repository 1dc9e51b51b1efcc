----------------------- MODULE MCEnvironmentVariables -----------------------
(* Others write the first name under either key; the second has no value   *)
(* in the registry or one under the first key.  Texts of one and two       *)
(* references, with and without a plain character.                         *)
EXTENDS EnvironmentVariables

MCRegistries ==
    {[k \in Keys |-> [n \in Names |-> IF k = 1 /\ n = 2 THEN d ELSE Absent]] : d \in {Absent, 2}}

MCPlaces == {<<1, 1>>, <<2, 1>>}
MCSources == {<<1, 0>>, <<1, 2>>}
=============================================================================
