------------------------------ MODULE MCSchema ------------------------------
(* Instances of Schema for TLC. *)
EXTENDS SchemaInv, TLC

CONSTANTS s1, s2, s3, s4, s5, e1, e2, c1, c2

(* Five specification files.  The enumeration of s1 ends with an other      *)
(* element; s2 declares the CFD c1 again, with an enumeration of its own;   *)
(* s3 declares the enumeration e1 again; s4 has no enumeration, and c1; s5  *)
(* is s1 without c2.                                                        *)
MCSpecEnums == s1 :> <<e1>> @@ s2 :> <<e2>> @@ s3 :> <<e1>> @@ s4 :> <<>> @@ s5 :> <<e1>>
MCSpecCfds  == s1 :> <<c1, c2>> @@ s2 :> <<c1>> @@ s3 :> <<c2>> @@ s4 :> <<c1>> @@ s5 :> <<c1>>
MCElems  == [s \in {s1, s2, s3, s4, s5} |->
                (e1 :> IF s \in {s1, s5} THEN <<FALSE, TRUE>> ELSE <<FALSE>>) @@ e2 :> <<FALSE>>]
MCFields == s1 :> (c1 :> <<None, e1>> @@ c2 :> <<e1>>)
         @@ s2 :> (c1 :> <<e2>> @@ c2 :> <<None>>)
         @@ s3 :> (c1 :> <<None>> @@ c2 :> <<e1>>)
         @@ s4 :> (c1 :> <<None>> @@ c2 :> <<None>>)
         @@ s5 :> (c1 :> <<None, e1>> @@ c2 :> <<None>>)

Symmetry == Permutations(Proc)
=============================================================================
