---------------------------- MODULE MCQueryExec -----------------------------
(* QueryExec with one catalogue: a plain element and an enumeration with   *)
(* an other type.                                                          *)
EXTENDS QueryExec

CONSTANTS q1, q2, id, file, note, kind, othKind

MCOtherOf == [e \in {note, kind} |-> IF e = kind THEN othKind ELSE None]

Star(keeps) == [all |-> TRUE, cols |-> <<id, file, kind, othKind, note>>,
                regex |-> TRUE, cat |-> TRUE, keeps |-> keeps]
Cols(cols, keeps) == [all |-> FALSE, cols |-> cols, regex |-> keeps,
                      cat |-> TRUE, keeps |-> keeps]

(* SELECT *, selected columns with and without rows left on the stack, a   *)
(* column that is no element, no columns, and an unknown catalogue.        *)
MCPrograms ==
    {Star(TRUE), Star(FALSE), Cols(<<note, file>>, TRUE), Cols(<<kind, othKind, note>>, FALSE),
     Cols(<<file, id>>, FALSE), Cols(<<>>, FALSE),
     [Star(FALSE) EXCEPT !.cat = FALSE]}
=============================================================================
