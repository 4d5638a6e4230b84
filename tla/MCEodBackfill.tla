---------------------------- MODULE MCEodBackfill ----------------------------
(* EodBackfill with two market paths, one of them without a verified         *)
(* candidate, two trading days around a holiday, and two files to import.    *)
EXTENDS EodBackfill, TLC

CONSTANTS s1, s2

MCOrder == <<s1, s2>>
MCInstants == {[day |-> 1, minute |-> At(16, 0)], [day |-> 3, minute |-> At(15, 10)],
               [day |-> 3, minute |-> At(16, 0)]}
MCRow == [final |-> TRUE, prev |-> NoDay, stored |-> TRUE]
MCImports == {s1 :> (3 :> MCRow), (s1 :> (1 :> MCRow)) @@ (s2 :> (3 :> MCRow))}
=============================================================================
