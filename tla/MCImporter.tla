----------------------------- MODULE MCImporter -----------------------------
(* Small instances of Importer for TLC: backups of other databases.          *)
EXTENDS Importer, TLC

CONSTANTS c1, c2, h1, f1, f2, s1, s2, t1, t2

Vector(s) == [space |-> s, at |-> t1]
Rec(i, f, v) == [id |-> i, fields |-> f, vector |-> v]

\* Vectors of two spaces, one of an unknown one, none, a record twice.
MCBackups ==
    {<<Rec(c1, f1, Vector(s1)), Rec(c2, f1, Vector(s2))>>,
     <<Rec(c1, f1, Vector(Unknown)), Rec(c2, f2, None)>>,
     <<Rec(c1, f1, Vector(s1)), Rec(c1, f1, Vector(s1))>>,
     <<Rec(c1, f1, LeftOut), Rec(c1, f2, None)>>}
MCHotBackups == MCBackups \cup {<<Rec(h1, f1, LeftOut), Rec(c1, f1, Vector(s1)), Rec(h1, f1, LeftOut)>>}
MCSymmetry == Permutations(Importers)

=============================================================================
