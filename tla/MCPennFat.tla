----------------------------- MODULE MCPennFat -----------------------------
(* Instances of PennFat for TLC. *)
EXTENDS PennFat

CONSTANTS f1, f2, f3, x

ThreeNames == {f1, f2, f3}
OneToken   == {x}
OneTwo     == {<<x>>, <<x, x>>}
ShortLong  == {<<x>>, <<x, x, x>>}
ReadOnly   == {READ_PERMS}
NoPerm     == {}

\* What decides the shape of the table from here on: the data region counts only
\* for the directory that the next mount reads.
Shape == <<[fat EXCEPT !.disk = IF mounted /\ ~In("remount") THEN <<>> ELSE getAllFile(fat)],
           mounted>>

NamesAlike == Permutations(Names)

Moving   == {"move over", "remove some", "cat many", "cat append"}
Spill    == {"append over"}
=============================================================================
