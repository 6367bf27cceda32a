--------------------------- MODULE MCPennFatStore ---------------------------
(* Instances of PennFatStore for TLC. *)
EXTENDS PennFatStore

CONSTANTS f1, f2, x, y

TwoNames  == {f1, f2}
TwoTokens == {x, y}
Short     == {<<x>>, <<y, y>>}
OnOff     == {READ_PERMS, READWRITE_PERMS}
Mounting  == {"remount"}
=============================================================================
