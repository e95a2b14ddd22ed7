---------------------------- MODULE MCUpdatePack ----------------------------
(***************************************************************************)
(* Small modpacks for TLC: a mod, and in the directory d two files x and y *)
(* where the name of y goes on after the name of x ("a.cfg", "a.cfg.bak"). *)
(***************************************************************************)
EXTENDS UpdatePack

CONSTANTS m, d, x, y

MCParent == [p \in Paths |-> IF p \in {x, y} /\ d \in Paths THEN d ELSE p]
MCExtends == {<<x, y>>} \cap (Paths \X Paths)
MCOrder == SelectSeq(<<m, d, x, y>>, LAMBDA p : p \in Paths)

MCGentle == {h \in Histories : Gentle(h)}
MCLasting ==
    {h \in MCGentle : Lasting(h) /\ \A r \in 1..Releases : y \in Paths => h[y][r] = Absent}
=============================================================================
