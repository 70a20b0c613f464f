----------------------------- MODULE MCMemLock -----------------------------
(* Small instances of MemLock for TLC: two guards and one user of the bare *)
(* table.  Among the vectors are overlapping ones in agreeing and opposite *)
(* orders, the empty one, and some that name a key twice.                  *)
EXTENDS MemLock

CONSTANTS g1, g2, u1

MCGuards == {g1, g2}
MCUsers == {u1}
MCKeyLists == {<<>>, <<1>>, <<1, 2>>, <<2, 1>>, <<3, 2>>, <<1, 1>>, <<2, 1, 2>>, <<3, 1, 2>>}
=============================================================================
