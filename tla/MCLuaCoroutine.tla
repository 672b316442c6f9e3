--------------------------- MODULE MCLuaCoroutine ---------------------------
(* Model values for TLC: one coroutine.                                      *)
EXTENDS LuaCoroutine

OneStream == {"request"}
=============================================================================
