----------------------------- MODULE MCLuaPlugin -----------------------------
(* Model values for TLC: one HTTP stream, its request and its response.      *)
EXTENDS LuaPlugin

BothDirections == {"request", "response"}
RequestOnly == {"request"}
=============================================================================
