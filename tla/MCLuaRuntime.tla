----------------------------- MODULE MCLuaRuntime -----------------------------
EXTENDS LuaRuntime

Script(bytecode, fails, functions) ==
    [empty |-> FALSE, readable |-> TRUE, bytecode |-> bytecode,
     fails |-> fails, functions |-> functions]

MCConfigurations ==
    {NoConfiguration,
     [NoConfiguration EXCEPT !.empty = FALSE, !.readable = FALSE],
     Script(TRUE, FALSE, {}),
     Script(FALSE, TRUE, {"envoy_on_response"}),
     Script(FALSE, FALSE, {"envoy_on_request", "envoy_on_response"})}
=============================================================================
