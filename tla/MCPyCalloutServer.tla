-------------------------- MODULE MCPyCalloutServer --------------------------
(* Values for TLC: the configurations of the health check server.           *)
EXTENDS PyCalloutServer

WithOrWithout == BOOLEAN
WithHealthCheck == {TRUE}
AnyFailure == {"bind", "wrap", "start"}
NoFailure == {}
=============================================================================
