--------------------------- MODULE MCCalloutStreams ---------------------------
(***************************************************************************)
(* Instances of CalloutStreams for TLC: every server, for headers, bodies    *)
(* and trailers, and the Go server with handlers for both, one or none of   *)
(* the two messages.                                                        *)
(***************************************************************************)
EXTENDS CalloutStreams

Pairs == {{"request_headers", "response_headers"},
          {"request_body", "response_body"},
          {"request_trailers", "response_trailers"}}

MCDeployments ==
    {[server |-> s, events |-> p, handlers |-> p] : s \in Servers, p \in Pairs}
    \cup UNION {{[server |-> "go", events |-> p, handlers |-> h] : h \in SUBSET p}
                : p \in Pairs}
=============================================================================
