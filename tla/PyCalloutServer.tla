--------------------------- MODULE PyCalloutServer ---------------------------
(***************************************************************************)
(* The life cycle of CalloutServer                                          *)
(* (callouts/python/extproc/service/callout_server.py): one thread in run(),*)
(* threads that call shutdown(), an interrupt of the first, and open        *)
(* Process streams.  network_callout_server.py and the ext_authz server     *)
(* repeat the same code.                                                    *)
(*                                                                          *)
(* The health check server is http.server.HTTPServer and the callout server *)
(* is grpc.server; their behaviour, as this code uses it, is modelled here  *)
(* and marked external.                                                     *)
(***************************************************************************)
EXTENDS Naturals

CONSTANTS
    Stoppers,       \* threads that call shutdown()
    HealthModes,    \* is there a separate health check server?  Subset of BOOLEAN
    Failures,       \* the parts of _start_servers that may raise
    Interrupts,     \* may a KeyboardInterrupt reach the thread in run()?
    WaitForSetup,   \* do callers of shutdown() first wait for _setup?
    MaxCalls        \* bound: Process streams open at once

ASSUME PyConfiguration ==
    /\ HealthModes \subseteq BOOLEAN
    /\ Failures \subseteq {"bind", "wrap", "start"}
    /\ Interrupts \in BOOLEAN
    /\ WaitForSetup \in BOOLEAN
    /\ MaxCalls \in Nat

VARIABLES
    health,     \* health_check_address is set
    runner,     \* where run() is
    stopper,    \* where each shutdown() is
    http,       \* _health_check_server
    grpc,       \* the stage of _callout_server._server
    calls,      \* Process streams open
    setup, closed,  \* _setup, _closed
    interrupted     \* history: where a KeyboardInterrupt reached run(), or "no"

vars == <<health, runner, stopper, http, grpc, calls, setup, closed,
          interrupted>>

RunnerStages == {"new", "bound", "wrapped", "started", "try", "serving",
                 "finally", "closing", "closed?", "stopping", "ended", "raised"}

StopperStages == {"idle", "waitHealth", "stopGrpc", "waitGrpc", "returned"}

\* HTTPServer: its socket, __shutdown_request, and the event __is_shut_down.
HttpServer == [socket : {"none", "open", "closed"}, request : BOOLEAN,
               shut : BOOLEAN]

Init ==
    /\ health \in HealthModes
    /\ runner = "new"
    /\ stopper = [t \in Stoppers |-> "idle"]
    /\ http = [socket |-> "none", request |-> FALSE, shut |-> FALSE]
    /\ grpc = "idle" /\ calls = 0
    /\ setup = FALSE /\ closed = FALSE /\ interrupted = "no"

-----------------------------------------------------------------------------
(* The two servers.                                                         *)

\* The first half of HTTPServer.shutdown(); the second waits for http.shut.
\* A request made before serve_forever() is kept until it runs.
RequestShutdown(h) == [h EXCEPT !.request = TRUE]

\* How serve_forever() ends, be it by a request or by an exception.
ServeForeverEnds(h) == [h EXCEPT !.request = FALSE, !.shut = TRUE]

\* grpc.Server.stop: no more calls; without effect unless the server runs.
GrpcStop(g) == IF g = "started" THEN "grace" ELSE g

\* A proxy opens a Process stream; a stream ends.
OpenCall ==
    /\ grpc = "started" /\ calls < MaxCalls
    /\ calls' = calls + 1
    /\ UNCHANGED <<health, runner, stopper, http, grpc, setup, closed,
                   interrupted>>

EndCall ==
    /\ calls > 0
    /\ calls' = calls - 1
    /\ UNCHANGED <<health, runner, stopper, http, grpc, setup, closed,
                   interrupted>>

\* The grace period of stop(grace=10) is over: open calls are cancelled.
GraceOver ==
    /\ grpc = "grace" /\ calls > 0
    /\ calls' = 0
    /\ UNCHANGED <<health, runner, stopper, http, grpc, setup, closed,
                   interrupted>>

GrpcTerminates ==
    /\ grpc = "grace" /\ calls = 0
    /\ grpc' = "terminated"
    /\ UNCHANGED <<health, runner, stopper, http, calls, setup, closed,
                   interrupted>>

-----------------------------------------------------------------------------
(* run().                                                                   *)

\* _start_servers: HTTPServer(...) binds its socket, and is stored.
BindHealth ==
    /\ runner = "new" /\ health
    /\ runner' = "bound"
    /\ http' = [http EXCEPT !.socket = "open"]
    /\ UNCHANGED <<health, stopper, grpc, calls, setup, closed, interrupted>>

\* The socket is wrapped for HTTPS, or there is no health check server.
WrapHealth ==
    /\ IF health THEN runner = "bound" ELSE runner = "new"
    /\ runner' = "wrapped"
    /\ UNCHANGED <<health, stopper, http, grpc, calls, setup, closed,
                   interrupted>>

\* _callout_server.start()
StartGrpc ==
    /\ runner = "wrapped"
    /\ runner' = "started"
    /\ grpc' = IF grpc = "idle" THEN "started" ELSE grpc
    /\ UNCHANGED <<health, stopper, http, calls, setup, closed, interrupted>>

\* A part of _start_servers raises, before the try: run() is left at once.
StartRaises ==
    /\ \/ runner = "new" /\ health /\ "bind" \in Failures
       \/ runner = "bound" /\ "wrap" \in Failures
       \/ runner = "wrapped" /\ "start" \in Failures
    /\ runner' = "raised"
    /\ UNCHANGED <<health, stopper, http, grpc, calls, setup, closed,
                   interrupted>>

SetUp ==
    /\ runner = "started"
    /\ runner' = "try" /\ setup' = TRUE
    /\ UNCHANGED <<health, stopper, http, grpc, calls, closed, interrupted>>

\* _loop_server: serve_forever() clears the event and enters its loop, or the
\* thread waits for the end of the gRPC server.
Loop ==
    /\ runner = "try"
    /\ runner' = "serving"
    /\ http' = IF health THEN [http EXCEPT !.shut = FALSE] ELSE http
    /\ UNCHANGED <<health, stopper, grpc, calls, setup, closed, interrupted>>

LoopEnds ==
    /\ runner = "serving"
    /\ IF health THEN http.request ELSE grpc = "terminated"
    /\ runner' = "finally"
    /\ http' = IF health THEN ServeForeverEnds(http) ELSE http
    /\ UNCHANGED <<health, stopper, grpc, calls, setup, closed, interrupted>>

\* A KeyboardInterrupt.  Before the try it leaves run(); inside serve_forever()
\* it passes through the finally of that method.  One interrupt, and none once
\* run() has begun to stop its servers.
Interrupt ==
    /\ Interrupts /\ interrupted = "no"
    /\ interrupted' = runner
    /\ \/ /\ runner \in {"new", "bound", "wrapped", "started"}
          /\ runner' = "raised" /\ UNCHANGED http
       \/ /\ runner = "try"
          /\ runner' = "finally" /\ UNCHANGED http
       \/ /\ runner = "serving"
          /\ runner' = "finally"
          /\ http' = IF health THEN ServeForeverEnds(http) ELSE http
    /\ UNCHANGED <<health, stopper, grpc, calls, setup, closed>>

\* Variant: shutdown() is called whether there is a health check server or not.
StopHealth_AlwaysWaits ==
    /\ runner = "finally"
    /\ runner' = "closing"
    /\ http' = RequestShutdown([http EXCEPT !.socket = "closed"])
    /\ UNCHANGED <<health, stopper, grpc, calls, setup, closed, interrupted>>

\* _stop_servers: server_close(), then shutdown() asks and waits.
StopHealth ==
    /\ runner = "finally"
    /\ runner' = IF health THEN "closing" ELSE "closed?"
    /\ http' = IF health
               THEN RequestShutdown([http EXCEPT !.socket = "closed"])
               ELSE http
    /\ UNCHANGED <<health, stopper, grpc, calls, setup, closed, interrupted>>

HealthStopped ==
    /\ runner = "closing" /\ http.shut
    /\ runner' = "closed?"
    /\ UNCHANGED <<health, stopper, http, grpc, calls, setup, closed,
                   interrupted>>

\* Variant: run() leaves the callout server to shutdown().
RunnerStopsGrpc_WaitOnly ==
    /\ runner = "closed?"
    /\ runner' = "stopping"
    /\ UNCHANGED <<health, stopper, http, grpc, calls, setup, closed,
                   interrupted>>

\* _callout_server.stop()
RunnerStopsGrpc ==
    /\ runner = "closed?"
    /\ runner' = "stopping"
    /\ grpc' = GrpcStop(grpc)
    /\ UNCHANGED <<health, stopper, http, calls, setup, closed, interrupted>>

\* wait_for_termination(timeout=10) has returned: the server has ended, or the
\* time is over, whichever is first.
RunnerEnds ==
    /\ runner = "stopping"
    /\ runner' = "ended" /\ closed' = TRUE
    /\ UNCHANGED <<health, stopper, http, grpc, calls, setup, interrupted>>

RunnerStep ==
    \/ BindHealth \/ WrapHealth \/ StartGrpc \/ SetUp \/ Loop \/ LoopEnds
    \/ StopHealth \/ HealthStopped \/ RunnerStopsGrpc \/ RunnerEnds

-----------------------------------------------------------------------------
(* shutdown(), in another thread.                                           *)

At(t, from, to) == stopper[t] = from /\ stopper' = [stopper EXCEPT ![t] = to]

\* Variant: the callout server is stopped without waiting for the health check.
Shutdown_NoWait(t) ==
    /\ WaitForSetup => setup
    /\ At(t, "idle", "stopGrpc")
    /\ http' = IF http.socket # "none" THEN RequestShutdown(http) ELSE http
    /\ UNCHANGED <<health, runner, grpc, calls, setup, closed, interrupted>>

\* Variant: the health check server is not asked to stop.
Shutdown_GrpcOnly(t) ==
    /\ WaitForSetup => setup
    /\ At(t, "idle", "stopGrpc")
    /\ UNCHANGED <<health, runner, http, grpc, calls, setup, closed,
                   interrupted>>

\* `if self._health_check_server': the server exists once run() has stored it.
Shutdown(t) ==
    /\ WaitForSetup => setup
    /\ IF http.socket # "none"
       THEN At(t, "idle", "waitHealth") /\ http' = RequestShutdown(http)
       ELSE At(t, "idle", "stopGrpc") /\ UNCHANGED http
    /\ UNCHANGED <<health, runner, grpc, calls, setup, closed, interrupted>>

ShutdownWaited(t) ==
    /\ http.shut
    /\ At(t, "waitHealth", "stopGrpc")
    /\ UNCHANGED <<health, runner, http, grpc, calls, setup, closed,
                   interrupted>>

\* Variant: shutdown() leaves the callout server to run().
StopperStopsGrpc_WaitOnly(t) ==
    /\ At(t, "stopGrpc", "waitGrpc")
    /\ UNCHANGED <<health, runner, http, grpc, calls, setup, closed,
                   interrupted>>

StopperStopsGrpc(t) ==
    /\ At(t, "stopGrpc", "waitGrpc")
    /\ grpc' = GrpcStop(grpc)
    /\ UNCHANGED <<health, runner, http, calls, setup, closed, interrupted>>

ShutdownReturns(t) ==
    /\ At(t, "waitGrpc", "returned")
    /\ UNCHANGED <<health, runner, http, grpc, calls, setup, closed,
                   interrupted>>

StopperStep(t) ==
    ShutdownWaited(t) \/ StopperStopsGrpc(t) \/ ShutdownReturns(t)

-----------------------------------------------------------------------------
ServerStep == GraceOver \/ GrpcTerminates

Next ==
    \/ RunnerStep \/ StartRaises \/ Interrupt
    \/ \E t \in Stoppers : Shutdown(t) \/ StopperStep(t)
    \/ ServerStep \/ OpenCall \/ EndCall

Spec == Init /\ [][Next]_vars

\* Threads are scheduled, serve_forever polls its request, the timer of the
\* grace period fires.  Nobody has to call, to interrupt or to hang up.
FairSpec ==
    /\ Spec
    /\ WF_vars(RunnerStep) /\ WF_vars(ServerStep)
    /\ \A t \in Stoppers : WF_vars(StopperStep(t))

-----------------------------------------------------------------------------
(* Properties.                                                              *)

\* The attributes of CalloutServer and of its servers have their types, and
\* _closed is set at the end of run() only.
PyTypeOK ==
    /\ health \in BOOLEAN
    /\ runner \in RunnerStages
    /\ stopper \in [Stoppers -> StopperStages]
    /\ http \in HttpServer
    /\ grpc \in {"idle", "started", "grace", "terminated"}
    /\ calls \in 0..MaxCalls
    /\ setup \in BOOLEAN /\ interrupted \in RunnerStages \cup {"no"}
    /\ closed \in BOOLEAN /\ (closed <=> runner = "ended")

\* While the health check answers, the callout server takes calls: a load
\* balancer is never told that a stopped server is healthy.  run() starts the
\* health check last, and both ways to stop end it first.
HealthyMeansServing == health /\ runner = "serving" => grpc = "started"

\* shutdown() ends the servers (its docstring): from the moment it has asked
\* the callout server to stop, that server takes no calls, nor does it later.
ShutdownStops ==
    \A t \in Stoppers :
        stopper[t] \in {"waitGrpc", "returned"} => grpc # "started"

\* When run() has returned, nothing accepts connections any more.
ClosedMeansStopped ==
    closed => grpc \in {"grace", "terminated"} /\ http.socket # "open"

\* An interrupt between the try of run() and the loop of serve_forever(): the
\* event that HTTPServer.shutdown() waits for is not set by anybody.
InterruptedBeforeLoop == health /\ interrupted = "try"

\* A shutdown() ends, and so does run(), whoever is first to stop what, except
\* after an interrupt in that window.
ShutdownEnds ==
    \A t \in Stoppers :
        stopper[t] # "idle" ~>
            (stopper[t] = "returned" /\ closed) \/ InterruptedBeforeLoop

\* An interrupted run() ends: every server is stopped (_stop_servers).
InterruptEnds == interrupted # "no" ~> (closed \/ runner = "raised")

\* It does end, wherever else the interrupt came.
LoopInterruptEnds ==
    interrupted # "no" ~>
        (closed \/ runner = "raised" \/ InterruptedBeforeLoop)
=============================================================================
