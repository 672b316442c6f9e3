------------------------ MODULE PyCalloutServerProofs ------------------------
(* Safety of the life cycle of CalloutServer, for any number of threads that  *)
(* call shutdown(), with and without a health check server, with interrupts   *)
(* and with failures to start.                                                *)
EXTENDS PyCalloutServer, TLAPS

\* The stages of run() before the first line of its try block.
Before == {"new", "bound", "wrapped", "started"}

\* The stages of run() after its serving loop.
After == {"finally", "closing", "closed?", "stopping", "ended"}

Stopped == {"grace", "terminated"}

\* Where run() is says how far the servers have come.
RunnerInv ==
    /\ runner \in {"new", "bound", "wrapped"} => grpc = "idle"
    /\ runner \in {"started", "try", "serving"} \cup After => grpc # "idle"
    /\ runner \in Before \cup {"raised"} => ~setup
    /\ runner \in {"try", "serving"} \cup After => setup
    /\ (health /\ runner \notin {"new", "raised"}) => http.socket # "none"
    /\ http.shut => runner \in After
    /\ runner \in {"closing", "closed?", "stopping", "ended"} =>
          http.socket # "open"
    /\ runner \in {"stopping", "ended"} => grpc \in Stopped

\* Without a health check server its socket never exists.
HealthInv == ~health => http.socket # "open"

\* Where a caller of shutdown() is says what it has found: if it waited for
\* _setup, it stops the callout server only after the health check has ended.
StopperInv ==
    \A t \in Stoppers :
        /\ stopper[t] # "idle" => setup
        /\ stopper[t] \in {"stopGrpc", "waitGrpc", "returned"} /\ health =>
              runner \in After
        /\ stopper[t] \in {"waitGrpc", "returned"} => grpc \in Stopped

\* While run() has not left its loop nobody has stopped the callout server.
ServingInv == health /\ runner \in {"started", "try", "serving"} => grpc = "started"

\* What the updates of the health check server do to its three fields.
LEMMA HttpFields ==
    ASSUME http \in HttpServer
    PROVE  /\ RequestShutdown(http) \in HttpServer
           /\ ServeForeverEnds(http) \in HttpServer
           /\ ServeForeverEnds(http).shut = TRUE
           /\ ServeForeverEnds(http).socket = http.socket
           /\ [http EXCEPT !.shut = FALSE].shut = FALSE
           /\ [http EXCEPT !.shut = FALSE].socket = http.socket
           /\ RequestShutdown([http EXCEPT !.socket = "closed"]).socket = "closed"
           /\ RequestShutdown([http EXCEPT !.socket = "closed"]).shut = http.shut
  BY DEF HttpServer, ServeForeverEnds, RequestShutdown

\* The type invariant of the life cycle holds (PyTypeOK).
THEOREM PyTypeCorrect == Spec => []PyTypeOK
<1>1. Init => PyTypeOK
  <2> SUFFICES ASSUME Init PROVE PyTypeOK
    OBVIOUS
  <2>1. health \in BOOLEAN
    BY PyConfiguration, Zenon DEF Init
  <2>2. setup \in BOOLEAN /\ closed \in BOOLEAN
    BY Zenon DEF Init
  <2>3. closed <=> runner = "ended"
    BY DEF Init
  <2>4. /\ runner \in RunnerStages
        /\ stopper \in [Stoppers -> StopperStages]
        /\ http \in HttpServer
        /\ grpc \in {"idle", "started", "grace", "terminated"}
        /\ calls \in 0..MaxCalls
        /\ interrupted \in RunnerStages \cup {"no"}
    BY PyConfiguration DEF Init, RunnerStages, StopperStages, HttpServer
  <2> QED
    BY <2>1, <2>2, <2>3, <2>4, Zenon DEF PyTypeOK
<1>2. PyTypeOK /\ [Next]_vars => PyTypeOK'
  <2> SUFFICES ASSUME PyTypeOK, [Next]_vars PROVE PyTypeOK'
    OBVIOUS
  <2> USE PyConfiguration DEF PyTypeOK, RunnerStages, StopperStages, HttpServer
  <2>1. CASE BindHealth \/ WrapHealth \/ StartGrpc \/ SetUp
    <3>1. setup' \in BOOLEAN
      BY <2>1, Zenon DEF BindHealth, WrapHealth, StartGrpc, SetUp
    <3> QED
      BY <2>1, <3>1 DEF BindHealth, WrapHealth, StartGrpc, SetUp
  <2>10. CASE Loop
    BY <2>10 DEF Loop
  <2>11. CASE LoopEnds
    BY <2>11 DEF LoopEnds, ServeForeverEnds
  <2>12. CASE StopHealth
    BY <2>12 DEF StopHealth, RequestShutdown
  <2>13. CASE HealthStopped \/ RunnerStopsGrpc \/ RunnerEnds
    <3>1. closed' \in BOOLEAN
      BY <2>13, Zenon DEF HealthStopped, RunnerStopsGrpc, RunnerEnds
    <3> QED
      BY <2>13, <3>1 DEF HealthStopped, RunnerStopsGrpc, RunnerEnds, GrpcStop
  <2>2. CASE StartRaises
    BY <2>2 DEF StartRaises
  <2>3. CASE Interrupt
    <3>1. interrupted' \in RunnerStages \cup {"no"}
      BY <2>3 DEF Interrupt
    <3>2. http' \in HttpServer
      BY <2>3, HttpFields DEF Interrupt
    <3>3. /\ runner' \in RunnerStages /\ runner' # "ended"
          /\ runner # "ended"
          /\ UNCHANGED <<health, stopper, grpc, calls, setup, closed>>
      BY <2>3 DEF Interrupt
    <3> QED
      BY <3>1, <3>2, <3>3
  <2>4. ASSUME NEW t \in Stoppers, Shutdown(t) PROVE PyTypeOK'
    <3>1. http' \in HttpServer
      BY <2>4, HttpFields DEF Shutdown
    <3>2. stopper' \in [Stoppers -> StopperStages]
      BY <2>4 DEF Shutdown, At
    <3>3. UNCHANGED <<health, runner, grpc, calls, setup, closed, interrupted>>
      BY <2>4 DEF Shutdown
    <3> QED
      BY <3>1, <3>2, <3>3
  <2>5. ASSUME NEW t \in Stoppers, StopperStep(t) PROVE PyTypeOK'
    BY <2>5 DEF StopperStep, ShutdownWaited, StopperStopsGrpc, ShutdownReturns,
       At, GrpcStop
  <2>6. CASE ServerStep \/ OpenCall \/ EndCall
    BY <2>6 DEF ServerStep, GraceOver, GrpcTerminates, OpenCall, EndCall
  <2>7. CASE UNCHANGED vars
    BY <2>7 DEF vars
  <2> QED
    BY <2>1, <2>10, <2>11, <2>12, <2>13, <2>2, <2>3, <2>4, <2>5, <2>6, <2>7
    DEF Next, RunnerStep
<1> QED
  BY <1>1, <1>2, PTL DEF Spec

\* run() knows its servers at every stage, whoever calls shutdown().
LEMMA RunnerInvariant == Spec => [](RunnerInv /\ HealthInv)
<1> USE DEF RunnerInv, HealthInv, Before, After, Stopped
<1>1. Init => RunnerInv /\ HealthInv
  BY DEF Init
<1>2. PyTypeOK /\ RunnerInv /\ HealthInv /\ [Next]_vars =>
         RunnerInv' /\ HealthInv'
  <2> SUFFICES ASSUME PyTypeOK, RunnerInv, HealthInv, [Next]_vars
               PROVE RunnerInv' /\ HealthInv'
    OBVIOUS
  <2> USE DEF PyTypeOK, HttpServer
  <2>1. CASE BindHealth \/ WrapHealth \/ StartGrpc \/ SetUp
    BY <2>1 DEF BindHealth, WrapHealth, StartGrpc, SetUp
  <2>2. CASE Loop
    BY <2>2, HttpFields DEF Loop
  <2>20. CASE LoopEnds
    BY <2>20, HttpFields DEF LoopEnds
  <2>3. CASE StopHealth
    BY <2>3, HttpFields DEF StopHealth
  <2>30. CASE HealthStopped \/ RunnerStopsGrpc \/ RunnerEnds
    BY <2>30 DEF HealthStopped, RunnerStopsGrpc, RunnerEnds, GrpcStop
  <2>4. CASE StartRaises
    BY <2>4 DEF StartRaises
  <2>40. CASE Interrupt
    BY <2>40, HttpFields DEF Interrupt
  <2>5. ASSUME NEW t \in Stoppers, Shutdown(t)
        PROVE RunnerInv' /\ HealthInv'
    BY <2>5 DEF Shutdown, At, RequestShutdown
  <2>6. ASSUME NEW t \in Stoppers, StopperStep(t)
        PROVE RunnerInv' /\ HealthInv'
    BY <2>6 DEF StopperStep, ShutdownWaited, StopperStopsGrpc,
       ShutdownReturns, At, GrpcStop
  <2>7. CASE ServerStep \/ OpenCall \/ EndCall
    BY <2>7 DEF ServerStep, GraceOver, GrpcTerminates, OpenCall, EndCall
  <2>8. CASE UNCHANGED vars
    BY <2>8 DEF vars
  <2> QED
    BY <2>1, <2>2, <2>20, <2>3, <2>30, <2>4, <2>40, <2>5, <2>6, <2>7, <2>8
    DEF Next, RunnerStep
<1> QED
  BY <1>1, <1>2, PyTypeCorrect, PTL DEF Spec

\* When run() has returned no server accepts connections (_stop_servers),
\* whether or not the callers of shutdown() waited for _setup.
THEOREM ClosedMeansStoppedTheorem == Spec => []ClosedMeansStopped
<1>1. PyTypeOK /\ RunnerInv => ClosedMeansStopped
  BY DEF PyTypeOK, RunnerInv, ClosedMeansStopped, Stopped
<1> QED
  BY <1>1, PyTypeCorrect, RunnerInvariant, PTL

\* Callers that wait for _setup stop the callout server after the health check.
LEMMA StopperInvariant ==
    ASSUME WaitForSetup
    PROVE Spec => [](StopperInv /\ ServingInv)
<1> USE DEF StopperInv, ServingInv, Before, After, Stopped
<1>1. Init => StopperInv /\ ServingInv
  BY DEF Init
<1>2. PyTypeOK /\ RunnerInv /\ StopperInv /\ ServingInv /\ [Next]_vars =>
         StopperInv' /\ ServingInv'
  <2> SUFFICES ASSUME PyTypeOK, RunnerInv, StopperInv, ServingInv, [Next]_vars
               PROVE StopperInv' /\ ServingInv'
    OBVIOUS
  <2> USE DEF PyTypeOK, HttpServer, RunnerStages, RunnerInv
  <2>1. CASE BindHealth \/ WrapHealth \/ StartGrpc \/ SetUp
    BY <2>1 DEF BindHealth, WrapHealth, StartGrpc, SetUp
  <2>2. CASE Loop
    BY <2>2, HttpFields DEF Loop
  <2>20. CASE LoopEnds
    BY <2>20, HttpFields DEF LoopEnds
  <2>3. CASE StopHealth
    BY <2>3, HttpFields DEF StopHealth
  <2>30. CASE HealthStopped \/ RunnerStopsGrpc \/ RunnerEnds
    BY <2>30 DEF HealthStopped, RunnerStopsGrpc, RunnerEnds, GrpcStop
  <2>4. CASE StartRaises
    BY <2>4 DEF StartRaises
  <2>40. CASE Interrupt
    BY <2>40, HttpFields DEF Interrupt
  <2>5. ASSUME NEW t \in Stoppers, Shutdown(t)
        PROVE StopperInv' /\ ServingInv'
    BY <2>5, WaitForSetup DEF Shutdown, At, RequestShutdown
  <2>6. ASSUME NEW t \in Stoppers, StopperStep(t)
        PROVE StopperInv' /\ ServingInv'
    BY <2>6 DEF StopperStep, ShutdownWaited, StopperStopsGrpc,
       ShutdownReturns, At, GrpcStop
  <2>7. CASE ServerStep \/ OpenCall \/ EndCall
    BY <2>7 DEF ServerStep, GraceOver, GrpcTerminates, OpenCall, EndCall
  <2>8. CASE UNCHANGED vars
    BY <2>8 DEF vars
  <2> QED
    BY <2>1, <2>2, <2>20, <2>3, <2>30, <2>4, <2>40, <2>5, <2>6, <2>7, <2>8
    DEF Next, RunnerStep
<1> QED
  BY <1>1, <1>2, PyTypeCorrect, RunnerInvariant, PTL DEF Spec

\* A shutdown() whose caller has waited for _setup is never lost.
THEOREM ShutdownStopsTheorem ==
    ASSUME WaitForSetup PROVE Spec => []ShutdownStops
<1>1. StopperInv => ShutdownStops
  BY DEF StopperInv, ShutdownStops, Stopped
<1> QED
  BY <1>1, StopperInvariant, WaitForSetup, PTL

\* The health check never answers for a callout server that does not serve.
THEOREM HealthyMeansServingTheorem ==
    ASSUME WaitForSetup PROVE Spec => []HealthyMeansServing
<1>1. ServingInv => HealthyMeansServing
  BY DEF ServingInv, HealthyMeansServing
<1> QED
  BY <1>1, StopperInvariant, WaitForSetup, PTL
=============================================================================
