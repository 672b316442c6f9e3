------------------------- MODULE JavaServiceCallout -------------------------
(***************************************************************************)
(* The life cycle of ServiceCallout                                         *)
(* (callouts/java/.../service/ServiceCallout.java): the main thread calls   *)
(* start(), perhaps again after a failure, and blockUntilShutdown(); the    *)
(* JVM begins to shut down at any moment and runs the hook that start()     *)
(* registers last; proxies open and end calls.                              *)
(*                                                                          *)
(* The gRPC servers are NettyServerBuilder's, the health check server is    *)
(* com.sun.net.httpserver.HttpServer; what they do is modelled as this code *)
(* uses them and marked external.                                           *)
(***************************************************************************)
EXTENDS Naturals

CONSTANTS
    MaxStarts,  \* bound: calls of start()
    MaxCalls    \* bound: calls open at once on one server

ASSUME BoundsAssumption == MaxStarts \in Nat /\ MaxCalls \in Nat

Servers == {"secure", "plain"}      \* the fields server, plaintextServer

VARIABLES
    enabled,    \* the servers the configuration asks for
    combined,   \* combinedHealthCheck
    main,       \* where the main thread is
    starts,     \* how often start() has been called
    executor,   \* grpcExecutor: the start() that made it, 0 for null
    dead,       \* the executors that have been shut down
    server,     \* per server: its stage, and the executor it was built with
    calls,      \* per server: calls open
    health,     \* healthCheckServer: "created", "on", "off"
    jvm,        \* "up", "stopping", "halted"
    hook,       \* the shutdown hook: not registered, registered, or its place
    timedOut,   \* history: an awaitTermination of stop() ran into its timeout
    failed,     \* history: a start() has failed after another server started
    cut         \* history: an open call lost its executor or its JVM

vars == <<enabled, combined, main, starts, executor, dead, server, calls,
          health, jvm, hook, timedOut, failed, cut>>

-----------------------------------------------------------------------------
MainStages == {"idle", "secure", "plain", "health", "register", "started",
               "block secure", "block plain", "returned"}

HookStages == {"none", "registered", "wait secure", "shutdown plain",
               "wait plain", "executor", "wait executor", "health", "done"}

Server == [stage : {"null", "listening", "shutdown", "terminated"},
           exec : 0..MaxStarts]

NoServer == [stage |-> "null", exec |-> 0]

\* HttpServer.create has bound the health check port in the constructor.
Init ==
    /\ enabled \in SUBSET Servers
    /\ combined \in BOOLEAN
    /\ main = "idle" /\ starts = 0
    /\ executor = 0 /\ dead = {}
    /\ server = [s \in Servers |-> NoServer]
    /\ calls = [s \in Servers |-> 0]
    /\ health = "created"
    /\ jvm = "up" /\ hook = "none"
    /\ timedOut = FALSE /\ failed = FALSE /\ cut = FALSE

Running == jvm # "halted"

OpenCalls == \E s \in Servers : calls[s] > 0

-----------------------------------------------------------------------------
(* start().                                                                 *)

\* "Server already started" leaves everything as it is; otherwise the executor
\* for virtual threads is made.
CallStart ==
    /\ Running /\ main \in {"idle", "started"} /\ starts < MaxStarts
    /\ starts' = starts + 1
    /\ IF executor # 0
       THEN UNCHANGED <<executor, main>>
       ELSE executor' = starts + 1 /\ main' = "secure"
    /\ UNCHANGED <<enabled, combined, dead, server, calls, health, jvm, hook,
                   timedOut, failed, cut>>

After(s) == IF s = "secure" THEN "plain" ELSE "health"

\* build().start() of one server, when the configuration asks for it.  Its port
\* must be free, also of a server that a failed start() has left behind.
StartServer(s) ==
    /\ Running /\ main = s
    /\ main' = After(s)
    /\ IF s \in enabled
       THEN /\ server[s].stage \notin {"listening", "shutdown"}
            /\ server' = [server EXCEPT ![s] =
                             [stage |-> "listening", exec |-> executor]]
       ELSE UNCHANGED server
    /\ UNCHANGED <<enabled, combined, starts, executor, dead, calls, health,
                   jvm, hook, timedOut, failed, cut>>

\* Variant: the executor of a failed start is not forgotten.
StartThrows_ExecutorKept(s) ==
    /\ Running /\ main = s /\ s \in enabled
    /\ main' = "idle"
    /\ dead' = dead \cup {executor}
    /\ failed' = (failed \/ \E t \in Servers : server[t].stage = "listening")
    /\ cut' = (cut \/ \E t \in Servers :
                         calls[t] > 0 /\ server[t].exec = executor)
    /\ UNCHANGED <<enabled, combined, starts, executor, server, calls, health,
                   jvm, hook, timedOut>>

\* Variant: the exception is not thrown on, and start() registers its hook.
StartThrows_Swallowed(s) ==
    /\ Running /\ main = s /\ s \in enabled
    /\ main' = "register"
    /\ dead' = dead \cup {executor} /\ executor' = 0
    /\ failed' = (failed \/ \E t \in Servers : server[t].stage = "listening")
    /\ cut' = (cut \/ \E t \in Servers :
                         calls[t] > 0 /\ server[t].exec = executor)
    /\ UNCHANGED <<enabled, combined, starts, server, calls, health, jvm,
                   hook, timedOut>>

\* It throws: the executor is shut down and forgotten, servers that have been
\* started before are left as they are.
StartThrows(s) ==
    /\ Running /\ main = s /\ s \in enabled
    /\ main' = "idle"
    /\ dead' = dead \cup {executor} /\ executor' = 0
    /\ failed' = (failed \/ \E t \in Servers : server[t].stage = "listening")
    /\ cut' = (cut \/ \E t \in Servers :
                         calls[t] > 0 /\ server[t].exec = executor)
    /\ UNCHANGED <<enabled, combined, starts, server, calls, health, jvm,
                   hook, timedOut>>

StartHealth ==
    /\ Running /\ main = "health"
    /\ main' = "register"
    /\ health' = IF combined THEN health ELSE "on"
    /\ UNCHANGED <<enabled, combined, starts, executor, dead, server, calls,
                   jvm, hook, timedOut, failed, cut>>

\* addShutdownHook.  It throws when the JVM is already shutting down, outside
\* the try: start() is left with its servers running.
Register ==
    /\ Running /\ main = "register"
    /\ IF jvm = "up"
       THEN main' = "started" /\ hook' = "registered"
       ELSE main' = "idle" /\ UNCHANGED hook
    /\ UNCHANGED <<enabled, combined, starts, executor, dead, server, calls,
                   health, jvm, timedOut, failed, cut>>

StartStep ==
    StartHealth \/ Register \/ \E s \in Servers : StartServer(s)

-----------------------------------------------------------------------------
(* blockUntilShutdown().                                                    *)

CallBlock ==
    /\ Running /\ main = "started"
    /\ main' = "block secure"
    /\ UNCHANGED <<enabled, combined, starts, executor, dead, server, calls,
                   health, jvm, hook, timedOut, failed, cut>>

Ended(s) == server[s].stage \in {"null", "terminated"}

\* Variant: only the first server is waited for.
Block_SecureOnly ==
    /\ Running /\ main = "block secure" /\ Ended("secure")
    /\ main' = "returned"
    /\ UNCHANGED <<enabled, combined, starts, executor, dead, server, calls,
                   health, jvm, hook, timedOut, failed, cut>>

\* awaitTermination() without a timeout, on one server, then on the other.
Block ==
    /\ Running
    /\ \/ main = "block secure" /\ Ended("secure") /\ main' = "block plain"
       \/ main = "block plain" /\ Ended("plain") /\ main' = "returned"
    /\ UNCHANGED <<enabled, combined, starts, executor, dead, server, calls,
                   health, jvm, hook, timedOut, failed, cut>>

-----------------------------------------------------------------------------
(* The JVM and the hook: stop().                                            *)

\* A signal, or the end of the last thread that is not a daemon.
JvmStops ==
    /\ jvm = "up"
    /\ jvm' = "stopping"
    /\ UNCHANGED <<enabled, combined, main, starts, executor, dead, server,
                   calls, health, hook, timedOut, failed, cut>>

\* All hooks have ended: whatever still runs is cut.
JvmHalts ==
    /\ jvm = "stopping" /\ hook \in {"none", "done"}
    /\ jvm' = "halted"
    /\ cut' = (cut \/ OpenCalls)
    /\ UNCHANGED <<enabled, combined, main, starts, executor, dead, server,
                   calls, health, hook, timedOut, failed>>

\* shutdown() of a server, if there is one: no more calls are taken.
ShutDown(s) ==
    server' = [server EXCEPT ![s].stage = IF @ = "listening" THEN "shutdown"
                                          ELSE @]

\* Variant: shutdownNow() cancels the calls that are open.
StopSecure_Now ==
    /\ jvm = "stopping" /\ hook = "registered"
    /\ hook' = "wait secure"
    /\ ShutDown("secure")
    /\ calls' = [calls EXCEPT !["secure"] = 0]
    /\ cut' = (cut \/ calls["secure"] > 0)
    /\ UNCHANGED <<enabled, combined, main, starts, executor, dead, health,
                   jvm, timedOut, failed>>

StopSecure ==
    /\ jvm = "stopping" /\ hook = "registered"
    /\ hook' = "wait secure"
    /\ ShutDown("secure")
    /\ UNCHANGED <<enabled, combined, main, starts, executor, dead, calls,
                   health, jvm, timedOut, failed, cut>>

\* Variant: awaitTermination() without its timeout.
Await_Forever(s, from, to) ==
    /\ Running /\ hook = from
    /\ hook' = to
    /\ Ended(s) /\ UNCHANGED timedOut
    /\ UNCHANGED <<enabled, combined, main, starts, executor, dead, server,
                   calls, health, jvm, failed, cut>>

\* awaitTermination(30, SECONDS): the server has ended, or the time is over; the
\* result is not looked at.
Await(s, from, to) ==
    /\ Running /\ hook = from
    /\ hook' = to
    /\ timedOut' = (timedOut \/ ~Ended(s))
    /\ UNCHANGED <<enabled, combined, main, starts, executor, dead, server,
                   calls, health, jvm, failed, cut>>

StopPlain ==
    /\ Running /\ hook = "shutdown plain"
    /\ hook' = "wait plain"
    /\ ShutDown("plain")
    /\ UNCHANGED <<enabled, combined, main, starts, executor, dead, calls,
                   health, jvm, timedOut, failed, cut>>

\* shutdown() of the executor: the calls that are still open lose it.
StopExecutor ==
    /\ Running /\ hook = "executor"
    /\ hook' = "wait executor"
    /\ dead' = IF executor # 0 THEN dead \cup {executor} ELSE dead
    /\ cut' = (cut \/ \E s \in Servers :
                         calls[s] > 0 /\ server[s].exec = executor)
    /\ UNCHANGED <<enabled, combined, main, starts, executor, server, calls,
                   health, jvm, timedOut, failed>>

\* awaitTermination(30, SECONDS), then shutdownNow(): the executor is done.
ExecutorStopped ==
    /\ Running /\ hook = "wait executor"
    /\ hook' = "health"
    /\ UNCHANGED <<enabled, combined, main, starts, executor, dead, server,
                   calls, health, jvm, timedOut, failed, cut>>

StopHealth ==
    /\ Running /\ hook = "health"
    /\ hook' = "done"
    /\ health' = IF combined THEN health ELSE "off"
    /\ UNCHANGED <<enabled, combined, main, starts, executor, dead, server,
                   calls, jvm, timedOut, failed, cut>>

HookStep ==
    \/ StopSecure \/ Await("secure", "wait secure", "shutdown plain")
    \/ StopPlain \/ Await("plain", "wait plain", "executor")
    \/ StopExecutor \/ ExecutorStopped \/ StopHealth

-----------------------------------------------------------------------------
(* The gRPC servers.                                                        *)

\* A call needs an executor for its handlers.
OpenCall(s) ==
    /\ Running /\ server[s].stage = "listening" /\ calls[s] < MaxCalls
    /\ IF server[s].exec \in dead
       THEN cut' = TRUE /\ UNCHANGED calls
       ELSE calls' = [calls EXCEPT ![s] = @ + 1] /\ UNCHANGED cut
    /\ UNCHANGED <<enabled, combined, main, starts, executor, dead, server,
                   health, jvm, hook, timedOut, failed>>

EndCall(s) ==
    /\ Running /\ calls[s] > 0
    /\ calls' = [calls EXCEPT ![s] = @ - 1]
    /\ UNCHANGED <<enabled, combined, main, starts, executor, dead, server,
                   health, jvm, hook, timedOut, failed, cut>>

Terminates(s) ==
    /\ Running /\ server[s].stage = "shutdown" /\ calls[s] = 0
    /\ server' = [server EXCEPT ![s].stage = "terminated"]
    /\ UNCHANGED <<enabled, combined, main, starts, executor, dead, calls,
                   health, jvm, hook, timedOut, failed, cut>>

-----------------------------------------------------------------------------
Next ==
    \/ CallStart \/ StartStep \/ \E s \in Servers : StartThrows(s)
    \/ CallBlock \/ Block
    \/ JvmStops \/ JvmHalts \/ HookStep
    \/ \E s \in Servers : OpenCall(s) \/ EndCall(s) \/ Terminates(s)

Spec == Init /\ [][Next]_vars

\* The JVM runs the hook it has begun, timeouts fire, and it halts after it.
\* Nobody has to start, to signal or to hang up.
FairSpec == Spec /\ WF_vars(HookStep) /\ WF_vars(JvmHalts)

-----------------------------------------------------------------------------
(* Properties.                                                              *)

\* The fields of ServiceCallout and the places of its two threads; grpcExecutor
\* is a dead executor at the end of stop() only.
JavaTypeOK ==
    /\ enabled \subseteq Servers /\ combined \in BOOLEAN
    /\ main \in MainStages /\ starts \in 0..MaxStarts
    /\ executor \in 0..starts /\ dead \subseteq 1..starts
    /\ executor \in dead => hook \in {"wait executor", "health", "done"}
    /\ server \in [Servers -> Server] /\ calls \in [Servers -> 0..MaxCalls]
    /\ health \in {"created", "on", "off"}
    /\ jvm \in {"up", "stopping", "halted"} /\ hook \in HookStages
    /\ timedOut \in BOOLEAN /\ failed \in BOOLEAN /\ cut \in BOOLEAN

\* When start() has returned, and until stop() begins, every server that was
\* asked for listens and has the executor of this start(), which is alive and
\* which stop() will find: failed and repeated starts in any order included.
StartedMeansServing ==
    main \in {"started", "block secure", "block plain"} /\ hook = "registered" =>
      /\ executor \notin dead
      /\ \A s \in enabled : server[s] = [stage |-> "listening", exec |-> executor]

\* stop() is graceful (its comment): once the hook is there, a call is cut off
\* only after one of the timeouts, unless a start() failed half way before.
GracefulStop == cut /\ hook # "none" => timedOut \/ failed

\* blockUntilShutdown() returns when no server takes or serves calls any more.
ReturnedMeansTerminated ==
    main = "returned" => \A s \in Servers : Ended(s) /\ calls[s] = 0

\* A JVM that shuts down halts, whatever the calls do: stop() waits for nobody
\* without a limit.
ShutdownHalts == jvm = "stopping" ~> jvm = "halted"
=============================================================================
