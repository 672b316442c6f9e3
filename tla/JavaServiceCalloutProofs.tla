---------------------- MODULE JavaServiceCalloutProofs ----------------------
(* Safety of the life cycle of ServiceCallout, for any number of start()     *)
(* calls and of open calls.                                                  *)
EXTENDS JavaServiceCallout, TLAPS

\* The stages of start() after the executor was made.
Starting == {"secure", "plain", "health", "register"}

\* The places of the hook after it has stopped the executor.
AfterExecutor == {"wait executor", "health", "done"}

Serves(s) == server[s] = [stage |-> "listening", exec |-> executor]

\* start() has an executor for as long as it may shut it down, and so has
\* stop(), which does not run before start() is done.
ExecutorInv ==
    /\ main \in Starting => executor # 0 /\ hook = "none"
    /\ hook # "none" => executor # 0

\* What start() has done so far, and that only stop() undoes it.
StartInv ==
    /\ main = "plain" /\ "secure" \in enabled => Serves("secure")
    /\ main \in {"health", "register"} => \A s \in enabled : Serves(s)
    /\ hook # "none" <=> main \notin Starting \cup {"idle"}
    /\ hook = "registered" => \A s \in enabled : Serves(s)

\* What stop() has done so far: a server whose termination it did not see is
\* one for which a timeout ran out.
StopInv ==
    /\ hook = "none" =>
          \A s \in Servers : server[s].stage \in {"null", "listening"}
    /\ hook \notin {"none", "registered"} => server["secure"].stage # "listening"
    /\ hook \in {"wait plain", "executor"} \cup AfterExecutor =>
          server["plain"].stage # "listening"
    /\ hook \in {"shutdown plain", "wait plain", "executor"} \cup AfterExecutor
          => timedOut \/ Ended("secure")
    /\ hook \in {"executor"} \cup AfterExecutor => timedOut \/ Ended("plain")

\* Calls are open on servers that have not ended; they lose their executor by a
\* timeout, by a start() that failed half way, or with a JVM that halts without
\* a hook.
CallsInv ==
    /\ \A s \in Servers : calls[s] > 0 => ~Ended(s)
    /\ \A s \in Servers :
          server[s].stage = "listening" /\ server[s].exec \in dead => failed
    /\ cut => timedOut \/ failed \/ (jvm = "halted" /\ hook = "none")

\* How far blockUntilShutdown() has come.
BlockInv ==
    /\ main \in {"block plain", "returned"} => Ended("secure")
    /\ main = "returned" => Ended("plain")

\* Type correctness, with what it needs to be inductive.
LEMMA JavaTypeInvariant == Spec => [](JavaTypeOK /\ ExecutorInv)
<1>1. Init => JavaTypeOK /\ ExecutorInv
  <2> SUFFICES ASSUME Init PROVE JavaTypeOK /\ ExecutorInv
    OBVIOUS
  <2>1. timedOut \in BOOLEAN /\ failed \in BOOLEAN /\ cut \in BOOLEAN
    BY Zenon DEF Init
  <2>2. combined \in BOOLEAN
    BY Zenon DEF Init
  <2>3. server \in [Servers -> Server]
    BY BoundsAssumption DEF Init, NoServer, Server
  <2> QED
    BY <2>1, <2>2, <2>3, BoundsAssumption
    DEF Init, JavaTypeOK, MainStages, HookStages, ExecutorInv, Starting
<1>2. JavaTypeOK /\ ExecutorInv /\ [Next]_vars => JavaTypeOK'
  <2> SUFFICES ASSUME JavaTypeOK, ExecutorInv, [Next]_vars PROVE JavaTypeOK'
    OBVIOUS
  <2>a. /\ starts \in 0..MaxStarts
        /\ executor \in 0..starts /\ dead \subseteq 1..starts
        /\ executor \in dead => hook \in AfterExecutor
    BY DEF JavaTypeOK, AfterExecutor
  <2>b. /\ server \in [Servers -> Server] /\ calls \in [Servers -> 0..MaxCalls]
        /\ MaxStarts \in Nat /\ MaxCalls \in Nat
    BY BoundsAssumption DEF JavaTypeOK
  <2>c. timedOut \in BOOLEAN /\ failed \in BOOLEAN /\ cut \in BOOLEAN
    BY DEF JavaTypeOK
  <2>0. executor \in 0..MaxStarts /\ starts \in Nat
    BY <2>a, <2>b
  <2>1. CASE CallStart
    <3>1. main' \in MainStages
      BY <2>1 DEF CallStart, MainStages
    <3>2. starts' = starts + 1 /\ starts' \in 0..MaxStarts
      BY <2>a, <2>b, <2>1 DEF CallStart
    <3>3. /\ executor' \in 0..starts' /\ dead \subseteq 1..starts'
          /\ executor' \in dead => executor' = executor
      BY <2>a, <2>0, <2>1, <3>2 DEF CallStart
    <3> QED
      BY <2>1, <3>1, <3>2, <3>3 DEF JavaTypeOK, CallStart
  <2>2. ASSUME NEW s \in Servers, StartServer(s) PROVE JavaTypeOK'
    <3>1. main' \in MainStages
      BY <2>2 DEF StartServer, After, MainStages
    <3>2. [stage |-> "listening", exec |-> executor] \in Server
      BY <2>0 DEF Server
    <3>3. server' \in [Servers -> Server]
      BY <2>b, <2>2, <3>2 DEF StartServer
    <3> QED
      BY <2>2, <3>1, <3>3 DEF JavaTypeOK, StartServer
  <2>3. CASE StartHealth
    BY <2>3 DEF JavaTypeOK, StartHealth, MainStages
  <2>4. CASE Register
    <3>1. executor \notin dead
      BY <2>a, <2>4 DEF Register, ExecutorInv, Starting, AfterExecutor
    <3> QED
      BY <2>4, <3>1 DEF JavaTypeOK, Register, MainStages, HookStages
  <2>5. ASSUME NEW s \in Servers, StartThrows(s) PROVE JavaTypeOK'
    <3>1. cut' \in BOOLEAN /\ failed' \in BOOLEAN
      BY <2>c, <2>5, Zenon DEF StartThrows
    <3>2. main' \in MainStages
      BY <2>5 DEF StartThrows, MainStages
    <3>3. executor # 0
      BY <2>5 DEF StartThrows, ExecutorInv, Servers, Starting
    <3>4. dead' \subseteq 1..starts /\ executor' \in 0..starts /\ executor' \notin dead'
      <4>1. executor \in 1..starts /\ 0 \notin 1..starts
        BY <2>a, <2>0, <3>3
      <4>2. dead' = dead \cup {executor} /\ executor' = 0
        BY <2>5 DEF StartThrows
      <4>3. dead' \subseteq 1..starts
        BY <2>a, <4>1, <4>2
      <4> QED
        BY <2>0, <4>1, <4>2, <4>3
    <3> QED
      BY <2>5, <3>1, <3>2, <3>4 DEF JavaTypeOK, StartThrows
  <2>6. CASE CallBlock \/ Block
    BY <2>6 DEF JavaTypeOK, CallBlock, Block, MainStages
  <2>7. CASE JvmStops
    BY <2>7 DEF JavaTypeOK, JvmStops
  <2>8. CASE JvmHalts
    <3>1. cut' \in BOOLEAN
      BY <2>c, <2>8, Zenon DEF JvmHalts
    <3> QED
      BY <2>8, <3>1 DEF JavaTypeOK, JvmHalts
  <2>9. CASE StopSecure \/ StopPlain
    <3>1. hook' \in HookStages
      BY <2>9 DEF StopSecure, StopPlain, HookStages
    <3>2. server' \in [Servers -> Server]
      BY <2>b, <2>9 DEF StopSecure, StopPlain, ShutDown, Server
    <3> QED
      BY <2>9, <3>1, <3>2 DEF JavaTypeOK, StopSecure, StopPlain
  <2>10. CASE \/ Await("secure", "wait secure", "shutdown plain")
              \/ Await("plain", "wait plain", "executor")
    <3>1. timedOut' \in BOOLEAN
      BY <2>c, <2>10, Zenon DEF Await
    <3>2. hook' \in HookStages
      BY <2>10 DEF Await, HookStages
    <3> QED
      BY <2>10, <3>1, <3>2 DEF JavaTypeOK, Await
  <2>11. CASE StopExecutor
    <3>1. cut' \in BOOLEAN
      BY <2>c, <2>11, Zenon DEF StopExecutor
    <3>2. hook' = "wait executor" /\ hook' \in HookStages
      BY <2>11 DEF StopExecutor, HookStages
    <3>3. dead' \subseteq 1..starts
      <4>1. executor # 0 => executor \in 1..starts
        BY <2>a, <2>0
      <4> QED
        BY <2>a, <2>11, <4>1 DEF StopExecutor
    <3> QED
      BY <2>11, <3>1, <3>2, <3>3 DEF JavaTypeOK, StopExecutor
  <2>12. CASE ExecutorStopped \/ StopHealth
    BY <2>12 DEF JavaTypeOK, ExecutorStopped, StopHealth, HookStages
  <2>13. ASSUME NEW s \in Servers, OpenCall(s) PROVE JavaTypeOK'
    <3>1. cut' \in BOOLEAN
      BY <2>c, <2>13, Zenon DEF OpenCall
    <3>2. calls' \in [Servers -> 0..MaxCalls]
      BY <2>b, <2>13 DEF OpenCall
    <3> QED
      BY <2>13, <3>1, <3>2 DEF JavaTypeOK, OpenCall
  <2>14. ASSUME NEW s \in Servers, EndCall(s) PROVE JavaTypeOK'
    <3>1. calls' \in [Servers -> 0..MaxCalls]
      BY <2>b, <2>14 DEF EndCall
    <3> QED
      BY <2>14, <3>1 DEF JavaTypeOK, EndCall
  <2>16. ASSUME NEW s \in Servers, Terminates(s) PROVE JavaTypeOK'
    <3>1. server' \in [Servers -> Server]
      BY <2>b, <2>16 DEF Terminates, Server
    <3> QED
      BY <2>16, <3>1 DEF JavaTypeOK, Terminates
  <2>15. CASE UNCHANGED vars
    BY <2>15 DEF JavaTypeOK, vars
  <2> QED
    BY <2>1, <2>2, <2>3, <2>4, <2>5, <2>6, <2>7, <2>8, <2>9, <2>10, <2>11,
       <2>12, <2>13, <2>14, <2>15, <2>16 DEF Next, StartStep, HookStep
<1>3. JavaTypeOK /\ ExecutorInv /\ [Next]_vars => ExecutorInv'
  <2> SUFFICES ASSUME JavaTypeOK, ExecutorInv, [Next]_vars PROVE ExecutorInv'
    OBVIOUS
  <2> USE DEF ExecutorInv, Starting
  <2>1. CASE CallStart
    <3>0. starts \in 0..MaxStarts
      BY DEF JavaTypeOK
    <3>1. starts + 1 # 0
      BY <3>0, BoundsAssumption
    <3> QED
      BY <2>1, <3>1 DEF CallStart
  <2>2. ASSUME NEW s \in Servers, StartServer(s) \/ StartThrows(s)
        PROVE ExecutorInv'
    BY <2>2 DEF StartServer, StartThrows, After, Servers
  <2>3. CASE StartHealth \/ Register
    BY <2>3 DEF StartHealth, Register
  <2>4. CASE CallBlock \/ Block
    BY <2>4 DEF CallBlock, Block
  <2>5. CASE UNCHANGED <<main, executor, hook>>
    BY <2>5
  <2>6. CASE JvmStops \/ JvmHalts \/ HookStep
    BY <2>6 DEF JvmStops, JvmHalts, HookStep, StopSecure, StopPlain, Await,
           StopExecutor, ExecutorStopped, StopHealth
  <2>7. ASSUME NEW s \in Servers
        PROVE OpenCall(s) \/ EndCall(s) \/ Terminates(s) =>
                 UNCHANGED <<main, executor, hook>>
    BY DEF OpenCall, EndCall, Terminates
  <2> QED
    BY <2>1, <2>2, <2>3, <2>4, <2>5, <2>6, <2>7 DEF Next, StartStep, vars
<1> QED
  BY <1>1, <1>2, <1>3, PTL DEF Spec

\* The fields of ServiceCallout keep their types, and grpcExecutor is alive
\* until stop() shuts it down.
THEOREM JavaTypeCorrect == Spec => []JavaTypeOK
  BY JavaTypeInvariant, PTL

-----------------------------------------------------------------------------
\* What the steps of a server do to the two records.
LEMMA ShutDownEffect ==
    ASSUME server \in [Servers -> Server], NEW s \in Servers, ShutDown(s)
    PROVE  /\ server'[s].stage # "listening"
           /\ server[s].stage # "listening" => server'[s].stage = server[s].stage
           /\ \A t \in Servers \ {s} : server'[t] = server[t]
           /\ \A t \in Servers : server'[t].exec = server[t].exec
  BY DEF ShutDown, Server

\* shutdown() does not end a server that is not ended: its calls go on.
LEMMA ShutDownNotEnded ==
    ASSUME server \in [Servers -> Server], NEW s \in Servers, ShutDown(s),
           NEW t \in Servers, ~Ended(t)
    PROVE  ~Ended(t)'
  BY DEF ShutDown, Server, Ended

LEMMA TerminatesEffect ==
    ASSUME server \in [Servers -> Server], NEW s \in Servers, Terminates(s)
    PROVE  /\ server[s].stage = "shutdown" /\ calls[s] = 0
           /\ server'[s].stage = "terminated"
           /\ \A t \in Servers \ {s} : server'[t] = server[t]
           /\ UNCHANGED <<enabled, main, executor, dead, calls, jvm, hook,
                          timedOut, failed, cut>>
  BY DEF Terminates, Server

LEMMA StartServerEffect ==
    ASSUME server \in [Servers -> Server], NEW s \in Servers, StartServer(s)
    PROVE  /\ main = s /\ main' = After(s)
           /\ s \in enabled => /\ server[s].stage \notin {"listening", "shutdown"}
                               /\ server'[s] = [stage |-> "listening",
                                                exec |-> executor]
           /\ s \notin enabled => server'[s] = server[s]
           /\ \A t \in Servers \ {s} : server'[t] = server[t]
           /\ UNCHANGED <<enabled, executor, dead, calls, jvm, hook, timedOut,
                          failed, cut>>
  BY DEF StartServer

\* start() leaves every server it was asked for listening with its executor.
LEMMA StartInvariant == Spec => []StartInv
<1>1. Init => StartInv
  BY DEF Init, StartInv, Starting
<1>2. JavaTypeOK /\ ExecutorInv /\ StartInv /\ [Next]_vars => StartInv'
  <2> SUFFICES ASSUME JavaTypeOK, ExecutorInv, StartInv, [Next]_vars
               PROVE StartInv'
    OBVIOUS
  <2>a. server \in [Servers -> Server] /\ enabled \subseteq Servers
    BY DEF JavaTypeOK
  <2> USE DEF StartInv, Starting, Serves, ExecutorInv
  <2>1. CASE CallStart
    BY <2>1 DEF CallStart
  <2>2. ASSUME NEW s \in Servers, StartServer(s) PROVE StartInv'
    <3>1. /\ hook' = "none" /\ UNCHANGED <<enabled, executor>>
          /\ s \in enabled => Serves(s)'
          /\ \A t \in Servers \ {s} : Serves(t) => Serves(t)'
      BY <2>a, <2>2, StartServerEffect DEF Servers
    <3>2. CASE s = "secure"
      <4>1. main' = "plain"
        BY <2>a, <2>2, <3>2, StartServerEffect DEF After
      <4> QED
        BY <3>1, <3>2, <4>1
    <3>3. CASE s = "plain"
      <4>1. main = "plain" /\ main' = "health"
        BY <2>a, <2>2, <3>3, StartServerEffect DEF After
      <4>2. \A t \in enabled : Serves(t)'
        BY <2>a, <3>1, <3>3, <4>1 DEF Servers
      <4> QED
        BY <3>1, <4>1, <4>2
    <3> QED
      BY <3>2, <3>3 DEF Servers
  <2>3. CASE StartHealth
    BY <2>3 DEF StartHealth
  <2>4. CASE Register
    BY <2>4 DEF Register
  <2>5. ASSUME NEW s \in Servers, StartThrows(s) PROVE StartInv'
    BY <2>5 DEF StartThrows, Servers
  <2>6. CASE CallBlock \/ Block
    BY <2>6 DEF CallBlock, Block
  <2>7. CASE JvmStops \/ JvmHalts
    BY <2>7 DEF JvmStops, JvmHalts
  <2>8. CASE StopSecure \/ StopPlain
    BY <2>8 DEF StopSecure, StopPlain
  <2>9. CASE \/ Await("secure", "wait secure", "shutdown plain")
             \/ Await("plain", "wait plain", "executor")
             \/ StopExecutor \/ ExecutorStopped \/ StopHealth
    BY <2>9 DEF Await, StopExecutor, ExecutorStopped, StopHealth
  <2>10. ASSUME NEW s \in Servers, OpenCall(s) \/ EndCall(s) PROVE StartInv'
    BY <2>10 DEF OpenCall, EndCall
  <2>11. ASSUME NEW s \in Servers, Terminates(s) PROVE StartInv'
    <3>1. ~Serves(s)
      BY <2>a, <2>11, TerminatesEffect
    <3> QED
      BY <2>a, <2>11, <3>1, TerminatesEffect DEF Servers
  <2>12. CASE UNCHANGED vars
    BY <2>12 DEF vars
  <2> QED
    BY <2>1, <2>2, <2>3, <2>4, <2>5, <2>6, <2>7, <2>8, <2>9, <2>10, <2>11,
       <2>12 DEF Next, StartStep, HookStep
<1> QED
  BY <1>1, <1>2, JavaTypeInvariant, PTL DEF Spec

\* A start() that returned has started every server that was asked for, with an
\* executor that lives until stop(), however many start() calls have failed or
\* been refused.
THEOREM StartedMeansServingTheorem == Spec => []StartedMeansServing
<1>1. JavaTypeOK /\ StartInv => StartedMeansServing
  BY DEF JavaTypeOK, StartInv, StartedMeansServing, Serves
<1> QED
  BY <1>1, JavaTypeCorrect, StartInvariant, PTL

-----------------------------------------------------------------------------
\* stop() leaves a server that has not ended only after a timeout.
LEMMA StopInvariant == Spec => []StopInv
<1>1. Init => StopInv
  BY DEF Init, StopInv, NoServer, AfterExecutor, Servers
<1>2. JavaTypeOK /\ ExecutorInv /\ StopInv /\ [Next]_vars => StopInv'
  <2> SUFFICES ASSUME JavaTypeOK, ExecutorInv, StopInv, [Next]_vars
               PROVE StopInv'
    OBVIOUS
  <2>a. server \in [Servers -> Server] /\ Servers = {"secure", "plain"}
    BY DEF JavaTypeOK, Servers
  <2> USE DEF StopInv, AfterExecutor, Ended
  <2>1. CASE CallStart
    BY <2>1 DEF CallStart
  <2>2. ASSUME NEW s \in Servers, StartServer(s) PROVE StopInv'
    <3>1. hook = "none" /\ hook' = "none"
      BY <2>a, <2>2, StartServerEffect DEF ExecutorInv, Starting
    <3> QED
      BY <2>a, <2>2, <3>1, StartServerEffect
  <2>3. CASE StartHealth
    BY <2>3 DEF StartHealth
  <2>4. CASE Register
    BY <2>4 DEF Register
  <2>5. ASSUME NEW s \in Servers, StartThrows(s) PROVE StopInv'
    BY <2>5 DEF StartThrows
  <2>6. CASE CallBlock \/ Block
    BY <2>6 DEF CallBlock, Block
  <2>7. CASE JvmStops \/ JvmHalts
    BY <2>7 DEF JvmStops, JvmHalts
  <2>8. CASE StopSecure
    BY <2>a, <2>8, ShutDownEffect DEF StopSecure
  <2>9. CASE StopPlain
    BY <2>a, <2>9, ShutDownEffect DEF StopPlain
  <2>10. CASE \/ Await("secure", "wait secure", "shutdown plain")
              \/ Await("plain", "wait plain", "executor")
    BY <2>10 DEF Await
  <2>11. CASE StopExecutor \/ ExecutorStopped \/ StopHealth
    BY <2>11 DEF StopExecutor, ExecutorStopped, StopHealth
  <2>12. ASSUME NEW s \in Servers, OpenCall(s) \/ EndCall(s) PROVE StopInv'
    BY <2>12 DEF OpenCall, EndCall
  <2>13. ASSUME NEW s \in Servers, Terminates(s) PROVE StopInv'
    BY <2>a, <2>13, TerminatesEffect
  <2>14. CASE UNCHANGED vars
    BY <2>14 DEF vars
  <2> QED
    BY <2>1, <2>2, <2>3, <2>4, <2>5, <2>6, <2>7, <2>8, <2>9, <2>10, <2>11,
       <2>12, <2>13, <2>14 DEF Next, StartStep, HookStep
<1> QED
  BY <1>1, <1>2, JavaTypeInvariant, PTL DEF Spec

\* An open call loses its executor only as CallsInv says.
LEMMA CallsInvariant == Spec => []CallsInv
<1>1. Init => CallsInv
  BY DEF Init, CallsInv, NoServer
<1>2. JavaTypeOK /\ ExecutorInv /\ StartInv /\ StopInv /\ CallsInv
        /\ [Next]_vars => CallsInv'
  <2> SUFFICES ASSUME JavaTypeOK, ExecutorInv, StartInv, StopInv, CallsInv,
                      [Next]_vars
               PROVE CallsInv'
    OBVIOUS
  <2>a. /\ server \in [Servers -> Server] /\ Servers = {"secure", "plain"}
        /\ calls \in [Servers -> 0..MaxCalls] /\ MaxCalls \in Nat
    BY BoundsAssumption DEF JavaTypeOK, Servers
  <2>b. executor \in dead => hook \in AfterExecutor
    BY DEF JavaTypeOK, AfterExecutor
  <2>c. \A s \in Servers :
           server[s].stage \in {"null", "listening", "shutdown", "terminated"}
    BY <2>a DEF Server
  <2> USE DEF CallsInv
  <2>1. CASE CallStart \/ StartHealth \/ CallBlock \/ Block
    <3>1. UNCHANGED <<dead, server, calls, jvm, hook, timedOut, failed, cut>>
      BY <2>1 DEF CallStart, StartHealth, CallBlock, Block
    <3> QED
      BY <3>1 DEF Ended
  <2>2. ASSUME NEW s \in Servers, StartServer(s) PROVE CallsInv'
    <3>1. executor \notin dead
      BY <2>a, <2>b, <2>2, StartServerEffect
      DEF ExecutorInv, Starting, AfterExecutor
    <3> QED
      BY <2>a, <2>2, <3>1, StartServerEffect DEF Ended
  <2>3. CASE Register
    BY <2>3 DEF Register, Ended, Running
  <2>4. ASSUME NEW s \in Servers, StartThrows(s) PROVE CallsInv'
    <3>1. hook = "none"
      BY <2>a, <2>4 DEF StartThrows, ExecutorInv, Starting
    <3>2. \A t \in Servers : calls[t] > 0 => server[t].stage = "listening"
      BY <3>1 DEF StopInv, Ended
    <3>3. \/ failed'
          \/ ~failed /\ \A t \in Servers : server[t].stage # "listening"
      BY <2>4 DEF StartThrows
    <3>4. cut' => cut \/ failed'
      BY <2>4, <3>2, <3>3 DEF StartThrows
    <3> QED
      BY <2>4, <3>3, <3>4 DEF StartThrows, Ended
  <2>5. CASE JvmStops
    BY <2>5 DEF JvmStops, Ended
  <2>6. CASE JvmHalts
    <3>1. OpenCalls => hook = "none" \/ timedOut
      BY <2>a, <2>6 DEF JvmHalts, OpenCalls, StopInv, AfterExecutor
    <3> QED
      BY <2>6, <3>1 DEF JvmHalts, Ended
  <2>7. CASE StopSecure
    <3>1. /\ UNCHANGED <<dead, calls, jvm, timedOut, failed, cut>>
          /\ ShutDown("secure") /\ hook # "none" /\ jvm # "halted"
      BY <2>7 DEF StopSecure, Running
    <3>2. \A s \in Servers :
             /\ server'[s].stage = "listening" => server'[s] = server[s]
             /\ calls[s] > 0 => ~Ended(s)'
      BY <2>a, <2>c, <3>1, ShutDownEffect, ShutDownNotEnded DEF Ended
    <3> QED
      BY <3>1, <3>2 DEF Ended
  <2>8. CASE StopPlain
    <3>1. /\ UNCHANGED <<dead, calls, jvm, timedOut, failed, cut>>
          /\ ShutDown("plain") /\ hook # "none" /\ jvm # "halted"
      BY <2>8 DEF StopPlain, Running
    <3>2. \A s \in Servers :
             /\ server'[s].stage = "listening" => server'[s] = server[s]
             /\ calls[s] > 0 => ~Ended(s)'
      BY <2>a, <2>c, <3>1, ShutDownEffect, ShutDownNotEnded DEF Ended
    <3> QED
      BY <3>1, <3>2 DEF Ended
  <2>9. CASE \/ Await("secure", "wait secure", "shutdown plain")
             \/ Await("plain", "wait plain", "executor")
    <3>1. /\ UNCHANGED <<dead, server, calls, jvm, failed, cut>>
          /\ hook # "none"
          /\ timedOut => timedOut'
      BY <2>9 DEF Await
    <3> QED
      BY <3>1 DEF Ended
  <2>10. CASE StopExecutor
    <3>1. \A s \in Servers : server[s].stage # "listening"
      BY <2>a, <2>10 DEF StopExecutor, StopInv
    <3>2. (\E s \in Servers : calls[s] > 0) => timedOut
      BY <2>a, <2>10 DEF StopExecutor, StopInv
    <3> QED
      BY <2>10, <3>1, <3>2 DEF StopExecutor, Ended, Running
  <2>11. CASE ExecutorStopped \/ StopHealth
    <3>1. /\ UNCHANGED <<dead, server, calls, jvm, timedOut, failed, cut>>
          /\ hook # "none"
      BY <2>11 DEF ExecutorStopped, StopHealth
    <3> QED
      BY <3>1 DEF Ended
  <2>12. ASSUME NEW s \in Servers, OpenCall(s) PROVE CallsInv'
    BY <2>a, <2>12 DEF OpenCall, Ended
  <2>13. ASSUME NEW s \in Servers, EndCall(s) PROVE CallsInv'
    <3>1. \A t \in Servers : calls'[t] > 0 => calls[t] > 0
      BY <2>a, <2>13 DEF EndCall
    <3> QED
      BY <2>13, <3>1 DEF EndCall, Ended
  <2>14. ASSUME NEW s \in Servers, Terminates(s) PROVE CallsInv'
    BY <2>a, <2>14, TerminatesEffect DEF Ended
  <2>15. CASE UNCHANGED vars
    BY <2>15 DEF vars, Ended
  <2> QED
    BY <2>1, <2>2, <2>3, <2>4, <2>5, <2>6, <2>7, <2>8, <2>9, <2>10, <2>11,
       <2>12, <2>13, <2>14, <2>15 DEF Next, StartStep, HookStep
<1> QED
  BY <1>1, <1>2, JavaTypeInvariant, StartInvariant, StopInvariant, PTL DEF Spec

\* Once its hook is registered, ServiceCallout cuts a call only after a timeout
\* of stop(), unless a start() failed half way.
THEOREM GracefulStopTheorem == Spec => []GracefulStop
<1>1. CallsInv => GracefulStop
  BY DEF CallsInv, GracefulStop
<1> QED
  BY <1>1, CallsInvariant, PTL

\* Servers that blockUntilShutdown() has seen to end stay ended.
LEMMA BlockInvariant == Spec => []BlockInv
<1>1. Init => BlockInv
  BY DEF Init, BlockInv
<1>2. JavaTypeOK /\ ExecutorInv /\ StartInv /\ BlockInv /\ [Next]_vars => BlockInv'
  <2> SUFFICES ASSUME JavaTypeOK, ExecutorInv, StartInv, BlockInv, [Next]_vars
               PROVE BlockInv'
    OBVIOUS
  <2>a. server \in [Servers -> Server] /\ Servers = {"secure", "plain"}
    BY DEF JavaTypeOK, Servers
  <2> USE DEF BlockInv, Ended
  <2>1. CASE CallStart \/ StartHealth \/ Register
    BY <2>1 DEF CallStart, StartHealth, Register
  <2>2. ASSUME NEW s \in Servers, StartServer(s) \/ StartThrows(s)
        PROVE BlockInv'
    BY <2>a, <2>2, StartServerEffect DEF After, StartThrows
  <2>3. CASE CallBlock \/ Block
    BY <2>3 DEF CallBlock, Block
  <2>4. CASE JvmStops \/ JvmHalts
    BY <2>4 DEF JvmStops, JvmHalts
  <2>5. CASE StopSecure
    BY <2>a, <2>5, ShutDownEffect DEF StopSecure
  <2>6. CASE StopPlain
    BY <2>a, <2>6, ShutDownEffect DEF StopPlain
  <2>7. CASE \/ Await("secure", "wait secure", "shutdown plain")
             \/ Await("plain", "wait plain", "executor")
             \/ StopExecutor \/ ExecutorStopped \/ StopHealth
    BY <2>7 DEF Await, StopExecutor, ExecutorStopped, StopHealth
  <2>8. ASSUME NEW s \in Servers, OpenCall(s) \/ EndCall(s) PROVE BlockInv'
    BY <2>8 DEF OpenCall, EndCall
  <2>9. ASSUME NEW s \in Servers, Terminates(s) PROVE BlockInv'
    BY <2>a, <2>9, TerminatesEffect
  <2>10. CASE UNCHANGED vars
    BY <2>10 DEF vars
  <2> QED
    BY <2>1, <2>2, <2>3, <2>4, <2>5, <2>6, <2>7, <2>8, <2>9, <2>10
    DEF Next, StartStep, HookStep
<1> QED
  BY <1>1, <1>2, JavaTypeInvariant, StartInvariant, PTL DEF Spec

\* blockUntilShutdown() returns only when no server takes or serves calls.
THEOREM ReturnedMeansTerminatedTheorem == Spec => []ReturnedMeansTerminated
<1>1. JavaTypeOK /\ CallsInv /\ BlockInv => ReturnedMeansTerminated
  <2> SUFFICES ASSUME JavaTypeOK, CallsInv, BlockInv, main = "returned",
                      NEW s \in Servers
               PROVE Ended(s) /\ calls[s] = 0
    BY DEF ReturnedMeansTerminated
  <2>1. Ended(s)
    BY DEF BlockInv, Servers
  <2>2. calls[s] \in 0..MaxCalls
    BY DEF JavaTypeOK
  <2> QED
    BY <2>1, <2>2, BoundsAssumption DEF CallsInv
<1> QED
  BY <1>1, JavaTypeCorrect, CallsInvariant, BlockInvariant, PTL
=============================================================================
