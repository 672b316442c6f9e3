------------------------- MODULE LuaCoroutineProofs -------------------------
(* Theorems about LuaCoroutine, for any number of coroutines, any script and *)
(* any order of calls.                                                       *)
EXTENDS LuaCoroutine, TLAPS

\* What the record updates of the native code keep: a coroutine stays one.
LEMMA NewCoroutineType == NewCoroutine \in Coroutine
BY DEF NewCoroutine, Coroutine, ExecutionStates, YieldReasons

LEMMA BodyArrivedType ==
    ASSUME NEW c \in Coroutine, NEW data \in BOOLEAN, NEW end \in BOOLEAN
    PROVE  BodyArrived(c, data, end) \in Coroutine
BY DEF BodyArrived, Coroutine

LEMMA GotoType ==
    ASSUME CoTypeOK, NEW s \in Streams, NEW c \in Coroutine,
           NEW stage \in Stages \ {"idle", "script"}, NEW status \in {"ok", "error"},
           on' = s, Goto(s, stage, c, status), UNCHANGED <<steps, lateMutation>>
    PROVE  CoTypeOK'
<1>1. co' \in [Streams -> Coroutine]
  BY DEF CoTypeOK, Goto
<1>2. (pc' = "idle" <=> on' = NoStream) /\ pc' \in Stages
  BY StreamsAssumption DEF Goto
<1> QED BY <1>1, <1>2 DEF CoTypeOK, Goto

LEMMA ResumeWithType ==
    ASSUME CoTypeOK, NEW s \in Streams, NEW c \in Coroutine,
           NEW value \in Pushed, NEW next \in Stages \ {"idle", "script"},
           on' = s, ResumeWith(s, c, value, next),
           UNCHANGED <<steps, lateMutation>>
    PROVE  CoTypeOK'
<1> DEFINE cn == [c EXCEPT !.yield_reason = "kNone"]
           cx == [c EXCEPT !.yield_reason = "kNone", !.state = "kExited"]
<1>0. cn \in Coroutine /\ cx \in Coroutine
  BY DEF Coroutine, YieldReasons, ExecutionStates
<1>1. "returned" \in Stages \ {"idle", "script"} /\ "script" \in Stages
  BY DEF Stages
<1>2. CASE c.state = "kExited"
  BY <1>2, <1>1, GotoType DEF ResumeWith
<1>3. CASE c.state # "kExited" /\ ~CanResume(s)
  <2>1. Goto(s, "returned", cx, "error")
    BY <1>3 DEF ResumeWith
  <2> QED BY <2>1, <1>0, <1>1, GotoType
<1>4. CASE c.state # "kExited" /\ CanResume(s)
  <2>1. co' = [co EXCEPT ![s] = cn] /\ pc' = "script" /\ ret' = next
        /\ outcome' = "ok" /\ pushed' = value
    BY <1>4 DEF ResumeWith
  <2>2. co' \in [Streams -> Coroutine]
    BY <2>1, <1>0 DEF CoTypeOK
  <2>3. headerObjs' \in [Streams -> SUBSET {"guarded", "bare"}]
    BY <1>4 DEF ResumeWith, CoTypeOK
  <2>4. unread' \in [Streams -> BOOLEAN] /\ bodyCalled' \in [Streams -> BOOLEAN]
    BY <1>4 DEF ResumeWith, CoTypeOK
  <2>5. thread' = thread
    BY <1>4 DEF ResumeWith
  <2>6. pc' \in Stages /\ (pc' = "idle" <=> on' = NoStream)
    BY <2>1, <1>1, StreamsAssumption
  <2> QED BY <2>1, <2>2, <2>3, <2>4, <2>5, <2>6 DEF CoTypeOK
<1> QED BY <1>2, <1>3, <1>4

LEMMA GiveBackType ==
    ASSUME CoTypeOK, NEW s \in Streams, NEW c \in Coroutine,
           NEW threadState \in ThreadStates, Running(s),
           GiveBack(s, c, threadState), steps' \in [Streams -> 0..MaxSteps]
    PROVE  CoTypeOK'
BY StreamsAssumption DEF CoTypeOK, GiveBack, Running

LEMMA CallTypes ==
    ASSUME CoTypeOK, NEW s \in Streams, Call(s)
    PROVE  CoTypeOK'
<1>0. co[s] \in Coroutine
  BY DEF CoTypeOK
<1>1. /\ "returned" \in Stages \ {"idle", "script"}
      /\ "tail" \in Stages \ {"idle", "script"}
      /\ "chunks?" \in Stages \ {"idle", "script"}
      /\ "script" \in Stages
      /\ {"none", "handle", "headers", "buffer"} \subseteq Pushed
  BY DEF Stages, Pushed
<1>2. CASE Start(s)
  <2>1. CASE co[s].state # "kYielded" \/ ~Waits(co[s], "kWaitToStart")
    BY <1>2, <2>1, <1>0, <1>1, GotoType DEF Start
  <2>2. CASE /\ ~(co[s].state # "kYielded" \/ ~Waits(co[s], "kWaitToStart"))
             /\ thread[s] # "ready" \/ s \notin Defined
    <3> DEFINE c == [co[s] EXCEPT !.state = "kExited"]
    <3>1. c \in Coroutine
      BY <1>0 DEF Coroutine, ExecutionStates
    <3>2. /\ on' = s /\ UNCHANGED <<steps, lateMutation>>
          /\ Goto(s, "returned", c, "error")
      BY <1>2, <2>2 DEF Start
    <3> HIDE DEF c
    <3> QED BY <3>1, <3>2, <1>1, GotoType
  <2>3. CASE /\ ~(co[s].state # "kYielded" \/ ~Waits(co[s], "kWaitToStart"))
             /\ ~(thread[s] # "ready" \/ s \notin Defined)
    <3>1. /\ on' = s /\ pc' = "script" /\ ret' = "tail" /\ outcome' = "ok"
          /\ pushed' = "handle"
          /\ UNCHANGED <<co, thread, headerObjs, unread, bodyCalled, steps,
                         lateMutation>>
      BY <1>2, <2>3 DEF Start
    <3> QED BY <3>1, <1>1, StreamsAssumption DEF CoTypeOK
  <2> QED BY <2>1, <2>2, <2>3
<1>3. CASE Resume(s)
  BY <1>3, <1>0, <1>1, ResumeWithType DEF Resume
<1>4. ASSUME NEW end \in BOOLEAN, HandleHeaders(s, end)
      PROVE  CoTypeOK'
  <2> DEFINE c == [co[s] EXCEPT !.stream_ended = end, !.received_headers = TRUE]
  <2>1. c \in Coroutine
    BY <1>0 DEF Coroutine
  <2>2. /\ on' = s /\ UNCHANGED <<steps, lateMutation>>
        /\ ResumeWith(s, c, "headers", "tail") \/ Goto(s, "tail", c, "ok")
    BY <1>4 DEF HandleHeaders
  <2> HIDE DEF c
  <2> QED BY <2>1, <2>2, <1>1, ResumeWithType, GotoType
<1>5. ASSUME NEW data \in BOOLEAN, NEW end \in BOOLEAN,
             HandleBody(s, data, end)
      PROVE  CoTypeOK'
  <2> DEFINE c == BodyArrived(co[s], data, end)
             d == [c EXCEPT !.body_chunk_consumed = TRUE]
  <2>1. c \in Coroutine
    BY <1>0, BodyArrivedType
  <2>2. d \in Coroutine
    BY <2>1 DEF Coroutine
  <2>3. /\ on' = s /\ UNCHANGED <<steps, lateMutation>>
        /\ \/ Goto(s, "returned", co[s], "error")
           \/ ResumeWith(s, d, "buffer", "tail")
           \/ /\ co' = [co EXCEPT ![s] = c]
              /\ unread' = [unread EXCEPT ![s] = @ \/ data]
              /\ pc' \in {"returned", "tail"} /\ outcome' = "ok"
              /\ UNCHANGED <<thread, ret, pushed, headerObjs, bodyCalled>>
    BY <1>5 DEF HandleBody
  <2>4. CASE Goto(s, "returned", co[s], "error")
    BY <2>3, <2>4, <1>0, <1>1, GotoType
  <2>5. CASE ResumeWith(s, d, "buffer", "tail")
    <3> HIDE DEF d
    <3> QED BY <2>3, <2>5, <2>2, <1>1, ResumeWithType
  <2>6. CASE /\ co' = [co EXCEPT ![s] = c]
             /\ unread' = [unread EXCEPT ![s] = @ \/ data]
             /\ pc' \in {"returned", "tail"} /\ outcome' = "ok"
             /\ UNCHANGED <<thread, ret, pushed, headerObjs, bodyCalled>>
    <3> HIDE DEF c
    <3>1. co' \in [Streams -> Coroutine]
      BY <2>6, <2>1 DEF CoTypeOK
    <3>2. unread' \in [Streams -> BOOLEAN]
      BY <2>6 DEF CoTypeOK
    <3> QED BY <2>3, <2>6, <3>1, <3>2, <1>1, StreamsAssumption DEF CoTypeOK
  <2> QED BY <2>3, <2>4, <2>5, <2>6
<1>6. CASE HandleTrailers(s)
  <2> DEFINE c == [co[s] EXCEPT !.received_trailers = TRUE,
                                !.stream_ended = TRUE]
  <2>1. c \in Coroutine
    BY <1>0 DEF Coroutine
  <2>2. /\ on' = s /\ UNCHANGED <<steps, lateMutation>>
        /\ \/ Goto(s, "returned", co[s], "error")
           \/ Goto(s, "returned", c, "ok")
           \/ ResumeWith(s, c, "buffer", "chunks?")
           \/ Goto(s, "chunks?", c, "ok")
    BY <1>6 DEF HandleTrailers
  <2> HIDE DEF c
  <2> QED BY <2>1, <2>2, <1>0, <1>1, ResumeWithType, GotoType
<1> QED BY <1>2, <1>3, <1>4, <1>5, <1>6 DEF Call, FilterCall

LEMMA ReturnType ==
    ASSUME CoTypeOK, NEW s \in Streams, NEW mark \in BOOLEAN, Return(s, mark)
    PROVE  CoTypeOK'
<1>1. co' \in [Streams -> Coroutine]
  BY DEF CoTypeOK, Return, Coroutine
<1> QED BY <1>1 DEF CoTypeOK, Return, Stages, Pushed

LEMMA NativeTypes ==
    ASSUME CoTypeOK, NEW s \in Streams, Native(s)
    PROVE  CoTypeOK'
<1>0. co[s] \in Coroutine
  BY DEF CoTypeOK
<1>1. /\ {"returned", "tail", "trailers?", "loop"}
            \subseteq Stages \ {"idle", "script"}
      /\ {"nil", "trailers", "buffer"} \subseteq Pushed
  BY DEF Stages, Pushed
<1>2. CASE TrailersChunks(s)
  BY <1>2, <1>0, <1>1, ResumeWithType, GotoType DEF TrailersChunks
<1>3. CASE TrailersTrailers(s)
  BY <1>3, <1>0, <1>1, ResumeWithType, GotoType DEF TrailersTrailers
<1>4. CASE Tail(s)
  BY <1>4, <1>0, <1>1, GotoType DEF Tail
<1>5. CASE RunToCompletion(s)
  <2> DEFINE d == [co[s] EXCEPT !.body_chunk_consumed = TRUE]
  <2>1. d \in Coroutine
    BY <1>0 DEF Coroutine
  <2>2. /\ on' = s /\ UNCHANGED <<steps, lateMutation>>
        /\ \/ Goto(s, "returned", co[s], "ok")
           \/ ResumeWith(s, d, "buffer", "loop")
           \/ ResumeWith(s, co[s], "nil", "loop")
           \/ ResumeWith(s, co[s], "buffer", "loop")
           \/ ResumeWith(s, co[s], "trailers", "loop")
    BY <1>5 DEF RunToCompletion
  <2> HIDE DEF d
  <2> QED BY <2>1, <2>2, <1>0, <1>1, ResumeWithType, GotoType
<1> QED BY <1>2, <1>3, <1>4, <1>5 DEF Native

LEMMA YieldType ==
    ASSUME CoTypeOK, NEW s \in Streams, NEW reason \in YieldReasons,
           Running(s), Yield(s, reason), steps' \in [Streams -> 0..MaxSteps]
    PROVE  CoTypeOK'
<1> DEFINE c == [co[s] EXCEPT !.state = "kYielded", !.yield_reason = reason]
<1>0. co[s] \in Coroutine
  BY DEF CoTypeOK
<1>1. c \in Coroutine
  BY <1>0 DEF Coroutine, ExecutionStates
<1>2. CASE GiveBack(s, c, "yielded")
  <2>1. "yielded" \in ThreadStates
    BY DEF ThreadStates
  <2> HIDE DEF c
  <2> QED BY <1>1, <1>2, <2>1, GiveBackType
<1>3. CASE /\ co' = [co EXCEPT ![s] = c]
           /\ UNCHANGED <<thread, on, pc, ret, outcome, pushed, headerObjs,
                          unread, bodyCalled, lateMutation>>
  <2> HIDE DEF c
  <2>1. co' \in [Streams -> Coroutine]
    BY <1>1, <1>3 DEF CoTypeOK
  <2> QED BY <1>3, <2>1 DEF CoTypeOK
<1>4. [co EXCEPT ![s].state = "kYielded", ![s].yield_reason = reason]
        = [co EXCEPT ![s] = c]
  BY DEF CoTypeOK, Coroutine
<1> QED BY <1>2, <1>3, <1>4 DEF Yield

LEMMA ScriptTypes ==
    ASSUME CoTypeOK, NEW s \in Streams, Script(s)
    PROVE  CoTypeOK'
<1>0. /\ co[s] \in Coroutine
      /\ {"kWaitForHeaders", "kWaitForBody", "kWaitForTrailers",
          "kWaitForBodyChunks"} \subseteq YieldReasons
      /\ {"yielded", "finished"} \subseteq ThreadStates
  BY DEF CoTypeOK, YieldReasons, ThreadStates
<1>1. ASSUME Step(s)
      PROVE  Running(s) /\ steps' \in [Streams -> 0..MaxSteps]
  BY <1>1, ScriptAssumption DEF Step, CoTypeOK
<1>2. CASE ScriptHeaders(s)
  <2>1. CASE ~co[s].received_headers
    BY <1>0, <1>1, <1>2, <2>1, YieldType DEF ScriptHeaders
  <2>2. CASE co[s].received_headers
    BY <1>1, <1>2, <2>2 DEF ScriptHeaders, Continues, CoTypeOK
  <2> QED BY <2>1, <2>2
<1>3. CASE ScriptBody(s)
  <2>1. CASE ~co[s].received_body
    BY <1>0, <1>1, <1>3, <2>1, YieldType DEF ScriptBody
  <2>2. CASE co[s].received_body
    BY <1>1, <1>3, <2>2 DEF ScriptBody, Continues, CoTypeOK
  <2> QED BY <2>1, <2>2
<1>4. CASE ScriptTrailers(s)
  <2>1. CASE ~co[s].received_trailers
    BY <1>0, <1>1, <1>4, <2>1, YieldType DEF ScriptTrailers
  <2>2. CASE co[s].received_trailers
    BY <1>1, <1>4, <2>2 DEF ScriptTrailers, Continues, CoTypeOK
  <2> QED BY <2>1, <2>2
<1>5. CASE ScriptNextChunk(s)
  BY <1>0, <1>1, <1>5, YieldType DEF ScriptNextChunk
<1>6. CASE ScriptMutate(s)
  <2>1. lateMutation' \in [Streams -> BOOLEAN]
    BY <1>0, <1>6 DEF ScriptMutate, CoTypeOK, Coroutine
  <2> QED BY <1>1, <1>6, <2>1 DEF ScriptMutate, Continues, CoTypeOK
<1>7. CASE ScriptRawYield(s)
  <2> DEFINE c == [co[s] EXCEPT !.state = "kYielded"]
  <2>1. c \in Coroutine /\ GiveBack(s, c, "yielded")
    BY <1>0, <1>7 DEF ScriptRawYield, Coroutine, ExecutionStates
  <2> HIDE DEF c
  <2> QED BY <1>0, <1>1, <1>7, <2>1, GiveBackType DEF ScriptRawYield
<1>8. CASE ScriptReturn(s)
  <2> DEFINE c == [co[s] EXCEPT !.state = "kExited"]
  <2>1. c \in Coroutine /\ GiveBack(s, c, "finished")
    BY <1>0, <1>8 DEF ScriptReturn, Coroutine, ExecutionStates
  <2>2. Running(s) /\ steps' \in [Streams -> 0..MaxSteps]
    BY <1>8 DEF ScriptReturn, CoTypeOK
  <2> HIDE DEF c
  <2> QED BY <1>0, <2>1, <2>2, GiveBackType
<1>9. CASE ScriptError(s)
  <2>1. co' \in [Streams -> Coroutine]
    BY <1>0, <1>9 DEF ScriptError, CoTypeOK, Coroutine, ExecutionStates
  <2>2. thread' \in [Streams -> ThreadStates]
    BY <1>0, <1>9 DEF ScriptError, CoTypeOK
  <2>3. pc' \in Stages /\ pc' = "returned" /\ pc # "idle"
    BY <1>9 DEF ScriptError, Stages, Running
  <2> QED BY <1>9, <2>1, <2>2, <2>3 DEF ScriptError, CoTypeOK
<1> QED BY <1>2, <1>3, <1>4, <1>5, <1>6, <1>7, <1>8, <1>9 DEF Script, ScriptElse

\* Type correctness: coroutine, thread and call in progress keep the values
\* that coroutine.h, lua_state.h and the control flow of coroutine.cc allow.
THEOREM CoTypeCorrect == CoSpec => []CoTypeOK
<1>1. CoInit => CoTypeOK
  BY NewCoroutineType, StreamsAssumption, ScriptAssumption
  DEF CoInit, CoTypeOK, ThreadStates, Stages, Pushed
<1>2. CoTypeOK /\ [CoNext]_coVars => CoTypeOK'
  <2> SUFFICES ASSUME CoTypeOK, [CoNext]_coVars PROVE CoTypeOK'
    OBVIOUS
  <2>1. CASE CoNext
    BY <2>1, CallTypes, NativeTypes, ScriptTypes, ReturnType DEF CoNext, CoStep
  <2>2. CASE UNCHANGED coVars
    BY <2>2 DEF coVars, CoTypeOK
  <2> QED BY <2>1, <2>2
<1> QED BY <1>1, <1>2, PTL DEF CoSpec

-----------------------------------------------------------------------------
(* Frame: a step of coroutine s concerns no other coroutine.                *)

\* The three ways native code leaves the record and the thread of s.
LEMMA ResumeWithFrame ==
    ASSUME CoTypeOK, NEW s \in Streams, NEW c \in Coroutine, NEW value,
           NEW next, ResumeWith(s, c, value, next)
    PROVE  /\ \A t \in Streams \ {s} : co'[t] = co[t]
           /\ thread' = thread
           /\ \/ pc' = "returned" /\ co'[s].state = "kExited"
              \/ pc' = "script" /\ ret' = next
<1>1. co \in [Streams -> Coroutine]
  BY DEF CoTypeOK
<1>2. CASE c.state = "kExited"
  BY <1>1, <1>2 DEF ResumeWith, Goto
<1>3. CASE c.state # "kExited" /\ ~CanResume(s)
  <2>1. [c EXCEPT !.yield_reason = "kNone", !.state = "kExited"].state
          = "kExited"
    BY DEF Coroutine
  <2> QED BY <1>1, <1>3, <2>1 DEF ResumeWith, Goto
<1>4. CASE c.state # "kExited" /\ CanResume(s)
  BY <1>1, <1>4 DEF ResumeWith
<1> QED BY <1>2, <1>3, <1>4

LEMMA GotoFrame ==
    ASSUME CoTypeOK, NEW s \in Streams, NEW c \in Coroutine, NEW stage,
           NEW status, Goto(s, stage, c, status)
    PROVE  /\ \A t \in Streams \ {s} : co'[t] = co[t]
           /\ thread' = thread /\ ret' = ret
           /\ pc' = stage /\ co'[s] = c
BY DEF CoTypeOK, Goto

\* The coroutine s is left exited, or as it was.
SameWait(s) ==
    \/ co'[s].state = "kExited"
    \/ /\ co'[s].state = co[s].state
       /\ co'[s].yield_reason = co[s].yield_reason

LEMMA FilterCallEffect ==
    ASSUME CoTypeOK, NEW s \in Streams, FilterCall(s)
    PROVE  /\ pc = "idle" /\ on' = s
           /\ \A t \in Streams \ {s} : co'[t] = co[t]
           /\ thread' = thread
           /\ pc' # "script" => SameWait(s)
           /\ pc' = "returned" => co'[s].state = "kExited" \/ co'[s] = co[s]
           /\ pc' = "script" => ret' # "returned"
<1>0. co[s] \in Coroutine
  BY DEF CoTypeOK
<1>1. CASE Start(s)
  <2>1. [co[s] EXCEPT !.state = "kExited"] \in Coroutine
    BY <1>0 DEF Coroutine, ExecutionStates
  <2>2. [co[s] EXCEPT !.state = "kExited"].state = "kExited"
    BY <1>0 DEF Coroutine
  <2> QED BY <1>0, <1>1, <2>1, <2>2, GotoFrame DEF Start, SameWait
<1>2. ASSUME NEW end \in BOOLEAN, HandleHeaders(s, end)
      PROVE  /\ pc = "idle" /\ on' = s
             /\ \A t \in Streams \ {s} : co'[t] = co[t]
             /\ thread' = thread
             /\ pc' # "script" => SameWait(s)
             /\ pc' = "returned" => co'[s].state = "kExited"
             /\ pc' = "script" => ret' = "tail"
  <2> DEFINE c == [co[s] EXCEPT !.stream_ended = end, !.received_headers = TRUE]
  <2>1. /\ c \in Coroutine /\ c.state = co[s].state
        /\ c.yield_reason = co[s].yield_reason
    BY <1>0 DEF Coroutine
  <2>2. pc = "idle" /\ on' = s
    BY <1>2 DEF HandleHeaders
  <2>3. ResumeWith(s, c, "headers", "tail") \/ Goto(s, "tail", c, "ok")
    BY <1>2 DEF HandleHeaders
  <2> HIDE DEF c
  <2>4. CASE ResumeWith(s, c, "headers", "tail")
    BY <2>1, <2>2, <2>4, ResumeWithFrame DEF SameWait
  <2>5. CASE Goto(s, "tail", c, "ok")
    BY <2>1, <2>2, <2>5, GotoFrame DEF SameWait
  <2> QED BY <2>3, <2>4, <2>5
<1>3. ASSUME NEW data \in BOOLEAN, NEW end \in BOOLEAN,
             HandleBody(s, data, end)
      PROVE  /\ pc = "idle" /\ on' = s
             /\ \A t \in Streams \ {s} : co'[t] = co[t]
             /\ thread' = thread
             /\ pc' # "script" => SameWait(s)
             /\ pc' = "returned" => co'[s].state = "kExited" \/ co'[s] = co[s]
             /\ pc' = "script" => ret' = "tail"
  <2> DEFINE c == BodyArrived(co[s], data, end)
             d == [c EXCEPT !.body_chunk_consumed = TRUE]
  <2>1. /\ c \in Coroutine /\ c.state = co[s].state
        /\ c.yield_reason = co[s].yield_reason
    <3>1. c \in Coroutine
      BY <1>0, BodyArrivedType
    <3>2. c.state = co[s].state /\ c.yield_reason = co[s].yield_reason
      BY <1>0 DEF BodyArrived, Coroutine
    <3> QED BY <3>1, <3>2
  <2>2. d \in Coroutine
    BY <2>1 DEF Coroutine
  <2>3. pc = "idle" /\ on' = s
    BY <1>3 DEF HandleBody
  <2>4. \/ Goto(s, "returned", co[s], "error")
        \/ ResumeWith(s, d, "buffer", "tail")
        \/ /\ co' = [co EXCEPT ![s] = c] /\ thread' = thread
           /\ pc' = "returned" => c.state = "kExited"
           /\ pc' # "script"
    BY <1>3 DEF HandleBody
  <2> HIDE DEF c, d
  <2>5. CASE Goto(s, "returned", co[s], "error")
    BY <1>0, <2>3, <2>5, GotoFrame DEF SameWait
  <2>6. CASE ResumeWith(s, d, "buffer", "tail")
    BY <2>2, <2>3, <2>6, ResumeWithFrame DEF SameWait
  <2>7. CASE /\ co' = [co EXCEPT ![s] = c] /\ thread' = thread
             /\ pc' = "returned" => c.state = "kExited"
             /\ pc' # "script"
    <3>1. co'[s] = c /\ \A t \in Streams \ {s} : co'[t] = co[t]
      BY <2>7 DEF CoTypeOK
    <3> QED BY <2>1, <2>3, <2>7, <3>1 DEF SameWait
  <2> QED BY <2>4, <2>5, <2>6, <2>7
<1>4. CASE HandleTrailers(s)
  <2> DEFINE c == [co[s] EXCEPT !.received_trailers = TRUE,
                                !.stream_ended = TRUE]
  <2>1. /\ c \in Coroutine /\ c.state = co[s].state
        /\ c.yield_reason = co[s].yield_reason
    BY <1>0 DEF Coroutine
  <2>2. pc = "idle" /\ on' = s
    BY <1>4 DEF HandleTrailers
  <2>3. \/ Goto(s, "returned", co[s], "error")
        \/ Goto(s, "returned", c, "ok") /\ c.state = "kExited"
        \/ ResumeWith(s, c, "buffer", "chunks?")
        \/ Goto(s, "chunks?", c, "ok")
    BY <1>4 DEF HandleTrailers
  <2> HIDE DEF c
  <2>4. CASE Goto(s, "returned", co[s], "error")
    BY <1>0, <2>2, <2>4, GotoFrame DEF SameWait
  <2>5. CASE Goto(s, "returned", c, "ok") /\ c.state = "kExited"
    BY <2>1, <2>2, <2>5, GotoFrame DEF SameWait
  <2>6. CASE ResumeWith(s, c, "buffer", "chunks?")
    BY <2>1, <2>2, <2>6, ResumeWithFrame DEF SameWait
  <2>7. CASE Goto(s, "chunks?", c, "ok")
    BY <2>1, <2>2, <2>7, GotoFrame DEF SameWait
  <2> QED BY <2>3, <2>4, <2>5, <2>6, <2>7
<1> QED BY <1>1, <1>2, <1>3, <1>4 DEF FilterCall

LEMMA CallEffect ==
    ASSUME CoTypeOK, NEW s \in Streams, Call(s)
    PROVE  /\ pc = "idle" /\ on' = s
           /\ \A t \in Streams \ {s} : co'[t] = co[t]
           /\ thread' = thread
           /\ pc' # "script" => SameWait(s)
           /\ pc' = "returned" => co'[s].state = "kExited" \/ co'[s] = co[s]
<1>1. CASE FilterCall(s)
  BY <1>1, FilterCallEffect
<1>2. CASE Resume(s)
  <2>1. co[s] \in Coroutine
    BY DEF CoTypeOK
  <2> QED BY <1>2, <2>1, ResumeWithFrame DEF Resume, SameWait
<1> QED BY <1>1, <1>2 DEF Call

LEMMA NativeEffect ==
    ASSUME CoTypeOK, NEW s \in Streams, Native(s)
    PROVE  /\ on = s /\ on' = s /\ pc # "script"
           /\ \A t \in Streams \ {s} : co'[t] = co[t]
           /\ thread' = thread
           /\ pc' # "script" => SameWait(s)
           /\ pc' = "returned" =>
                ~(WaitsForMore(co'[s]) /\ co'[s].stream_ended)
           /\ pc' = "script" => ret' # "returned"
<1>0. co[s] \in Coroutine
  BY DEF CoTypeOK
<1>1. CASE TrailersChunks(s)
  BY <1>0, <1>1, ResumeWithFrame, GotoFrame
  DEF TrailersChunks, SameWait, WaitsForMore
<1>2. CASE TrailersTrailers(s)
  BY <1>0, <1>2, ResumeWithFrame, GotoFrame
  DEF TrailersTrailers, SameWait, WaitsForMore
<1>3. CASE Tail(s)
  BY <1>0, <1>3, GotoFrame DEF Tail, SameWait
<1>4. CASE RunToCompletion(s)
  <2> DEFINE d == [co[s] EXCEPT !.body_chunk_consumed = TRUE]
  <2>1. d \in Coroutine
    BY <1>0 DEF Coroutine
  <2>2. on = s /\ on' = s /\ pc = "loop"
    BY <1>4 DEF RunToCompletion
  <2>3. \/ Goto(s, "returned", co[s], "ok") /\ ~WaitsForMore(co[s])
        \/ ResumeWith(s, d, "buffer", "loop")
        \/ ResumeWith(s, co[s], "nil", "loop")
        \/ ResumeWith(s, co[s], "buffer", "loop")
        \/ ResumeWith(s, co[s], "trailers", "loop")
    BY <1>4 DEF RunToCompletion, WaitsForMore, Waits
  <2> HIDE DEF d
  <2>4. CASE Goto(s, "returned", co[s], "ok") /\ ~WaitsForMore(co[s])
    BY <1>0, <2>2, <2>4, GotoFrame DEF SameWait
  <2>5. CASE ResumeWith(s, d, "buffer", "loop")
    BY <2>1, <2>2, <2>5, ResumeWithFrame DEF SameWait, WaitsForMore
  <2>6. CASE \/ ResumeWith(s, co[s], "nil", "loop")
             \/ ResumeWith(s, co[s], "buffer", "loop")
             \/ ResumeWith(s, co[s], "trailers", "loop")
    BY <1>0, <2>2, <2>6, ResumeWithFrame DEF SameWait, WaitsForMore
  <2> QED BY <2>3, <2>4, <2>5, <2>6
<1> QED BY <1>1, <1>2, <1>3, <1>4 DEF Native

LEMMA GiveBackEffect ==
    ASSUME CoTypeOK, NEW s \in Streams, Running(s), NEW c \in Coroutine,
           NEW threadState \in {"yielded", "finished"},
           threadState = "finished" => c.state = "kExited",
           GiveBack(s, c, threadState)
    PROVE  /\ on' = s
           /\ \A t \in Streams \ {s} :
                 co'[t] = co[t] /\ thread'[t] = thread[t]
           /\ co'[s].state = "kExited" \/ thread'[s] = "yielded"
           /\ pc' = ret /\ ret' = ret
BY DEF GiveBack, Running, CoTypeOK

LEMMA YieldEffect ==
    ASSUME CoTypeOK, NEW s \in Streams, Running(s),
           NEW reason \in YieldReasons, Yield(s, reason)
    PROVE  /\ on' = s
           /\ \A t \in Streams \ {s} :
                 co'[t] = co[t] /\ thread'[t] = thread[t]
           /\ pc' # "script" =>
                 co'[s].state = "kExited" \/ thread'[s] = "yielded"
           /\ pc' \in {"script", ret} /\ ret' = ret
<1> DEFINE c == [co[s] EXCEPT !.state = "kYielded", !.yield_reason = reason]
<1>0. co[s] \in Coroutine
  BY DEF CoTypeOK
<1>1. c \in Coroutine
  BY <1>0 DEF Coroutine, ExecutionStates
<1>2. CASE GiveBack(s, c, "yielded")
  <2> HIDE DEF c
  <2> QED BY <1>1, <1>2, GiveBackEffect
<1>3. CASE /\ co' = [co EXCEPT ![s].state = "kYielded",
                               ![s].yield_reason = reason]
           /\ UNCHANGED <<thread, on, pc, ret>>
  BY <1>3 DEF Running, CoTypeOK
<1> QED BY <1>2, <1>3 DEF Yield

\* The script gives control back exited or suspended, to the place native code
\* continues from, or, on an error, to the caller.
LEMMA ScriptEffect ==
    ASSUME CoTypeOK, NEW s \in Streams, Script(s)
    PROVE  /\ Running(s) /\ on' = s
           /\ \A t \in Streams \ {s} :
                 co'[t] = co[t] /\ thread'[t] = thread[t]
           /\ pc' # "script" =>
                 co'[s].state = "kExited" \/ thread'[s] = "yielded"
           /\ pc' = "returned" => co'[s].state = "kExited" \/ ret = "returned"
           /\ ret' = ret
<1>0. /\ co[s] \in Coroutine /\ co \in [Streams -> Coroutine]
      /\ {"kWaitForHeaders", "kWaitForBody", "kWaitForTrailers",
          "kWaitForBodyChunks"} \subseteq YieldReasons
  BY DEF CoTypeOK, YieldReasons
<1>1. Running(s)
  BY DEF Script, ScriptElse, ScriptHeaders, ScriptBody, ScriptTrailers, ScriptNextChunk,
         ScriptMutate, ScriptRawYield, ScriptReturn, ScriptError, Step
<1>2. CASE Continues
  BY <1>1, <1>2 DEF Continues, Running
<1>3. CASE \E reason \in YieldReasons : Yield(s, reason)
  BY <1>1, <1>3, YieldEffect
<1>4. CASE ScriptRawYield(s)
  <2> DEFINE c == [co[s] EXCEPT !.state = "kYielded"]
  <2>1. c \in Coroutine /\ GiveBack(s, c, "yielded")
    BY <1>0, <1>4 DEF ScriptRawYield, Coroutine, ExecutionStates
  <2> HIDE DEF c
  <2> QED BY <1>1, <2>1, GiveBackEffect
<1>5. CASE ScriptReturn(s)
  <2> DEFINE c == [co[s] EXCEPT !.state = "kExited"]
  <2>1. c \in Coroutine /\ c.state = "kExited"
    BY <1>0 DEF Coroutine, ExecutionStates
  <2>2. GiveBack(s, c, "finished")
    BY <1>5 DEF ScriptReturn
  <2> HIDE DEF c
  <2> QED BY <1>1, <2>1, <2>2, GiveBackEffect
<1>6. CASE ScriptError(s)
  <2>1. co'[s].state = "kExited" /\ \A t \in Streams \ {s} : co'[t] = co[t]
    BY <1>0, <1>6 DEF ScriptError, Coroutine
  <2>2. /\ \A t \in Streams \ {s} : thread'[t] = thread[t]
        /\ on' = s /\ ret' = ret
    BY <1>6 DEF ScriptError, CoTypeOK, Running
  <2> QED BY <1>1, <2>1, <2>2
<1>7. \/ Continues
      \/ \E reason \in YieldReasons : Yield(s, reason)
      \/ ScriptRawYield(s) \/ ScriptReturn(s) \/ ScriptError(s)
  BY <1>0 DEF Script, ScriptElse, ScriptHeaders, ScriptBody, ScriptTrailers,
              ScriptNextChunk, ScriptMutate
<1> QED BY <1>2, <1>3, <1>4, <1>5, <1>6, <1>7

LEMMA ReturnEffect ==
    ASSUME CoTypeOK, NEW s \in Streams, NEW mark \in BOOLEAN, Return(s, mark)
    PROVE  /\ pc = "returned" /\ on = s /\ pc' = "idle" /\ on' = NoStream
           /\ thread' = thread
           /\ \A t \in Streams : /\ co'[t].state = co[t].state
                                 /\ co'[t].yield_reason = co[t].yield_reason
                                 /\ co'[t].stream_ended = co[t].stream_ended
<1>1. co \in [Streams -> Coroutine]
  BY DEF CoTypeOK
<1> QED BY <1>1 DEF Return, Coroutine

-----------------------------------------------------------------------------
\* A script entered by the filter never returns straight to the caller.
ScriptReturnsToNative == pc = "script" => ret # "returned"

\* A step of a coroutine whose callers do not use Resume themselves.
FilterStep(s) ==
    \/ FilterCall(s) \/ Native(s) \/ Script(s)
    \/ \E mark \in BOOLEAN : Return(s, mark)

EndedInv == CoTypeOK /\ EndedNeverWaits /\ ScriptReturnsToNative

LEMMA EndedStep ==
    ASSUME EndedInv, NEW s \in Streams, FilterStep(s), CoTypeOK'
    PROVE  EndedInv'
<1> USE DEF EndedInv
<1>1. CASE FilterCall(s)
  <2>1. on = NoStream /\ on' = s
    BY <1>1, FilterCallEffect DEF CoTypeOK
  <2>2. ScriptReturnsToNative'
    BY <1>1, FilterCallEffect DEF ScriptReturnsToNative
  <2>3. ASSUME NEW t \in Streams, on' # t \/ pc' = "returned"
        PROVE  ~(WaitsForMore(co'[t]) /\ co'[t].stream_ended)
    <3>1. ~(WaitsForMore(co[t]) /\ co[t].stream_ended)
      BY <2>1, StreamsAssumption DEF EndedNeverWaits
    <3>2. co'[t] = co[t] \/ co'[t].state = "kExited"
      BY <1>1, <2>1, <2>3, FilterCallEffect
    <3> QED BY <3>1, <3>2 DEF WaitsForMore
  <2> QED BY <2>2, <2>3 DEF EndedNeverWaits
<1>2. CASE Native(s)
  <2>1. on = s /\ on' = s
    BY <1>2, NativeEffect
  <2>2. ScriptReturnsToNative'
    BY <1>2, NativeEffect DEF ScriptReturnsToNative
  <2>3. ASSUME NEW t \in Streams, on' # t \/ pc' = "returned"
        PROVE  ~(WaitsForMore(co'[t]) /\ co'[t].stream_ended)
    <3>1. CASE t = s
      BY <1>2, <2>1, <2>3, <3>1, NativeEffect
    <3>2. CASE t # s
      BY <1>2, <2>1, <3>2, NativeEffect DEF EndedNeverWaits
    <3> QED BY <3>1, <3>2
  <2> QED BY <2>2, <2>3 DEF EndedNeverWaits
<1>3. CASE Script(s)
  <2>1. on = s /\ on' = s /\ pc = "script"
    BY <1>3, ScriptEffect DEF Running
  <2>2. ScriptReturnsToNative'
    BY <1>3, <2>1, ScriptEffect DEF ScriptReturnsToNative
  <2>3. ASSUME NEW t \in Streams, on' # t \/ pc' = "returned"
        PROVE  ~(WaitsForMore(co'[t]) /\ co'[t].stream_ended)
    <3>1. CASE t = s
      BY <1>3, <2>1, <2>3, <3>1, ScriptEffect
      DEF WaitsForMore, ScriptReturnsToNative
    <3>2. CASE t # s
      BY <1>3, <2>1, <3>2, ScriptEffect DEF EndedNeverWaits
    <3> QED BY <3>1, <3>2
  <2> QED BY <2>2, <2>3 DEF EndedNeverWaits
<1>4. ASSUME NEW mark \in BOOLEAN, Return(s, mark)
      PROVE  EndedInv'
  <2>1. pc = "returned" /\ on = s
    BY <1>4, ReturnEffect
  <2>2. ASSUME NEW t \in Streams
        PROVE  ~(WaitsForMore(co'[t]) /\ co'[t].stream_ended)
    BY <1>4, <2>1, ReturnEffect DEF EndedNeverWaits, WaitsForMore
  <2>3. ScriptReturnsToNative'
    BY <1>4, ReturnEffect DEF ScriptReturnsToNative
  <2> QED BY <2>2, <2>3 DEF EndedNeverWaits
<1> QED BY <1>1, <1>2, <1>3, <1>4 DEF FilterStep

\* For every script and every order of events, the coroutine of a stream that
\* has ended is never left waiting for body, chunks or trailers, provided that
\* callers go through the event handlers and not through Resume.
THEOREM EndedNeverWaitsTheorem ==
    ASSUME ~DirectResume PROVE CoSpec => []EndedNeverWaits
<1>1. CoInit => EndedInv
  <2> SUFFICES ASSUME CoInit PROVE EndedInv
    OBVIOUS
  <2>1. CoTypeOK
    BY NewCoroutineType, StreamsAssumption, ScriptAssumption
    DEF CoInit, CoTypeOK, ThreadStates, Stages, Pushed
  <2>2. EndedNeverWaits /\ ScriptReturnsToNative
    BY DEF CoInit, NewCoroutine, EndedNeverWaits, WaitsForMore,
           ScriptReturnsToNative
  <2> QED BY <2>1, <2>2 DEF EndedInv
<1>2. EndedInv /\ [CoNext]_coVars => EndedInv'
  <2> SUFFICES ASSUME EndedInv, [CoNext]_coVars PROVE EndedInv'
    OBVIOUS
  <2>1. ASSUME NEW s \in Streams, CoStep(s) PROVE EndedInv'
    <3>1. CoTypeOK'
      BY <2>1, CallTypes, NativeTypes, ScriptTypes, ReturnType
      DEF CoStep, EndedInv
    <3>2. FilterStep(s)
      BY <2>1 DEF CoStep, Call, Resume, FilterStep
    <3> QED BY <3>1, <3>2, EndedStep
  <2>2. CASE UNCHANGED coVars
    BY <2>2 DEF coVars, EndedInv, CoTypeOK, EndedNeverWaits, WaitsForMore,
                ScriptReturnsToNative
  <2> QED BY <2>1, <2>2 DEF CoNext
<1>3. EndedInv => EndedNeverWaits
  BY DEF EndedInv
<1> QED BY <1>1, <1>2, <1>3, PTL DEF CoSpec

-----------------------------------------------------------------------------
LEMMA ThreadStep ==
    ASSUME CoTypeOK, ThreadAgrees, NEW s \in Streams, CoStep(s), CoTypeOK'
    PROVE  ThreadAgrees'
<1>1. SUFFICES ASSUME NEW t \in Streams, ~(Running(t)'),
                      co'[t].state = "kYielded"
               PROVE  \/ thread'[t] = "yielded"
                      \/ thread'[t] = "ready" /\ Waits(co'[t], "kWaitToStart")
  BY DEF ThreadAgrees, Waits
<1>2. CASE Call(s)
  <2>1. ~Running(t)
    BY <1>2, CallEffect DEF Running
  <2>2. /\ co'[t].state = co[t].state
        /\ co'[t].yield_reason = co[t].yield_reason
        /\ thread'[t] = thread[t]
    <3>1. CASE t = s
      BY <1>1, <1>2, <3>1, CallEffect DEF SameWait, Running
    <3>2. CASE t # s
      BY <1>2, <3>2, CallEffect
    <3> QED BY <3>1, <3>2
  <2> QED BY <1>1, <2>1, <2>2 DEF ThreadAgrees, Waits
<1>3. CASE Native(s)
  <2>1. ~Running(t)
    BY <1>3, NativeEffect DEF Running
  <2>2. /\ co'[t].state = co[t].state
        /\ co'[t].yield_reason = co[t].yield_reason
        /\ thread'[t] = thread[t]
    <3>1. CASE t = s
      BY <1>1, <1>3, <3>1, NativeEffect DEF SameWait, Running
    <3>2. CASE t # s
      BY <1>3, <3>2, NativeEffect
    <3> QED BY <3>1, <3>2
  <2> QED BY <1>1, <2>1, <2>2 DEF ThreadAgrees, Waits
<1>4. CASE Script(s)
  <2>1. CASE t = s
    BY <1>1, <1>4, <2>1, ScriptEffect DEF Running
  <2>2. CASE t # s
    <3>1. ~Running(t) /\ co'[t] = co[t] /\ thread'[t] = thread[t]
      BY <1>4, <2>2, ScriptEffect DEF Running
    <3> QED BY <1>1, <3>1 DEF ThreadAgrees, Waits
  <2> QED BY <2>1, <2>2
<1>5. ASSUME NEW mark \in BOOLEAN, Return(s, mark)
      PROVE  \/ thread'[t] = "yielded"
             \/ thread'[t] = "ready" /\ Waits(co'[t], "kWaitToStart")
  <2>1. ~Running(t)
    BY <1>5, ReturnEffect DEF Running
  <2> QED BY <1>1, <1>5, <2>1, ReturnEffect DEF ThreadAgrees, Waits
<1> QED BY <1>2, <1>3, <1>4, <1>5 DEF CoStep

\* For every script and every order of calls, Resume from outside included, a
\* coroutine that says it waits has a Lua thread that can be resumed.
THEOREM ThreadAgreesTheorem == CoSpec => []ThreadAgrees
<1>1. CoInit => ThreadAgrees
  BY DEF CoInit, NewCoroutine, ThreadAgrees, Waits
<1>2. CoTypeOK /\ CoTypeOK' /\ ThreadAgrees /\ [CoNext]_coVars => ThreadAgrees'
  <2> SUFFICES ASSUME CoTypeOK, CoTypeOK', ThreadAgrees, [CoNext]_coVars
               PROVE  ThreadAgrees'
    OBVIOUS
  <2>1. CASE CoNext
    BY <2>1, ThreadStep DEF CoNext
  <2>2. CASE UNCHANGED coVars
    BY <2>2 DEF coVars, ThreadAgrees, Waits, Running
  <2> QED BY <2>1, <2>2
<1>3. CoSpec => []CoTypeOK
  BY CoTypeCorrect
<1> QED BY <1>1, <1>2, <1>3, PTL DEF CoSpec

-----------------------------------------------------------------------------
(* What is shown of the body.                                               *)

\* Resume of a coroutine whose thread is suspended: `value' is on its stack.
Resumed(s, c, value, next) ==
    /\ c.state = "kYielded" /\ thread[s] = "yielded" /\ thread' = thread
    /\ co' = [co EXCEPT ![s] = [c EXCEPT !.yield_reason = "kNone"]]
    /\ pc' = "script" /\ ret' = next /\ outcome' = "ok" /\ pushed' = value
    /\ unread' = [unread EXCEPT ![s] = @ /\ value # "buffer"]
    /\ bodyCalled' = [bodyCalled EXCEPT ![s] =
            @ \/ (value = "buffer" /\ Waits(co[s], "kWaitForBody"))]

\* The coroutine and its thread agree, so a resume is refused only on an exited
\* coroutine, and then nothing has changed.
LEMMA ResumeOfWaiting ==
    ASSUME CoTypeOK, ThreadAgrees, NEW s \in Streams, ~Running(s),
           NEW c \in Coroutine, c.state = co[s].state,
           ~Waits(co[s], "kWaitToStart"), NEW value, NEW next,
           ResumeWith(s, c, value, next)
    PROVE  \/ c.state = "kExited" /\ Goto(s, "returned", c, "error")
           \/ Resumed(s, c, value, next)
<1>1. CASE c.state = "kExited"
  BY <1>1 DEF ResumeWith
<1>2. CASE c.state # "kExited"
  <2>1. c.state = "kYielded" /\ thread[s] = "yielded"
    BY <1>2 DEF ThreadAgrees, Coroutine, ExecutionStates
  <2>2. /\ co' = [co EXCEPT ![s] = [c EXCEPT !.yield_reason = "kNone"]]
        /\ pc' = "script" /\ ret' = next /\ outcome' = "ok" /\ pushed' = value
        /\ unread' = IF value = "buffer"
                     THEN [unread EXCEPT ![s] = FALSE] ELSE unread
        /\ bodyCalled' =
                IF value = "buffer" /\ Waits(co[s], "kWaitForBody")
                THEN [bodyCalled EXCEPT ![s] = TRUE] ELSE bodyCalled
        /\ thread' = thread
    BY <1>2, <2>1 DEF ResumeWith, CanResume
  <2>3. unread' = [unread EXCEPT ![s] = @ /\ value # "buffer"]
    BY <2>2 DEF CoTypeOK
  <2>4. bodyCalled' = [bodyCalled EXCEPT ![s] =
            @ \/ (value = "buffer" /\ Waits(co[s], "kWaitForBody"))]
    BY <2>2 DEF CoTypeOK
  <2> QED BY <2>1, <2>2, <2>3, <2>4 DEF Resumed
<1> QED BY <1>1, <1>2

\* body_chunk_consumed_ and has_body_data_ of a coroutine against what its script
\* has been shown: data that no Buffer has shown is pending, and data that is
\* pending has not been shown, but perhaps through body().
Accounted(c, unshown, called) ==
    /\ unshown => c.has_body_data /\ ~c.body_chunk_consumed
    /\ (c.has_body_data /\ ~c.body_chunk_consumed) => (unshown \/ called)

BodyAccounted == \A s \in Streams : Accounted(co[s], unread[s], bodyCalled[s])

\* The reasons native code resumes a script for once the stream has ended.
WaitsMore(c) ==
    c.yield_reason \in {"kWaitForBody", "kWaitForBodyChunks", "kWaitForTrailers"}

LEMMA AccountedGoto ==
    ASSUME CoTypeOK, BodyAccounted, NEW s \in Streams, NEW c \in Coroutine,
           c.has_body_data = co[s].has_body_data,
           c.body_chunk_consumed = co[s].body_chunk_consumed,
           co' = [co EXCEPT ![s] = c], UNCHANGED <<unread, bodyCalled>>
    PROVE  BodyAccounted'
<1>1. co'[s] = c /\ \A t \in Streams \ {s} : co'[t] = co[t]
  BY DEF CoTypeOK
<1> QED BY <1>1 DEF BodyAccounted, Accounted

LEMMA AccountedResume ==
    ASSUME CoTypeOK, BodyAccounted, NEW s \in Streams, NEW c \in Coroutine,
           NEW value, NEW next, Resumed(s, c, value, next),
           \/ /\ c.has_body_data = co[s].has_body_data
              /\ c.body_chunk_consumed = co[s].body_chunk_consumed
              /\ value = "buffer" => Waits(co[s], "kWaitForBody")
           \/ c.body_chunk_consumed /\ value = "buffer"
    PROVE  BodyAccounted'
<1> DEFINE d == [c EXCEPT !.yield_reason = "kNone"]
<1>1. /\ d.has_body_data = c.has_body_data
      /\ d.body_chunk_consumed = c.body_chunk_consumed
  BY DEF Coroutine
<1>2. co' = [co EXCEPT ![s] = d]
  BY DEF Resumed
<1> HIDE DEF d
<1>3. co'[s] = d /\ \A t \in Streams \ {s} : co'[t] = co[t]
  BY <1>2 DEF CoTypeOK
<1>4. /\ unread'[s] = (unread[s] /\ value # "buffer")
      /\ bodyCalled'[s] = (bodyCalled[s] \/
                             (value = "buffer" /\ Waits(co[s], "kWaitForBody")))
      /\ \A t \in Streams \ {s} : /\ unread'[t] = unread[t]
                                   /\ bodyCalled'[t] = bodyCalled[t]
  BY DEF Resumed, CoTypeOK
<1>5. Accounted(co'[s], unread'[s], bodyCalled'[s])
  BY <1>1, <1>3, <1>4 DEF BodyAccounted, Accounted
<1> QED BY <1>3, <1>4, <1>5 DEF BodyAccounted

LEMMA AccountedCall ==
    ASSUME CoTypeOK, ThreadAgrees, BodyAccounted, NEW s \in Streams, Call(s)
    PROVE  BodyAccounted'
<1>0. co[s] \in Coroutine /\ ~Running(s)
  BY CallEffect DEF CoTypeOK, Running
<1>1. CASE Start(s)
  <2> DEFINE c == [co[s] EXCEPT !.state = "kExited"]
  <2>1. /\ c \in Coroutine /\ c.has_body_data = co[s].has_body_data
        /\ c.body_chunk_consumed = co[s].body_chunk_consumed
    BY <1>0 DEF Coroutine, ExecutionStates
  <2>2. \/ Goto(s, "returned", co[s], "error")
        \/ Goto(s, "returned", c, "error")
        \/ UNCHANGED <<co, unread, bodyCalled>>
    BY <1>1 DEF Start
  <2> HIDE DEF c
  <2>3. CASE UNCHANGED <<co, unread, bodyCalled>>
    BY <2>3 DEF BodyAccounted, Accounted
  <2> QED BY <1>0, <2>1, <2>2, <2>3, AccountedGoto DEF Goto
<1>2. CASE Resume(s)
  <2> DEFINE c == [co[s] EXCEPT !.yield_reason = "kNone", !.state = "kExited"]
             d == [co[s] EXCEPT !.yield_reason = "kNone"]
  <2>1. /\ c \in Coroutine /\ c.has_body_data = co[s].has_body_data
        /\ c.body_chunk_consumed = co[s].body_chunk_consumed
        /\ d \in Coroutine /\ d.has_body_data = co[s].has_body_data
        /\ d.body_chunk_consumed = co[s].body_chunk_consumed
    BY <1>0 DEF Coroutine, ExecutionStates, YieldReasons
  <2>2. /\ co' = [co EXCEPT ![s] = co[s]] \/ co' = [co EXCEPT ![s] = c]
           \/ co' = [co EXCEPT ![s] = d]
        /\ UNCHANGED <<unread, bodyCalled>>
    BY <1>2 DEF Resume, ResumeWith, Goto
  <2> HIDE DEF c, d
  <2> QED BY <1>0, <2>1, <2>2, AccountedGoto
<1>3. ASSUME NEW end \in BOOLEAN, HandleHeaders(s, end)
      PROVE  BodyAccounted'
  <2> DEFINE c == [co[s] EXCEPT !.stream_ended = end, !.received_headers = TRUE]
  <2>1. /\ c \in Coroutine /\ c.has_body_data = co[s].has_body_data
        /\ c.body_chunk_consumed = co[s].body_chunk_consumed
        /\ c.state = co[s].state /\ c.yield_reason = co[s].yield_reason
    BY <1>0 DEF Coroutine
  <2>2. \/ Waits(c, "kWaitForHeaders") /\ ResumeWith(s, c, "headers", "tail")
        \/ Goto(s, "tail", c, "ok")
    BY <1>3 DEF HandleHeaders
  <2> HIDE DEF c
  <2>3. CASE Waits(c, "kWaitForHeaders") /\ ResumeWith(s, c, "headers", "tail")
    <3>1. \/ Goto(s, "returned", c, "error")
          \/ Resumed(s, c, "headers", "tail")
      BY <1>0, <2>1, <2>3, ResumeOfWaiting DEF Waits
    <3> QED BY <2>1, <3>1, AccountedGoto, AccountedResume DEF Goto
  <2>4. CASE Goto(s, "tail", c, "ok")
    BY <2>1, <2>4, AccountedGoto DEF Goto
  <2> QED BY <2>2, <2>3, <2>4
<1>4. ASSUME NEW data \in BOOLEAN, NEW end \in BOOLEAN,
             HandleBody(s, data, end)
      PROVE  BodyAccounted'
  <2> DEFINE c == BodyArrived(co[s], data, end)
             d == [c EXCEPT !.body_chunk_consumed = TRUE]
  <2>1. c \in Coroutine
    BY <1>0, BodyArrivedType
  <2>2. /\ c.state = co[s].state /\ c.yield_reason = co[s].yield_reason
        /\ c.has_body_data = (co[s].has_body_data \/ data)
        /\ c.body_chunk_consumed = (co[s].body_chunk_consumed /\ ~data)
    BY <1>0 DEF BodyArrived, Coroutine
  <2>3. /\ d \in Coroutine /\ d.state = c.state /\ d.body_chunk_consumed
        /\ d.yield_reason = c.yield_reason
    BY <2>1 DEF Coroutine
  <2>4. \/ Goto(s, "returned", co[s], "error")
        \/ /\ c.state # "kExited" /\ ~Waits(c, "kWaitToStart")
           /\ ResumeWith(s, d, "buffer", "tail")
        \/ /\ co' = [co EXCEPT ![s] = c] /\ bodyCalled' = bodyCalled
           /\ unread' = [unread EXCEPT ![s] = @ \/ data]
    BY <1>4 DEF HandleBody, Waits
  <2> HIDE DEF c, d
  <2>5. CASE Goto(s, "returned", co[s], "error")
    BY <1>0, <2>5, AccountedGoto DEF Goto
  <2>6. CASE /\ c.state # "kExited" /\ ~Waits(c, "kWaitToStart")
             /\ ResumeWith(s, d, "buffer", "tail")
    <3>1. Resumed(s, d, "buffer", "tail")
      BY <1>0, <2>2, <2>3, <2>6, ResumeOfWaiting DEF Waits
    <3> QED BY <2>3, <3>1, AccountedResume
  <2>7. CASE /\ co' = [co EXCEPT ![s] = c] /\ bodyCalled' = bodyCalled
             /\ unread' = [unread EXCEPT ![s] = @ \/ data]
    <3>1. co'[s] = c /\ \A t \in Streams \ {s} : co'[t] = co[t]
      BY <2>7 DEF CoTypeOK
    <3>2. /\ unread'[s] = (unread[s] \/ data)
          /\ \A t \in Streams \ {s} : unread'[t] = unread[t]
      BY <2>7 DEF CoTypeOK
    <3>3. Accounted(co'[s], unread'[s], bodyCalled'[s])
      BY <2>2, <2>7, <3>1, <3>2 DEF BodyAccounted, Accounted
    <3> QED BY <2>7, <3>1, <3>2, <3>3 DEF BodyAccounted
  <2> QED BY <2>4, <2>5, <2>6, <2>7
<1>5. CASE HandleTrailers(s)
  <2> DEFINE c == [co[s] EXCEPT !.received_trailers = TRUE,
                                !.stream_ended = TRUE]
  <2>1. /\ c \in Coroutine /\ c.has_body_data = co[s].has_body_data
        /\ c.body_chunk_consumed = co[s].body_chunk_consumed
        /\ c.state = co[s].state /\ c.yield_reason = co[s].yield_reason
    BY <1>0 DEF Coroutine
  <2>2. \/ Goto(s, "returned", co[s], "error")
        \/ Goto(s, "returned", c, "ok")
        \/ Waits(c, "kWaitForBody") /\ ResumeWith(s, c, "buffer", "chunks?")
        \/ Goto(s, "chunks?", c, "ok")
    BY <1>5 DEF HandleTrailers
  <2> HIDE DEF c
  <2>3. CASE Waits(c, "kWaitForBody") /\ ResumeWith(s, c, "buffer", "chunks?")
    <3>1. \/ Goto(s, "returned", c, "error")
          \/ Resumed(s, c, "buffer", "chunks?")
      BY <1>0, <2>1, <2>3, ResumeOfWaiting DEF Waits
    <3> QED BY <2>1, <2>3, <3>1, AccountedGoto, AccountedResume DEF Goto, Waits
  <2> QED BY <1>0, <2>1, <2>2, <2>3, AccountedGoto DEF Goto
<1> QED BY <1>1, <1>2, <1>3, <1>4, <1>5 DEF Call, FilterCall

\* Native code resumes with the body what has not been shown and is marked so, or
\* what body() asked for.
LEMMA AccountedNative ==
    ASSUME CoTypeOK, ThreadAgrees, BodyAccounted, NEW s \in Streams, Native(s)
    PROVE  BodyAccounted'
<1>0. co[s] \in Coroutine /\ ~Running(s)
  BY NativeEffect DEF CoTypeOK, Running
<1> DEFINE d == [co[s] EXCEPT !.body_chunk_consumed = TRUE]
<1>1. d \in Coroutine /\ d.state = co[s].state /\ d.body_chunk_consumed
  BY <1>0 DEF Coroutine
<1>2. \/ \E stage \in Stages : Goto(s, stage, co[s], "ok")
      \/ /\ co[s].state # "kExited" /\ Waits(co[s], "kWaitForBodyChunks")
         /\ ResumeWith(s, d, "buffer", "loop")
      \/ \E value \in {"nil", "trailers"}, next \in Stages :
            /\ WaitsMore(co[s]) /\ ResumeWith(s, co[s], value, next)
      \/ /\ Waits(co[s], "kWaitForBody")
         /\ ResumeWith(s, co[s], "buffer", "loop")
  BY DEF Native, TrailersChunks, TrailersTrailers, Tail, RunToCompletion,
         Stages, WaitsMore, Waits
<1> HIDE DEF d
<1>3. CASE \E stage \in Stages : Goto(s, stage, co[s], "ok")
  BY <1>0, <1>3, AccountedGoto DEF Goto
<1>4. CASE /\ co[s].state # "kExited" /\ Waits(co[s], "kWaitForBodyChunks")
           /\ ResumeWith(s, d, "buffer", "loop")
  <2>1. Resumed(s, d, "buffer", "loop")
    BY <1>0, <1>1, <1>4, ResumeOfWaiting DEF Waits
  <2> QED BY <1>1, <2>1, AccountedResume
<1>5. ASSUME NEW value \in {"nil", "trailers"}, NEW next \in Stages,
             WaitsMore(co[s]), ResumeWith(s, co[s], value, next)
      PROVE  BodyAccounted'
  <2>1. \/ Goto(s, "returned", co[s], "error")
        \/ Resumed(s, co[s], value, next)
    BY <1>0, <1>5, ResumeOfWaiting DEF Waits, WaitsMore
  <2>2. value # "buffer"
    OBVIOUS
  <2> QED BY <1>0, <2>1, <2>2, AccountedGoto, AccountedResume DEF Goto
<1>6. CASE /\ Waits(co[s], "kWaitForBody")
           /\ ResumeWith(s, co[s], "buffer", "loop")
  <2>1. \/ Goto(s, "returned", co[s], "error")
        \/ Resumed(s, co[s], "buffer", "loop")
    BY <1>0, <1>6, ResumeOfWaiting DEF Waits
  <2> QED BY <1>0, <1>6, <2>1, AccountedGoto, AccountedResume DEF Goto
<1> QED BY <1>2, <1>3, <1>4, <1>5, <1>6

\* All that events set: what is left of a coroutine but its state, its reason to
\* wait and body_chunk_consumed_.
SameEvents(c, d) ==
    /\ d.headers_passed_on = c.headers_passed_on
    /\ d.received_headers = c.received_headers
    /\ d.received_body = c.received_body
    /\ d.has_body_data = c.has_body_data
    /\ d.received_trailers = c.received_trailers
    /\ d.stream_ended = c.stream_ended

\* A script changes the state and the reason of its coroutine and nothing else
\* of it, and may read the body.
LEMMA ScriptKeeps ==
    ASSUME CoTypeOK, NEW s \in Streams, Script(s)
    PROVE  /\ SameEvents(co[s], co'[s])
           /\ co'[s].body_chunk_consumed = co[s].body_chunk_consumed
           /\ \/ UNCHANGED <<unread, bodyCalled>>
              \/ /\ unread' = [unread EXCEPT ![s] = FALSE]
                 /\ bodyCalled' = [bodyCalled EXCEPT ![s] = TRUE]
           /\ pushed' = pushed
<1>0. co[s] \in Coroutine /\ co \in [Streams -> Coroutine]
  BY DEF CoTypeOK
<1>1. /\ \/ UNCHANGED <<unread, bodyCalled>>
         \/ /\ unread' = [unread EXCEPT ![s] = FALSE]
            /\ bodyCalled' = [bodyCalled EXCEPT ![s] = TRUE]
      /\ pushed' = pushed
  BY DEF Script, ScriptElse, ScriptHeaders, ScriptBody, ScriptTrailers, ScriptNextChunk,
         ScriptMutate, ScriptRawYield, ScriptReturn, ScriptError, Yield,
         GiveBack, Continues
<1>2. \/ co' = co
      \/ \E r : co' = [co EXCEPT ![s] = [co[s] EXCEPT !.state = "kYielded",
                                                     !.yield_reason = r]]
      \/ \E r : co' = [co EXCEPT ![s].state = "kYielded",
                                ![s].yield_reason = r]
      \/ \E e : co' = [co EXCEPT ![s] = [co[s] EXCEPT !.state = e]]
      \/ co' = [co EXCEPT ![s].state = "kExited"]
  BY DEF Script, ScriptElse, ScriptHeaders, ScriptBody, ScriptTrailers, ScriptNextChunk,
         ScriptMutate, ScriptRawYield, ScriptReturn, ScriptError, Yield,
         GiveBack, Continues
<1>3. /\ SameEvents(co[s], co'[s])
      /\ co'[s].body_chunk_consumed = co[s].body_chunk_consumed
  BY <1>0, <1>2 DEF SameEvents, Coroutine
<1> QED BY <1>1, <1>3

LEMMA ReturnKeeps ==
    ASSUME CoTypeOK, NEW s \in Streams, NEW mark \in BOOLEAN, Return(s, mark)
    PROVE  /\ UNCHANGED <<unread, bodyCalled>>
           /\ \A t \in Streams :
                 /\ co'[t].state = co[t].state
                 /\ co'[t].yield_reason = co[t].yield_reason
                 /\ co'[t].received_headers = co[t].received_headers
                 /\ co'[t].has_body_data = co[t].has_body_data
                 /\ co'[t].body_chunk_consumed = co[t].body_chunk_consumed
                 /\ co'[t].received_trailers = co[t].received_trailers
                 /\ co'[t].stream_ended = co[t].stream_ended
           /\ co'[s].headers_passed_on = (co[s].headers_passed_on \/ mark)
           /\ \A t \in Streams \ {s} : co'[t] = co[t]
<1>1. co \in [Streams -> Coroutine]
  BY DEF CoTypeOK
<1> QED BY <1>1 DEF Return, Coroutine

LEMMA AccountedStep ==
    ASSUME CoTypeOK, ThreadAgrees, BodyAccounted, NEW s \in Streams, CoStep(s)
    PROVE  BodyAccounted'
<1>1. CASE Call(s)
  BY <1>1, AccountedCall
<1>2. CASE Native(s)
  BY <1>2, AccountedNative
<1>3. CASE Script(s)
  <2>1. \A t \in Streams \ {s} : /\ co'[t] = co[t] /\ unread'[t] = unread[t]
                                 /\ bodyCalled'[t] = bodyCalled[t]
    BY <1>3, ScriptEffect, ScriptKeeps DEF CoTypeOK
  <2>2. \/ unread'[s] = unread[s] /\ bodyCalled'[s] = bodyCalled[s]
        \/ ~unread'[s] /\ bodyCalled'[s]
    BY <1>3, ScriptKeeps DEF CoTypeOK
  <2>3. Accounted(co'[s], unread'[s], bodyCalled'[s])
    BY <1>3, <2>2, ScriptKeeps DEF SameEvents, Accounted, BodyAccounted
  <2> QED BY <2>1, <2>3 DEF BodyAccounted
<1>4. ASSUME NEW mark \in BOOLEAN, Return(s, mark)
      PROVE  BodyAccounted'
  BY <1>4, ReturnKeeps DEF BodyAccounted, Accounted
<1> QED BY <1>1, <1>2, <1>3, <1>4 DEF CoStep

\* For every script and every order of calls: has_body_data_ and
\* body_chunk_consumed_ account for what the script has been shown.
THEOREM BodyAccountedTheorem == CoSpec => []BodyAccounted
<1>1. CoInit => BodyAccounted
  <2> SUFFICES ASSUME CoInit, NEW s \in Streams
               PROVE  Accounted(co[s], unread[s], bodyCalled[s])
    BY DEF BodyAccounted
  <2>1. unread[s] = FALSE /\ co[s].has_body_data = FALSE
    BY DEF CoInit, NewCoroutine
  <2> QED BY <2>1 DEF Accounted
<1>2. CoTypeOK /\ ThreadAgrees /\ BodyAccounted /\ [CoNext]_coVars
        => BodyAccounted'
  <2> SUFFICES ASSUME CoTypeOK, ThreadAgrees, BodyAccounted, [CoNext]_coVars
               PROVE  BodyAccounted'
    OBVIOUS
  <2>1. CASE CoNext
    BY <2>1, AccountedStep DEF CoNext
  <2>2. CASE UNCHANGED coVars
    BY <2>2 DEF coVars, BodyAccounted, Accounted
  <2> QED BY <2>1, <2>2
<1> QED BY <1>1, <1>2, CoTypeCorrect, ThreadAgreesTheorem, PTL DEF CoSpec

\* For every script and every order of calls, Resume from outside included: when
\* the stream ends, bodyChunks() is handed the body only if it has not been shown
\* (RunToCompletion), or was read through body().
THEOREM ChunkDeliveredOnceTheorem == CoSpec => ChunkDeliveredOnce
<1>1. CoTypeOK /\ BodyAccounted /\ [CoNext]_coVars =>
        \A s \in Streams :
          (/\ pc = "loop" /\ on = s /\ Waits(co[s], "kWaitForBodyChunks")
           /\ pc' = "script" /\ pushed' = "buffer")
          => unread[s] \/ bodyCalled[s]
  <2> SUFFICES ASSUME CoTypeOK, BodyAccounted, [CoNext]_coVars,
                      NEW s \in Streams, pc = "loop", on = s,
                      Waits(co[s], "kWaitForBodyChunks"),
                      pc' = "script", pushed' = "buffer"
               PROVE  unread[s] \/ bodyCalled[s]
    OBVIOUS
  <2>1. PICK t \in Streams : CoStep(t)
    BY DEF CoNext, coVars
  <2>2. RunToCompletion(t)
    <3>1. Native(t)
      BY <2>1, CallEffect, ScriptEffect, ReturnEffect DEF CoStep, Running
    <3> QED BY <3>1 DEF Native, TrailersChunks, TrailersTrailers, Tail
  <2>3. t = s
    BY <2>2 DEF RunToCompletion
  <2>4. \/ ~co[s].body_chunk_consumed /\ co[s].has_body_data
        \/ ResumeWith(s, co[s], "nil", "loop")
        \/ Goto(s, "returned", co[s], "ok")
    BY <2>2, <2>3 DEF RunToCompletion, Waits
  <2>5. ~Goto(s, "returned", co[s], "ok")
    BY DEF Goto
  <2>6. ~ResumeWith(s, co[s], "nil", "loop")
    BY DEF ResumeWith, Goto
  <2> QED BY <2>4, <2>5, <2>6 DEF BodyAccounted, Accounted
<1> QED BY <1>1, CoTypeCorrect, BodyAccountedTheorem, PTL
        DEF CoSpec, ChunkDeliveredOnce

-----------------------------------------------------------------------------
(* What native code and scripts do, given that coroutine and thread agree.   *)

\* s, which was suspended, runs on with its reason to wait taken off.
Runs(s) ==
    /\ pc' = "script" /\ outcome' = "ok" /\ co[s].state = "kYielded"
    /\ co'[s].state = "kYielded" /\ co'[s].yield_reason = "kNone"
    /\ thread[s] = "yielded"

LEMMA ResumedRuns ==
    ASSUME CoTypeOK, NEW s \in Streams, NEW c \in Coroutine, NEW value, NEW next,
           c.state = co[s].state, Resumed(s, c, value, next)
    PROVE  /\ Runs(s) /\ ret' = next /\ pushed' = value
           /\ SameEvents(c, co'[s])
           /\ co'[s].body_chunk_consumed = c.body_chunk_consumed
           /\ unread'[s] => unread[s]
           /\ value = "buffer" => ~unread'[s]
           /\ \A t \in Streams \ {s} : unread'[t] = unread[t]
<1> DEFINE d == [c EXCEPT !.yield_reason = "kNone"]
<1>1. /\ SameEvents(c, d) /\ d.yield_reason = "kNone" /\ d.state = c.state
      /\ d.body_chunk_consumed = c.body_chunk_consumed
  BY DEF Coroutine, SameEvents
<1>2. co' = [co EXCEPT ![s] = d]
  BY DEF Resumed
<1> HIDE DEF d
<1>3. co'[s] = d
  BY <1>2 DEF CoTypeOK
<1>4. /\ unread'[s] => unread[s]
      /\ value = "buffer" => ~unread'[s]
      /\ \A t \in Streams \ {s} : unread'[t] = unread[t]
  BY DEF Resumed, CoTypeOK
<1> QED BY <1>1, <1>3, <1>4 DEF Runs, Resumed

\* Native code between two runs of the script: it changes nothing, or it resumes
\* a script that waits for more, with nil only when the body has been shown or
\* by the second test of HandleTrailers.
LEMMA NativeResult ==
    ASSUME CoTypeOK, ThreadAgrees, NEW s \in Streams, Native(s)
    PROVE  /\ SameEvents(co[s], co'[s])
           /\ \A t \in Streams \ {s} : unread'[t] = unread[t]
           /\ \/ /\ co' = co /\ unread' = unread
                 /\ pc' \in {"trailers?", "loop", "returned"}
                 /\ outcome' = "error" => co[s].state = "kExited"
                 /\ pc = "tail" =>
                       /\ outcome' = "ok"
                       /\ pc' = IF co[s].stream_ended THEN "loop"
                                ELSE "returned"
                 /\ pc' = "returned" => \/ pc = "tail"
                                        \/ co[s].state = "kExited"
                                        \/ ~WaitsMore(co[s])
              \/ /\ Runs(s) /\ WaitsMore(co[s]) /\ pc # "tail"
                 /\ unread'[s] => unread[s]
                 /\ ret' = IF pc = "chunks?" THEN "trailers?" ELSE "loop"
                 /\ pc = "chunks?" => Waits(co[s], "kWaitForBodyChunks")
                 /\ (pc # "chunks?" /\ pushed' = "nil") =>
                       (co[s].has_body_data => co[s].body_chunk_consumed)
                 /\ co'[s].body_chunk_consumed =>
                       co[s].body_chunk_consumed \/ pushed' = "buffer"
<1>0. co[s] \in Coroutine /\ ~Running(s) /\ SameEvents(co[s], co[s])
  BY NativeEffect DEF CoTypeOK, Running, SameEvents
<1>1. ASSUME NEW stage \in Stages, NEW status \in {"ok", "error"},
             Goto(s, stage, co[s], status)
      PROVE  /\ co' = co /\ unread' = unread /\ pc' = stage
             /\ outcome' = status
  BY <1>1 DEF Goto, CoTypeOK
<1>2. CASE Tail(s)
  <2>1. /\ pc = "tail" /\ Goto(s, IF co[s].stream_ended THEN "loop"
                                  ELSE "returned", co[s], "ok")
        /\ {"loop", "returned"} \subseteq Stages
    BY <1>2 DEF Tail, Stages
  <2> QED BY <1>0, <1>1, <2>1
<1>3. CASE TrailersChunks(s)
  <2>1. /\ pc = "chunks?" /\ {"returned", "trailers?"} \subseteq Stages
        /\ \/ /\ Waits(co[s], "kWaitForBodyChunks")
              /\ ResumeWith(s, co[s], "nil", "trailers?")
           \/ Goto(s, "trailers?", co[s], "ok")
    BY <1>3 DEF TrailersChunks, Stages
  <2>2. CASE Goto(s, "trailers?", co[s], "ok")
    BY <1>0, <1>1, <2>1, <2>2
  <2>3. CASE /\ Waits(co[s], "kWaitForBodyChunks")
             /\ ResumeWith(s, co[s], "nil", "trailers?")
    <3>1. \/ co[s].state = "kExited" /\ Goto(s, "returned", co[s], "error")
          \/ Resumed(s, co[s], "nil", "trailers?")
      BY <1>0, <2>3, ResumeOfWaiting DEF Waits
    <3>2. CASE co[s].state = "kExited" /\ Goto(s, "returned", co[s], "error")
      BY <1>0, <1>1, <2>1, <3>2
    <3>3. CASE Resumed(s, co[s], "nil", "trailers?")
      BY <1>0, <2>1, <2>3, <3>3, ResumedRuns DEF WaitsMore, Waits
    <3> QED BY <3>1, <3>2, <3>3
  <2> QED BY <2>1, <2>2, <2>3
<1>4. CASE TrailersTrailers(s)
  <2>1. /\ pc = "trailers?" /\ {"returned", "loop"} \subseteq Stages
        /\ \/ /\ Waits(co[s], "kWaitForTrailers")
              /\ ResumeWith(s, co[s], "trailers", "loop")
           \/ Goto(s, "loop", co[s], "ok")
    BY <1>4 DEF TrailersTrailers, Stages
  <2>2. CASE Goto(s, "loop", co[s], "ok")
    BY <1>0, <1>1, <2>1, <2>2
  <2>3. CASE /\ Waits(co[s], "kWaitForTrailers")
             /\ ResumeWith(s, co[s], "trailers", "loop")
    <3>1. \/ co[s].state = "kExited" /\ Goto(s, "returned", co[s], "error")
          \/ Resumed(s, co[s], "trailers", "loop")
      BY <1>0, <2>3, ResumeOfWaiting DEF Waits
    <3>2. CASE co[s].state = "kExited" /\ Goto(s, "returned", co[s], "error")
      BY <1>0, <1>1, <2>1, <3>2
    <3>3. CASE Resumed(s, co[s], "trailers", "loop")
      BY <1>0, <2>1, <2>3, <3>3, ResumedRuns DEF WaitsMore, Waits
    <3> QED BY <3>1, <3>2, <3>3
  <2> QED BY <2>1, <2>2, <2>3
<1>5. CASE RunToCompletion(s)
  <2> DEFINE d == [co[s] EXCEPT !.body_chunk_consumed = TRUE]
  <2>1. d \in Coroutine /\ d.state = co[s].state /\ SameEvents(co[s], d)
    BY <1>0 DEF Coroutine, SameEvents
  <2>2. pc = "loop" /\ "returned" \in Stages
    BY <1>5 DEF RunToCompletion, Stages
  <2>3. \/ /\ Goto(s, "returned", co[s], "ok")
           /\ co[s].state = "kExited" \/ ~WaitsMore(co[s])
        \/ /\ co[s].state # "kExited" /\ WaitsMore(co[s])
           /\ ResumeWith(s, d, "buffer", "loop")
        \/ /\ co[s].state # "kExited" /\ WaitsMore(co[s])
           /\ \E value \in {"nil", "buffer", "trailers"} :
                 /\ ResumeWith(s, co[s], value, "loop")
                 /\ value = "nil" => (co[s].has_body_data =>
                                        co[s].body_chunk_consumed)
    BY <1>5 DEF RunToCompletion, WaitsMore, Waits
  <2> HIDE DEF d
  <2>4. CASE /\ Goto(s, "returned", co[s], "ok")
             /\ co[s].state = "kExited" \/ ~WaitsMore(co[s])
    BY <1>0, <1>1, <2>2, <2>4
  <2>5. CASE /\ co[s].state # "kExited" /\ WaitsMore(co[s])
             /\ ResumeWith(s, d, "buffer", "loop")
    <3>1. Resumed(s, d, "buffer", "loop")
      BY <1>0, <2>1, <2>5, ResumeOfWaiting DEF Waits, WaitsMore
    <3>2. SameEvents(d, co'[s]) => SameEvents(co[s], co'[s])
      BY <2>1 DEF SameEvents
    <3> QED BY <2>1, <2>2, <2>5, <3>1, <3>2, ResumedRuns
  <2>6. ASSUME co[s].state # "kExited", WaitsMore(co[s]),
               NEW value \in {"nil", "buffer", "trailers"},
               ResumeWith(s, co[s], value, "loop"),
               value = "nil" => (co[s].has_body_data =>
                                  co[s].body_chunk_consumed)
        PROVE  /\ SameEvents(co[s], co'[s])
               /\ \A t \in Streams \ {s} : unread'[t] = unread[t]
               /\ Runs(s)
               /\ unread'[s] => unread[s]
               /\ ret' = "loop"
               /\ pushed' = "nil" => (co[s].has_body_data =>
                                        co[s].body_chunk_consumed)
               /\ co'[s].body_chunk_consumed = co[s].body_chunk_consumed
    <3>1. Resumed(s, co[s], value, "loop")
      BY <1>0, <2>6, ResumeOfWaiting DEF Waits, WaitsMore
    <3> QED BY <1>0, <2>6, <3>1, ResumedRuns
  <2> QED BY <2>2, <2>3, <2>4, <2>5, <2>6
<1> QED BY <1>2, <1>3, <1>4, <1>5 DEF Native

AccessorWaits ==
    {"kWaitForHeaders", "kWaitForBody", "kWaitForBodyChunks", "kWaitForTrailers"}

\* A step of the script: it gives control back where native code continues, or
\* with an error to the caller; only an accessor sets a reason to wait, and one
\* is left behind in a script that runs on or has ended only by a lua_yield that
\* raised.
LEMMA ScriptResult ==
    ASSUME CoTypeOK, NEW s \in Streams, Script(s)
    PROVE  /\ ret' = ret
           /\ co'[s].yield_reason \in {co[s].yield_reason} \cup AccessorWaits
           /\ unread'[s] => unread[s]
           /\ \A t \in Streams \ {s} : unread'[t] = unread[t]
           /\ \/ outcome' = outcome /\ pc' \in {"script", ret}
              \/ /\ outcome' = "error" /\ pc' = "returned"
                 /\ co'[s].state = "kExited"
                 /\ thread[s] = "ready" => StartErrors
           /\ pc' = "script" => /\ thread' = thread
                               /\ co'[s].state \in {co[s].state, "kYielded"}
           /\ (~RaisedYields /\ (pc' = "script" \/ co'[s].state = "kExited"))
                => co'[s].yield_reason = co[s].yield_reason
<1>0. co[s] \in Coroutine /\ co \in [Streams -> Coroutine] /\ ret # "script"
  BY DEF CoTypeOK
<1>1. /\ unread'[s] => unread[s]
      /\ \A t \in Streams \ {s} : unread'[t] = unread[t]
  BY ScriptKeeps DEF CoTypeOK
<1>2. pc = "script"
  BY ScriptEffect DEF Running
<1>3. CASE Continues
  BY <1>1, <1>2, <1>3 DEF Continues
<1>4. ASSUME NEW reason \in AccessorWaits, Yield(s, reason)
      PROVE  /\ pc' \in {"script", ret} /\ ret' = ret /\ outcome' = outcome
             /\ co'[s].yield_reason = reason /\ co'[s].state = "kYielded"
             /\ pc' = "script" => RaisedYields /\ thread' = thread
  <2>1. CASE GiveBack(s, [co[s] EXCEPT !.state = "kYielded",
                                       !.yield_reason = reason], "yielded")
    BY <1>0, <1>2, <2>1 DEF GiveBack, Coroutine
  <2>2. CASE /\ RaisedYields
             /\ co' = [co EXCEPT ![s].state = "kYielded",
                                 ![s].yield_reason = reason]
             /\ UNCHANGED <<thread, on, pc, ret, outcome>>
    BY <1>0, <1>2, <2>2 DEF Coroutine
  <2> QED BY <1>4, <2>1, <2>2 DEF Yield
<1>5. CASE ScriptRawYield(s)
  BY <1>0, <1>1, <1>2, <1>5 DEF ScriptRawYield, GiveBack, Coroutine
<1>6. CASE ScriptReturn(s)
  BY <1>0, <1>1, <1>2, <1>6 DEF ScriptReturn, GiveBack, Coroutine
<1>7. CASE ScriptError(s)
  BY <1>0, <1>1, <1>2, <1>7 DEF ScriptError, Coroutine
<1>8. \/ Continues
      \/ \E reason \in AccessorWaits : Yield(s, reason)
      \/ ScriptRawYield(s) \/ ScriptReturn(s) \/ ScriptError(s)
  BY DEF Script, ScriptElse, ScriptHeaders, ScriptBody, ScriptTrailers, ScriptNextChunk,
         ScriptMutate, AccessorWaits
<1>9. CASE \E reason \in AccessorWaits : Yield(s, reason)
  BY <1>1, <1>4, <1>9
<1> QED BY <1>3, <1>5, <1>6, <1>7, <1>8, <1>9

\* Start of a coroutine that onCreate has made and no call has touched.
LEMMA StartResult ==
    ASSUME CoTypeOK, NEW s \in Streams, co[s] = NewCoroutine,
           thread[s] = "ready", Start(s)
    PROVE  /\ UNCHANGED <<unread, thread>>
           /\ SameEvents(co[s], co'[s])
           /\ co'[s].yield_reason = "kWaitToStart"
           /\ co'[s].body_chunk_consumed = co[s].body_chunk_consumed
           /\ \/ /\ s \in Defined /\ co' = co /\ pc' = "script"
                 /\ ret' = "tail" /\ outcome' = "ok" /\ pushed' = "handle"
                 /\ co'[s].state = "kYielded"
              \/ /\ s \notin Defined /\ pc' = "returned" /\ outcome' = "error"
                 /\ co'[s].state = "kExited"
<1>0. co \in [Streams -> Coroutine] /\ NewCoroutine \in Coroutine
  BY NewCoroutineType DEF CoTypeOK
<1>1. NewCoroutine.state = "kYielded" /\ Waits(NewCoroutine, "kWaitToStart")
  BY DEF NewCoroutine, Waits
<1>2. CASE s \in Defined
  BY <1>1, <1>2 DEF Start, SameEvents, Waits
<1>3. CASE s \notin Defined
  <2> DEFINE c == [NewCoroutine EXCEPT !.state = "kExited"]
  <2>1. /\ c.state = "kExited" /\ c.yield_reason = "kWaitToStart"
        /\ SameEvents(NewCoroutine, c)
        /\ c.body_chunk_consumed = NewCoroutine.body_chunk_consumed
    BY DEF NewCoroutine, SameEvents
  <2>2. Goto(s, "returned", c, "error")
    BY <1>1, <1>3 DEF Start
  <2> HIDE DEF c
  <2> QED BY <1>0, <1>3, <2>1, <2>2 DEF Goto
<1> QED BY <1>2, <1>3

\* The coroutine of s is left as it was but for what the event set.
SameState(s) ==
    co'[s].state = co[s].state /\ co'[s].yield_reason = co[s].yield_reason

LEMMA HandleHeadersResult ==
    ASSUME CoTypeOK, ThreadAgrees, NEW s \in Streams, NEW end \in BOOLEAN,
           HandleHeaders(s, end)
    PROVE  /\ co'[s].headers_passed_on = co[s].headers_passed_on
           /\ co'[s].received_headers /\ co'[s].stream_ended = end
           /\ co'[s].received_trailers = co[s].received_trailers
           /\ co'[s].has_body_data = co[s].has_body_data
           /\ co'[s].body_chunk_consumed = co[s].body_chunk_consumed
           /\ unread'[s] => unread[s]
           /\ \A t \in Streams \ {s} : unread'[t] = unread[t]
           /\ \/ Runs(s) /\ ret' = "tail" /\ pushed' = "headers"
              \/ pc' = "tail" /\ outcome' = "ok" /\ SameState(s)
              \/ /\ pc' = "returned" /\ outcome' = "error" /\ SameState(s)
                 /\ co[s].state = "kExited"
<1>0. co[s] \in Coroutine /\ ~Running(s)
  BY DEF CoTypeOK, Running, HandleHeaders
<1> DEFINE c == [co[s] EXCEPT !.stream_ended = end, !.received_headers = TRUE]
<1>1. /\ c \in Coroutine /\ c.headers_passed_on = co[s].headers_passed_on
      /\ c.received_headers /\ c.stream_ended = end
      /\ c.received_trailers = co[s].received_trailers
      /\ c.has_body_data = co[s].has_body_data
      /\ c.body_chunk_consumed = co[s].body_chunk_consumed
      /\ c.state = co[s].state /\ c.yield_reason = co[s].yield_reason
  BY <1>0 DEF Coroutine
<1>2. \/ Waits(c, "kWaitForHeaders") /\ ResumeWith(s, c, "headers", "tail")
      \/ Goto(s, "tail", c, "ok")
  BY DEF HandleHeaders
<1> HIDE DEF c
<1>3. ASSUME NEW stage, NEW status, Goto(s, stage, c, status)
      PROVE  co'[s] = c /\ unread' = unread /\ pc' = stage /\ outcome' = status
  BY <1>3 DEF Goto, CoTypeOK
<1>4. CASE Goto(s, "tail", c, "ok")
  BY <1>1, <1>3, <1>4 DEF SameState
<1>5. CASE Waits(c, "kWaitForHeaders") /\ ResumeWith(s, c, "headers", "tail")
  <2>1. \/ c.state = "kExited" /\ Goto(s, "returned", c, "error")
        \/ Resumed(s, c, "headers", "tail")
    BY <1>0, <1>1, <1>5, ResumeOfWaiting DEF Waits
  <2>2. CASE c.state = "kExited" /\ Goto(s, "returned", c, "error")
    BY <1>1, <1>3, <2>2 DEF SameState
  <2>3. CASE Resumed(s, c, "headers", "tail")
    BY <1>1, <2>3, ResumedRuns DEF SameEvents
  <2> QED BY <2>1, <2>2, <2>3
<1> QED BY <1>2, <1>4, <1>5

LEMMA HandleBodyResult ==
    ASSUME CoTypeOK, ThreadAgrees, NEW s \in Streams, NEW data \in BOOLEAN,
           NEW end \in BOOLEAN, ~co[s].stream_ended, HandleBody(s, data, end)
    PROVE  /\ co'[s].headers_passed_on = co[s].headers_passed_on
           /\ co'[s].received_headers = co[s].received_headers
           /\ co'[s].received_trailers = co[s].received_trailers
           /\ co'[s].stream_ended = end
           /\ co'[s].has_body_data = (co[s].has_body_data \/ data)
           /\ \A t \in Streams \ {s} : unread'[t] = unread[t]
           /\ \/ /\ Runs(s) /\ ret' = "tail" /\ pushed' = "buffer"
                 /\ ~unread'[s] /\ WaitsMore(co[s])
              \/ /\ outcome' = "ok" /\ SameState(s)
                 /\ co'[s].body_chunk_consumed =
                       (co[s].body_chunk_consumed /\ ~data)
                 /\ \/ pc' = "tail" /\ ~Waits(co[s], "kWaitForBodyChunks")
                    \/ pc' = "returned" /\ co[s].state = "kExited"
<1>0. co[s] \in Coroutine /\ ~Running(s)
  BY DEF CoTypeOK, Running, HandleBody
<1> DEFINE c == BodyArrived(co[s], data, end)
           d == [c EXCEPT !.body_chunk_consumed = TRUE]
<1>1. c \in Coroutine
  BY <1>0, BodyArrivedType
<1>2. /\ c.headers_passed_on = co[s].headers_passed_on
      /\ c.received_headers = co[s].received_headers
      /\ c.received_trailers = co[s].received_trailers
      /\ c.stream_ended = end
      /\ c.state = co[s].state /\ c.yield_reason = co[s].yield_reason
      /\ c.has_body_data = (co[s].has_body_data \/ data)
      /\ c.body_chunk_consumed = (co[s].body_chunk_consumed /\ ~data)
  BY <1>0 DEF BodyArrived, Coroutine
<1>3. d \in Coroutine /\ d.state = c.state /\ SameEvents(c, d)
  BY <1>1 DEF Coroutine, SameEvents
<1>4. \/ /\ c.state # "kExited" /\ WaitsMore(c)
         /\ ResumeWith(s, d, "buffer", "tail")
      \/ /\ co' = [co EXCEPT ![s] = c]
         /\ unread' = [unread EXCEPT ![s] = @ \/ data]
         /\ outcome' = "ok"
         /\ \/ pc' = "returned" /\ c.state = "kExited"
            \/ pc' = "tail" /\ ~Waits(c, "kWaitForBodyChunks")
  BY DEF HandleBody, Waits, WaitsMore
<1> HIDE DEF c, d
<1>5. CASE /\ c.state # "kExited" /\ WaitsMore(c)
           /\ ResumeWith(s, d, "buffer", "tail")
  <2>1. Resumed(s, d, "buffer", "tail")
    BY <1>0, <1>2, <1>3, <1>5, ResumeOfWaiting DEF Waits, WaitsMore
  <2>2. WaitsMore(co[s])
    BY <1>2, <1>5 DEF WaitsMore
  <2> QED BY <1>2, <1>3, <2>1, <2>2, ResumedRuns DEF SameEvents
<1>6. CASE /\ co' = [co EXCEPT ![s] = c]
           /\ unread' = [unread EXCEPT ![s] = @ \/ data]
           /\ outcome' = "ok"
           /\ \/ pc' = "returned" /\ c.state = "kExited"
              \/ pc' = "tail" /\ ~Waits(c, "kWaitForBodyChunks")
  <2>1. co'[s] = c /\ \A t \in Streams \ {s} : unread'[t] = unread[t]
    BY <1>6 DEF CoTypeOK
  <2> QED BY <1>2, <1>6, <2>1 DEF SameState, Waits
<1> QED BY <1>4, <1>5, <1>6

LEMMA HandleTrailersResult ==
    ASSUME CoTypeOK, ThreadAgrees, NEW s \in Streams, ~co[s].stream_ended,
           ~co[s].received_trailers, HandleTrailers(s)
    PROVE  /\ co'[s].headers_passed_on = co[s].headers_passed_on
           /\ co'[s].received_headers = co[s].received_headers
           /\ co'[s].has_body_data = co[s].has_body_data
           /\ co'[s].body_chunk_consumed = co[s].body_chunk_consumed
           /\ unread'[s] => unread[s]
           /\ \A t \in Streams \ {s} : unread'[t] = unread[t]
           /\ \/ /\ ~co[s].received_headers /\ co' = co
                 /\ pc' = "returned" /\ outcome' = "error"
              \/ /\ co'[s].received_trailers /\ co'[s].stream_ended
                 /\ \/ /\ Runs(s) /\ ret' = "chunks?"
                       /\ pushed' = "buffer" /\ ~unread'[s]
                       /\ WaitsMore(co[s])
                    \/ pc' = "chunks?" /\ outcome' = "ok" /\ SameState(s)
                    \/ /\ pc' = "returned" /\ outcome' = "ok" /\ SameState(s)
                       /\ co[s].state = "kExited"
<1>0. co[s] \in Coroutine /\ ~Running(s)
  BY DEF CoTypeOK, Running, HandleTrailers
<1> DEFINE c == [co[s] EXCEPT !.received_trailers = TRUE, !.stream_ended = TRUE]
<1>1. /\ c \in Coroutine /\ c.headers_passed_on = co[s].headers_passed_on
      /\ c.received_headers = co[s].received_headers
      /\ c.received_trailers /\ c.stream_ended
      /\ c.has_body_data = co[s].has_body_data
      /\ c.body_chunk_consumed = co[s].body_chunk_consumed
      /\ c.state = co[s].state /\ c.yield_reason = co[s].yield_reason
  BY <1>0 DEF Coroutine
<1>2. \/ ~co[s].received_headers /\ Goto(s, "returned", co[s], "error")
      \/ c.state = "kExited" /\ Goto(s, "returned", c, "ok")
      \/ /\ c.state # "kExited" /\ Waits(c, "kWaitForBody")
         /\ ResumeWith(s, c, "buffer", "chunks?")
      \/ Goto(s, "chunks?", c, "ok")
  BY DEF HandleTrailers
<1> HIDE DEF c
<1>3. ASSUME NEW stage, NEW status, Goto(s, stage, c, status)
      PROVE  co'[s] = c /\ unread' = unread /\ pc' = stage /\ outcome' = status
  BY <1>3 DEF Goto, CoTypeOK
<1>4. CASE ~co[s].received_headers /\ Goto(s, "returned", co[s], "error")
  BY <1>4 DEF Goto, CoTypeOK
<1>5. CASE c.state = "kExited" /\ Goto(s, "returned", c, "ok")
  BY <1>1, <1>3, <1>5 DEF SameState
<1>6. CASE Goto(s, "chunks?", c, "ok")
  BY <1>1, <1>3, <1>6 DEF SameState
<1>7. CASE /\ c.state # "kExited" /\ Waits(c, "kWaitForBody")
           /\ ResumeWith(s, c, "buffer", "chunks?")
  <2>1. Resumed(s, c, "buffer", "chunks?")
    BY <1>0, <1>1, <1>7, ResumeOfWaiting DEF Waits
  <2>2. WaitsMore(co[s])
    BY <1>1, <1>7 DEF WaitsMore, Waits
  <2> QED BY <1>1, <2>1, <2>2, ResumedRuns DEF SameEvents
<1> QED BY <1>2, <1>4, <1>5, <1>6, <1>7
=============================================================================
