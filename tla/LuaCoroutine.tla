---------------------------- MODULE LuaCoroutine ----------------------------
(***************************************************************************)
(* LuaStreamCoroutine (plugins/samples/lua/coroutine.{h,cc}) on top of      *)
(* LuaState::Thread (lua_state.cc) and of the yielding accessors that       *)
(* InjectNativeYieldAccessors binds (envoy_lua_api_registration.cc).        *)
(*                                                                          *)
(* One coroutine drives one direction of one HTTP stream.  A public method  *)
(* is called, runs native code, resumes the Lua thread, runs more native    *)
(* code when the script yields or ends, and returns.  The Wasm VM is single *)
(* threaded, so at most one call is in progress: `on' is the coroutine it   *)
(* is on, `pc' says where it is, `ret' where native code continues when the *)
(* script gives control back.  The script is any Lua program over the       *)
(* accessors: each of its steps is an action.                               *)
(***************************************************************************)
EXTENDS Naturals

CONSTANTS
    Streams,        \* the coroutines of this VM (one per stream and direction)
    NoStream,       \* no call in progress
    Defined,        \* the coroutines whose entry point exists in the script
    MaxSteps,       \* bound: steps a script takes before it can only end
    StartErrors,    \* may a script fail before its first yield?
    RaisedYields,   \* may lua_yield raise (yield across a C-call boundary)?
    DirectResume    \* does a caller use Resume itself?  The filter never does

ASSUME StreamsAssumption == NoStream \notin Streams
ASSUME ScriptAssumption ==
    /\ Defined \subseteq Streams
    /\ MaxSteps \in Nat
    /\ StartErrors \in BOOLEAN
    /\ RaisedYields \in BOOLEAN
    /\ DirectResume \in BOOLEAN

VARIABLES
    co,         \* the fields of LuaStreamCoroutine, per coroutine
    thread,     \* lua_status and is_finished_ of its LuaState::Thread
    on, pc, ret,    \* the call in progress
    outcome,    \* what the last call returned: a status that is ok or not
    pushed,     \* the value native code pushed for the script it resumed
    headerObjs, \* the Header objects a script holds: with or without guard
    steps,      \* steps a script has taken (bounded by MaxSteps)
    unread,     \* history: body data arrived since the script last got a Buffer
    bodyCalled, \* history: the script has read the body through body()
    lateMutation \* history: a header mutation reached the host after pass-on

coVars == <<co, thread, on, pc, ret, outcome, pushed, headerObjs, steps,
            unread, bodyCalled, lateMutation>>

-----------------------------------------------------------------------------
YieldReasons == {"kNone", "kWaitForHeaders", "kWaitForBody",
                 "kWaitForBodyChunks", "kWaitForTrailers", "kWaitForHttp",
                 "kWaitToStart", "kResponded"}

ExecutionStates == {"kExited", "kYielded"}

Coroutine == [state : ExecutionStates, yield_reason : YieldReasons,
              headers_passed_on : BOOLEAN, received_headers : BOOLEAN,
              received_body : BOOLEAN, has_body_data : BOOLEAN,
              body_chunk_consumed : BOOLEAN, received_trailers : BOOLEAN,
              stream_ended : BOOLEAN]

NewCoroutine ==
    [state |-> "kYielded", yield_reason |-> "kWaitToStart",
     headers_passed_on |-> FALSE, received_headers |-> FALSE,
     received_body |-> FALSE, has_body_data |-> FALSE,
     body_chunk_consumed |-> FALSE, received_trailers |-> FALSE,
     stream_ended |-> FALSE]

\* "ready": created, never resumed; "yielded": lua_status is LUA_YIELD;
\* "finished": is_finished_.  is_running_ is pc = "script".
ThreadStates == {"ready", "yielded", "finished"}

\* Where native code is: not called; the script runs; the second and third
\* test of HandleTrailers; the end of Start, HandleHeaders and HandleBody; the
\* loop of RunToCompletion; returned.
Stages == {"idle", "script", "chunks?", "trailers?", "tail", "loop",
           "returned"}

Pushed == {"none", "handle", "headers", "buffer", "nil", "trailers"}

CoInit ==
    /\ co = [s \in Streams |-> NewCoroutine]
    /\ thread = [s \in Streams |-> "ready"]
    /\ on = NoStream /\ pc = "idle" /\ ret = "idle"
    /\ outcome = "ok" /\ pushed = "none"
    /\ headerObjs = [s \in Streams |-> {}]
    /\ steps = [s \in Streams |-> 0]
    /\ unread = [s \in Streams |-> FALSE]
    /\ bodyCalled = [s \in Streams |-> FALSE]
    /\ lateMutation = [s \in Streams |-> FALSE]

-----------------------------------------------------------------------------
(* Native building blocks.  `c' is the coroutine's record after the          *)
(* assignments the calling code has made.                                    *)

Waits(c, reason) == c.yield_reason = reason

Goto(s, stage, c, status) ==
    /\ co' = [co EXCEPT ![s] = c]
    /\ pc' = stage
    /\ outcome' = status
    /\ UNCHANGED <<thread, ret, pushed, headerObjs, unread, bodyCalled>>

\* LuaState::Thread::Resume accepts: not dead, and suspended in a yield.
CanResume(s) == thread[s] = "yielded"

\* A push followed by Resume(1): the coroutine is marked kNone and the script
\* runs with `value' on its stack; a refused resume leaves it exited.
ResumeWith(s, c, value, next) ==
    IF c.state = "kExited"
    THEN Goto(s, "returned", c, "error")
    ELSE IF ~CanResume(s)
    THEN Goto(s, "returned",
              [c EXCEPT !.yield_reason = "kNone", !.state = "kExited"], "error")
    ELSE /\ co' = [co EXCEPT ![s] = [c EXCEPT !.yield_reason = "kNone"]]
         /\ pc' = "script" /\ ret' = next /\ outcome' = "ok"
         /\ pushed' = value
         /\ headerObjs' = IF value = "headers"
                          THEN [headerObjs EXCEPT ![s] = @ \cup {"bare"}]
                          ELSE headerObjs
         /\ unread' = IF value = "buffer"
                      THEN [unread EXCEPT ![s] = FALSE] ELSE unread
         /\ bodyCalled' =
                IF value = "buffer" /\ Waits(co[s], "kWaitForBody")
                THEN [bodyCalled EXCEPT ![s] = TRUE] ELSE bodyCalled
         /\ UNCHANGED thread

-----------------------------------------------------------------------------
(* Public methods.                                                           *)

\* Start, up to the first instruction of the entry point; CanExecuteFunction
\* refuses a thread that is dead or suspended, ExecuteFunctionImpl one whose
\* entry point is not a global function.
Start(s) ==
    /\ pc = "idle"
    /\ on' = s
    /\ IF co[s].state # "kYielded" \/ ~Waits(co[s], "kWaitToStart")
       THEN Goto(s, "returned", co[s], "error")
       ELSE IF thread[s] # "ready" \/ s \notin Defined
       THEN Goto(s, "returned", [co[s] EXCEPT !.state = "kExited"], "error")
       ELSE /\ pc' = "script" /\ ret' = "tail" /\ outcome' = "ok"
            /\ pushed' = "handle"
            /\ UNCHANGED <<co, thread, headerObjs, unread, bodyCalled>>
    /\ UNCHANGED <<steps, lateMutation>>

\* Resume called from outside, as the unit tests do.
Resume(s) ==
    /\ DirectResume
    /\ pc = "idle"
    /\ on' = s
    /\ ResumeWith(s, co[s], "none", "returned")
    /\ UNCHANGED <<steps, lateMutation>>

HandleHeaders(s, end_of_stream) ==
    /\ pc = "idle"
    /\ on' = s
    /\ LET c == [co[s] EXCEPT !.stream_ended = end_of_stream,
                              !.received_headers = TRUE]
       IN IF Waits(c, "kWaitForHeaders")
          THEN ResumeWith(s, c, "headers", "tail")
          ELSE Goto(s, "tail", c, "ok")
    /\ UNCHANGED <<steps, lateMutation>>

\* Variant: new data does not reset body_chunk_consumed_.
BodyArrived_ConsumedKept(c, data, end_of_stream) ==
    [c EXCEPT !.stream_ended = end_of_stream,
              !.has_body_data = @ \/ data,
              !.received_body = @ \/ end_of_stream]

\* The fields HandleBody sets before it looks at the coroutine.
BodyArrived(c, data, end_of_stream) ==
    [c EXCEPT !.stream_ended = end_of_stream,
              !.has_body_data = @ \/ data,
              !.body_chunk_consumed = @ /\ ~data,
              !.received_body = @ \/ end_of_stream]

\* `data' is body_buffer_length > 0.
HandleBody(s, data, end_of_stream) ==
    /\ pc = "idle"
    /\ on' = s
    /\ LET c == BodyArrived(co[s], data, end_of_stream)
           arrived == [unread EXCEPT ![s] = @ \/ data]
       IN IF co[s].stream_ended
          THEN Goto(s, "returned", co[s], "error")
          ELSE IF c.state = "kExited"
          THEN /\ co' = [co EXCEPT ![s] = c] /\ unread' = arrived
               /\ pc' = "returned" /\ outcome' = "ok"
               /\ UNCHANGED <<thread, ret, pushed, headerObjs, bodyCalled>>
          ELSE IF \/ Waits(c, "kWaitForBodyChunks")
                  \/ Waits(c, "kWaitForBody") /\ end_of_stream
          THEN ResumeWith(s, [c EXCEPT !.body_chunk_consumed = TRUE],
                          "buffer", "tail")
          ELSE /\ co' = [co EXCEPT ![s] = c] /\ unread' = arrived
               /\ pc' = "tail" /\ outcome' = "ok"
               /\ UNCHANGED <<thread, ret, pushed, headerObjs, bodyCalled>>
    /\ UNCHANGED <<steps, lateMutation>>

HandleTrailers(s) ==
    /\ pc = "idle"
    /\ on' = s
    /\ LET c == [co[s] EXCEPT !.received_trailers = TRUE,
                              !.stream_ended = TRUE]
       IN IF \/ co[s].stream_ended
             \/ ~co[s].received_headers
             \/ co[s].received_trailers
          THEN Goto(s, "returned", co[s], "error")
          ELSE IF c.state = "kExited"
          THEN Goto(s, "returned", c, "ok")
          ELSE IF Waits(c, "kWaitForBody")
          THEN ResumeWith(s, c, "buffer", "chunks?")
          ELSE Goto(s, "chunks?", c, "ok")
    /\ UNCHANGED <<steps, lateMutation>>

\* Variant: the running thread is not released when the call returns.
Return_KeepsRunning(s, mark) ==
    /\ pc = "returned" /\ on = s
    /\ pc' = "idle" /\ ret' = "idle" /\ pushed' = "none"
    /\ co' = [co EXCEPT ![s].headers_passed_on = @ \/ mark]
    /\ UNCHANGED <<on, thread, outcome, headerObjs, steps, unread, bodyCalled,
                   lateMutation>>

\* The caller takes the result, and calls MarkHeadersPassedOn or does not.
Return(s, mark) ==
    /\ pc = "returned" /\ on = s
    /\ pc' = "idle" /\ on' = NoStream /\ ret' = "idle" /\ pushed' = "none"
    /\ co' = [co EXCEPT ![s].headers_passed_on = @ \/ mark]
    /\ UNCHANGED <<thread, outcome, headerObjs, steps, unread, bodyCalled,
                   lateMutation>>

-----------------------------------------------------------------------------
(* Native code after the script has given control back without an error.    *)

\* HandleTrailers: the script now waits for a chunk and gets nil.
TrailersChunks(s) ==
    /\ pc = "chunks?" /\ on = s
    /\ IF Waits(co[s], "kWaitForBodyChunks")
       THEN ResumeWith(s, co[s], "nil", "trailers?")
       ELSE Goto(s, "trailers?", co[s], "ok")
    /\ UNCHANGED <<on, steps, lateMutation>>

\* HandleTrailers: the script waits for the trailers and gets them.
TrailersTrailers(s) ==
    /\ pc = "trailers?" /\ on = s
    /\ IF Waits(co[s], "kWaitForTrailers")
       THEN ResumeWith(s, co[s], "trailers", "loop")
       ELSE Goto(s, "loop", co[s], "ok")
    /\ UNCHANGED <<on, steps, lateMutation>>

\* Variant: the handlers do not run an ended stream to completion.
Tail_NoCompletion(s) ==
    /\ pc = "tail" /\ on = s
    /\ Goto(s, "returned", co[s], "ok")
    /\ UNCHANGED <<on, steps, lateMutation>>

\* `if (stream_ended_) RETURN_IF_ERROR(RunToCompletion()); return state_;'
Tail(s) ==
    /\ pc = "tail" /\ on = s
    /\ Goto(s, IF co[s].stream_ended THEN "loop" ELSE "returned", co[s], "ok")
    /\ UNCHANGED <<on, steps, lateMutation>>

\* Variant: the final chunk is not marked as consumed.
RunToCompletion_NotConsumed(s) ==
    /\ pc = "loop" /\ on = s
    /\ LET c == co[s] IN
       IF c.state = "kExited" THEN Goto(s, "returned", c, "ok")
       ELSE CASE Waits(c, "kWaitForBodyChunks") ->
                   IF ~c.body_chunk_consumed /\ c.has_body_data
                   THEN ResumeWith(s, c, "buffer", "loop")
                   ELSE ResumeWith(s, c, "nil", "loop")
              [] Waits(c, "kWaitForBody") -> ResumeWith(s, c, "buffer", "loop")
              [] Waits(c, "kWaitForTrailers") ->
                   ResumeWith(s, c, "trailers", "loop")
              [] OTHER -> Goto(s, "returned", c, "ok")
    /\ UNCHANGED <<on, steps, lateMutation>>

\* One turn of RunToCompletion: on an ended stream nothing more can arrive, so
\* every wait for body, chunks or trailers is answered with what there is.
RunToCompletion(s) ==
    /\ pc = "loop" /\ on = s
    /\ LET c == co[s] IN
       IF c.state = "kExited" THEN Goto(s, "returned", c, "ok")
       ELSE CASE Waits(c, "kWaitForBodyChunks") ->
                   IF ~c.body_chunk_consumed /\ c.has_body_data
                   THEN ResumeWith(s, [c EXCEPT !.body_chunk_consumed = TRUE],
                                   "buffer", "loop")
                   ELSE ResumeWith(s, c, "nil", "loop")
              [] Waits(c, "kWaitForBody") -> ResumeWith(s, c, "buffer", "loop")
              [] Waits(c, "kWaitForTrailers") ->
                   ResumeWith(s, c, "trailers", "loop")
              [] OTHER -> Goto(s, "returned", c, "ok")
    /\ UNCHANGED <<on, steps, lateMutation>>

Native(s) ==
    \/ TrailersChunks(s) \/ TrailersTrailers(s) \/ Tail(s)
    \/ RunToCompletion(s)

-----------------------------------------------------------------------------
(* The script.                                                              *)

Running(s) == pc = "script" /\ on = s

\* One more step of a script that still may take some.
Step(s) ==
    /\ Running(s)
    /\ steps[s] < MaxSteps
    /\ steps' = [steps EXCEPT ![s] = @ + 1]

\* lua_resume comes back: `state' is the ExecutionState it maps to.
GiveBack(s, c, threadState) ==
    /\ co' = [co EXCEPT ![s] = c]
    /\ thread' = [thread EXCEPT ![s] = threadState]
    /\ pc' = ret
    /\ UNCHANGED <<on, ret, outcome, pushed, headerObjs, unread, bodyCalled,
                   lateMutation>>

\* Yield: state and reason are set, then lua_yield suspends the thread, or
\* raises and leaves the script running with the reason in place.
Yield(s, reason) ==
    \/ GiveBack(s, [co[s] EXCEPT !.state = "kYielded",
                                 !.yield_reason = reason], "yielded")
    \/ /\ RaisedYields
       /\ co' = [co EXCEPT ![s].state = "kYielded",
                           ![s].yield_reason = reason]
       /\ UNCHANGED <<thread, on, pc, ret, outcome, pushed, headerObjs,
                      unread, bodyCalled, lateMutation>>

Continues == UNCHANGED <<co, thread, on, pc, ret, outcome, pushed>>

\* handle:headers(): waits, or returns the Header that GetHeaders guards.
ScriptHeaders(s) ==
    /\ Step(s)
    /\ IF ~co[s].received_headers
       THEN Yield(s, "kWaitForHeaders")
       ELSE /\ headerObjs' = [headerObjs EXCEPT ![s] = @ \cup {"guarded"}]
            /\ Continues
            /\ UNCHANGED <<unread, bodyCalled, lateMutation>>

\* handle:body(): waits, or returns a Buffer on what the host holds now.
ScriptBody(s) ==
    /\ Step(s)
    /\ IF ~co[s].received_body
       THEN Yield(s, "kWaitForBody")
       ELSE /\ unread' = [unread EXCEPT ![s] = FALSE]
            /\ bodyCalled' = [bodyCalled EXCEPT ![s] = TRUE]
            /\ Continues
            /\ UNCHANGED <<headerObjs, lateMutation>>

ScriptTrailers(s) ==
    /\ Step(s)
    /\ IF ~co[s].received_trailers
       THEN Yield(s, "kWaitForTrailers")
       ELSE /\ Continues
            /\ UNCHANGED <<headerObjs, unread, bodyCalled, lateMutation>>

\* The iterator of handle:bodyChunks() always yields.
ScriptNextChunk(s) ==
    /\ Step(s)
    /\ Yield(s, "kWaitForBodyChunks")

\* Header::Add, Remove and Replace: a guarded object refuses once the headers
\* have been passed on, and the script gets a Lua error it may catch.
Mutable(s, obj) == obj = "guarded" => ~co[s].headers_passed_on

ScriptMutate(s) ==
    /\ Step(s)
    /\ \E obj \in headerObjs[s] : Mutable(s, obj)
    /\ lateMutation' = [lateMutation EXCEPT ![s] = @ \/ co[s].headers_passed_on]
    /\ Continues
    /\ UNCHANGED <<headerObjs, unread, bodyCalled>>

\* coroutine.yield() of the Lua library: suspended, yield_reason_ untouched.
ScriptRawYield(s) ==
    /\ Step(s)
    /\ GiveBack(s, [co[s] EXCEPT !.state = "kYielded"], "yielded")

\* Variant: state_ is not assigned when the thread ends.
ScriptReturn_StateKept(s) ==
    /\ Running(s)
    /\ GiveBack(s, co[s], "finished")
    /\ UNCHANGED steps

ScriptReturn(s) ==
    /\ Running(s)
    /\ GiveBack(s, [co[s] EXCEPT !.state = "kExited"], "finished")
    /\ UNCHANGED steps

\* An error in the script: Start, Resume and every RETURN_IF_ERROR above them
\* return it at once.
ScriptError(s) ==
    /\ Running(s)
    /\ thread[s] = "ready" => StartErrors
    /\ co' = [co EXCEPT ![s].state = "kExited"]
    /\ thread' = [thread EXCEPT ![s] = "finished"]
    /\ pc' = "returned" /\ outcome' = "error"
    /\ UNCHANGED <<on, ret, pushed, headerObjs, steps, unread, bodyCalled,
                   lateMutation>>

\* Every step but body().
ScriptElse(s) ==
    \/ ScriptHeaders(s) \/ ScriptTrailers(s) \/ ScriptNextChunk(s)
    \/ ScriptMutate(s) \/ ScriptRawYield(s)
    \/ ScriptReturn(s) \/ ScriptError(s)

Script(s) == ScriptBody(s) \/ ScriptElse(s)

-----------------------------------------------------------------------------
\* The methods LuaHttpContext calls.
FilterCall(s) ==
    \/ Start(s) \/ HandleTrailers(s)
    \/ \E end \in BOOLEAN : HandleHeaders(s, end)
    \/ \E data, end \in BOOLEAN : HandleBody(s, data, end)

\* Any caller: methods in any order, as the unit tests call them.
Call(s) == FilterCall(s) \/ Resume(s)

CoStep(s) ==
    \/ Call(s) \/ Native(s) \/ Script(s)
    \/ \E mark \in BOOLEAN : Return(s, mark)

CoNext == \E s \in Streams : CoStep(s)

CoSpec == CoInit /\ [][CoNext]_coVars

-----------------------------------------------------------------------------
(* Properties.                                                              *)

\* The fields of the coroutine, its thread and the call in progress have the
\* values their C++ types and the control flow of coroutine.cc allow.
CoTypeOK ==
    /\ co \in [Streams -> Coroutine]
    /\ thread \in [Streams -> ThreadStates]
    /\ on \in Streams \cup {NoStream}
    /\ pc \in Stages /\ (pc = "idle" <=> on = NoStream)
    /\ ret \in Stages \ {"script"} /\ (pc = "script" => ret # "idle")
    /\ outcome \in {"ok", "error"}
    /\ pushed \in Pushed
    /\ headerObjs \in [Streams -> SUBSET {"guarded", "bare"}]
    /\ steps \in [Streams -> 0..MaxSteps]
    /\ unread \in [Streams -> BOOLEAN]
    /\ bodyCalled \in [Streams -> BOOLEAN]
    /\ lateMutation \in [Streams -> BOOLEAN]

WaitsForMore(c) ==
    /\ c.state = "kYielded"
    /\ c.yield_reason \in
          {"kWaitForBody", "kWaitForBodyChunks", "kWaitForTrailers"}

\* Once its stream has ended and the call that said so has returned, a
\* coroutine does not wait for body, chunks or trailers: nothing more arrives
\* to resume it (the comment on stream_ended_, coroutine.h).
EndedNeverWaits ==
    \A s \in Streams :
        (on # s \/ pc = "returned") =>
            ~(WaitsForMore(co[s]) /\ co[s].stream_ended)

\* state_ and yield_reason_ never disagree with the Lua thread: a coroutine
\* that is not running and not exited has a thread that lua_resume accepts, or
\* has not been started.  So no event is answered with "cannot resume dead
\* thread" (Thread::Resume).
ThreadAgrees ==
    \A s \in Streams :
        (~Running(s) /\ co[s].state = "kYielded") =>
            \/ thread[s] = "yielded"
            \/ thread[s] = "ready" /\ Waits(co[s], "kWaitToStart")

\* When the stream ends, RunToCompletion hands bodyChunks() a Buffer only if data
\* came since the script last got one: no chunk is delivered twice and none
\* follows nil.
\* Scripts that also read through body() are exempt: only HandleBody marks that
\* read as consumed.
ChunkDeliveredOnce ==
    [][\A s \in Streams :
          (/\ pc = "loop" /\ on = s /\ Waits(co[s], "kWaitForBodyChunks")
           /\ pc' = "script" /\ pushed' = "buffer")
          => unread[s] \/ bodyCalled[s]]_coVars

\* No header mutation reaches the host after the headers have been passed on
\* (the guard of Header::Add, Remove and Replace).
NoLateMutation == \A s \in Streams : ~lateMutation[s]
=============================================================================
