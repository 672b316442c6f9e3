------------------------------ MODULE LuaRuntime ------------------------------
(***************************************************************************)
(* The Lua plugin's root context and the Lua states and threads it hands    *)
(* out.  onConfigure makes a LuaState, strips it, binds the Envoy API and   *)
(* runs the configuration in it; every stream then takes two threads of the *)
(* current state, each anchored in its registry by a reference that the     *)
(* thread's deleter gives back.                                             *)
(*                                                                          *)
(* Lua states are numbered as they are taken into use; 0 is none.  Only the *)
(* current one is open: lua_state_ owns it, and closes the one before.      *)
(***************************************************************************)
EXTENDS EnvoyLuaApi, Sequences

CONSTANTS
    Streams,        \* the HTTP streams of the proxy
    Configurations, \* what onConfigure may be given
    MaxStates       \* bound: how many Lua states are taken into use

ASSUME StreamsAssumption == IsFiniteSet(Streams)
ASSUME MaxStatesAssumption == MaxStates \in Nat
\* A configuration: whether there is one, whether its bytes can be read, whether
\* it is bytecode, whether running it fails, and the functions it defines.
ASSUME ConfigurationsAssumption ==
    \A c \in Configurations :
      /\ {c.empty, c.readable, c.bytecode, c.fails} \subseteq BOOLEAN
      /\ c.functions \subseteq {"envoy_on_request", "envoy_on_response"}

VARIABLES
    lua_state_,     \* of LuaRootContext: the number of the current Lua state
    vm,             \* the current Lua state
    context,        \* the HTTP contexts
    accepted        \* the last configuration that onConfigure accepted

runtimeVars == <<lua_state_, vm, context, accepted>>

-----------------------------------------------------------------------------
Modes == {"request", "response"}
FunctionOf == [request |-> "envoy_on_request", response |-> "envoy_on_response"]
LUA_NOREF == 0
NoConfiguration == [empty |-> TRUE, readable |-> TRUE, bytecode |-> FALSE,
                    fails |-> FALSE, functions |-> {}]

\* `at_hand' is the object that the script got last, next to its Handle.
NoThread == [ref |-> LUA_NOREF, state |-> 0, status |-> "none", at_hand |-> "nil"]
NoContext == [live |-> FALSE, thread |-> [m \in Modes |-> NoThread]]

-----------------------------------------------------------------------------
(* LuaState::Create, step by step on the state that it makes.                *)

Loaders == {"load", "loadstring", "loadfile", "dofile"}
RawGetter == "__raw_getmetatable"

luaL_newstate ==
    [globals |-> {},
     unwrapped |-> {},      \* the classes with the status unwrapper
     functions |-> {},      \* the global functions of the configuration
     refs |-> <<>>,         \* the registry: which thread a reference anchors
     free |-> <<>>]         \* the references given back, the last one first

\* The libraries of kLuaLibs, of which the base library brings the loaders.
kLuaLibs == {"base", "coroutine", "table", "string", "math"}
OpenLibraries(state) ==
    [state EXCEPT !.globals = @ \cup kLuaLibs \cup (Loaders \ {"loadstring"})]

\* The loaders are set to nil before any code of the user runs.
StubLoaders(state) == [state EXCEPT !.globals = @ \ Loaders]

\* The classes, with Handle's accessors, and the shims for Lua 5.1.
BindClasses(state) ==
    [state EXCEPT !.globals = @ \cup Classes \cup {"absl_Status", "unpack"}]

\* ScopedGlobalFunction: while its scope lasts the function is a global.
ScopedGlobalFunction(state) == [state EXCEPT !.globals = @ \cup {RawGetter}]
EndScope(state) == [state EXCEPT !.globals = @ \ {RawGetter}]

\* attach_status_unwrapper for each class of the list.  It passes over a class
\* that is not bound, and over one whose metatable it cannot get at, which takes
\* the raw getter: LuaBridge hides its metatables from getmetatable.
attach_status_unwrapper(state) ==
    [state EXCEPT !.unwrapped =
       @ \cup {c \in unwrapper_classes : {c, RawGetter} \subseteq state.globals}]

\* Variant: the scope ends when the unwrapper has been defined.
RegisterEnvoyApi_ScopeEnds(state) ==
    attach_status_unwrapper(EndScope(ScopedGlobalFunction(BindClasses(state))))

RegisterEnvoyApi(state) ==
    EndScope(attach_status_unwrapper(ScopedGlobalFunction(BindClasses(state))))

Create == RegisterEnvoyApi(StubLoaders(OpenLibraries(luaL_newstate)))

-----------------------------------------------------------------------------
(* LuaRootContext.                                                          *)

RuntimeInit ==
    /\ lua_state_ = 0
    /\ vm = Create
    /\ context = [s \in Streams |-> NoContext]
    /\ accepted = NoConfiguration

Live == {s \in Streams : context[s].live}

Accepts(config) ==
    config.empty \/ (config.readable /\ ~config.bytecode /\ ~config.fails)

\* The proxy configures a root context while no stream runs on it; `created'
\* says whether Create succeeds.  The new state replaces the old one at the end.
\* Variant: the new state takes its place before the configuration has run.
onConfigure_Early(config, created) ==
    /\ Live = {} /\ lua_state_ < MaxStates
    /\ created
    /\ lua_state_' = lua_state_ + 1
    /\ vm' = [Create EXCEPT !.functions = config.functions]
    /\ accepted' = IF Accepts(config) THEN config ELSE accepted
    /\ UNCHANGED context

onConfigure(config, created) ==
    /\ Live = {} /\ lua_state_ < MaxStates
    /\ IF created /\ Accepts(config)
       THEN /\ lua_state_' = lua_state_ + 1
            /\ vm' = [Create EXCEPT !.functions = config.functions]
            /\ accepted' = config
       ELSE UNCHANGED <<lua_state_, vm, accepted>>
    /\ UNCHANGED context

-----------------------------------------------------------------------------
(* LuaState::NewThread and ~Thread.                                         *)

\* luaL_ref takes the reference given back last, or a new one.
NextRef(state) ==
    IF state.free # <<>> THEN Head(state.free) ELSE Len(state.refs) + 1

luaL_ref(state, thread) ==
    IF state.free # <<>>
    THEN [state EXCEPT !.refs[Head(state.free)] = thread, !.free = Tail(@)]
    ELSE [state EXCEPT !.refs = Append(@, thread)]

Unanchored == <<>>

luaL_unref(state, ref) ==
    [state EXCEPT !.refs[ref] = Unanchored, !.free = <<ref>> \o @]

\* The request thread comes before the response thread; `made' are the modes
\* for which lua_newthread gives one.
Anchor(state, s, mode, made) ==
    IF mode \in made THEN luaL_ref(state, <<s, mode>>) ELSE state

NewThread(state, mode, made) ==
    IF mode \in made
    THEN [NoThread EXCEPT !.ref = NextRef(state), !.state = lua_state_,
                          !.status = "ready"]
    ELSE NoThread

\* onCreate; without a root Lua state the context gets no threads.
onCreate(s, made) ==
    /\ ~context[s].live
    /\ lua_state_ = 0 => made = {}
    /\ LET between == Anchor(vm, s, "request", made)
       IN  /\ context' = [context EXCEPT ![s] =
                [live |-> TRUE,
                 thread |-> [request |-> NewThread(vm, "request", made),
                             response |-> NewThread(between, "response", made)]]]
           /\ vm' = Anchor(between, s, "response", made)
    /\ UNCHANGED <<lua_state_, accepted>>

\* The deleter of a thread.
Release(state, thread) ==
    IF thread.ref = LUA_NOREF THEN state ELSE luaL_unref(state, thread.ref)

\* The context goes; its members in the reverse of their order.
\* Variant: a thread that has finished keeps its reference.
onDelete_Running(s) ==
    /\ context[s].live
    /\ LET Held(t) == IF t.status = "finished" THEN NoThread ELSE t
       IN  vm' = Release(Release(vm, Held(context[s].thread.response)),
                         Held(context[s].thread.request))
    /\ context' = [context EXCEPT ![s] = NoContext]
    /\ UNCHANGED <<lua_state_, accepted>>

onDelete(s) ==
    /\ context[s].live
    /\ vm' = Release(Release(vm, context[s].thread.response),
                     context[s].thread.request)
    /\ context' = [context EXCEPT ![s] = NoContext]
    /\ UNCHANGED <<lua_state_, accepted>>

-----------------------------------------------------------------------------
(* Scripts run.                                                             *)

CanExecuteFunction(thread) == thread.status = "ready"

\* ExecuteFunction: a function that the script does not define leaves the thread
\* as it was; one that it does gets the Handle.
ExecuteFunction(s, mode) ==
    /\ CanExecuteFunction(context[s].thread[mode])
    /\ FunctionOf[mode] \in vm.functions
    /\ context' = [context EXCEPT ![s].thread[mode].status = "running"]
    /\ UNCHANGED <<lua_state_, vm, accepted>>

\* A call of the script, on its Handle or on the object at hand.  An error ends
\* the thread unless the script catches it.
ScriptCalls(s, mode, class, method) ==
    /\ context[s].thread[mode].status = "running"
    /\ class \in {"Handle", context[s].thread[mode].at_hand}
    /\ method \in MethodNames(class)
    /\ \E result \in Results(vm.unwrapped, class, method) :
         context' = [context EXCEPT ![s].thread[mode].at_hand = result]
    /\ UNCHANGED <<lua_state_, vm, accepted>>

\* The function returns or fails.
ScriptEnds(s, mode) ==
    /\ context[s].thread[mode].status = "running"
    /\ context' = [context EXCEPT ![s].thread[mode].status = "finished",
                                  ![s].thread[mode].at_hand = "nil"]
    /\ UNCHANGED <<lua_state_, vm, accepted>>

RuntimeNext ==
    \/ \E c \in Configurations, created \in BOOLEAN : onConfigure(c, created)
    \/ \E s \in Streams :
         \/ \E made \in SUBSET Modes : onCreate(s, made)
         \/ onDelete(s)
         \/ \E mode \in Modes :
              \/ ExecuteFunction(s, mode)
              \/ \E class \in Classes : \E method \in MethodNames(class) :
                   ScriptCalls(s, mode, class, method)
              \/ ScriptEnds(s, mode)

RuntimeSpec == RuntimeInit /\ [][RuntimeNext]_runtimeVars

-----------------------------------------------------------------------------
(* Correctness.                                                             *)

Threads ==
    {t \in Streams \X Modes : context[t[1]].thread[t[2]].status # "none"}
RefOf(t) == context[t[1]].thread[t[2]].ref

\* Every thread of a stream is of the Lua state that is open, and its own
\* reference anchors it there, so that the collector leaves it alone; the
\* registry anchors nothing else, and no reference is given out twice.  That
\* holds though references are used again in the order in which streams end.
ThreadsAnchored ==
    /\ \A t \in Threads :
         /\ context[t[1]].thread[t[2]].state = lua_state_
         /\ RefOf(t) \in DOMAIN vm.refs
         /\ vm.refs[RefOf(t)] = t
    /\ \A i \in DOMAIN vm.refs :
         vm.refs[i] # Unanchored => vm.refs[i] \in Threads /\ RefOf(vm.refs[i]) = i
    /\ {vm.free[i] : i \in DOMAIN vm.free}
         = {i \in DOMAIN vm.refs : vm.refs[i] = Unanchored}
    /\ \A i, j \in DOMAIN vm.free : vm.free[i] = vm.free[j] => i = j

\* Streams run the configuration that was accepted last: one that cannot be read,
\* is bytecode or fails while it runs changes nothing for the streams to come.
AcceptedConfigurationRuns ==
    /\ vm.functions = accepted.functions
    /\ \A t \in Threads :
         context[t[1]].thread[t[2]].status \in {"running", "finished"} =>
           FunctionOf[t[2]] \in accepted.functions

\* A script gets values, nil or errors, but never a status object, which would
\* count as true whatever it says.  That rests on the order in which Create binds
\* the classes and attaches the unwrapper while it can, and on what scripts can
\* come to hold: SslConnection and ParsedName are not among the classes that are
\* unwrapped, and no method of the others gives one of them.
NoStatusSeen ==
    \A t \in Threads : context[t[1]].thread[t[2]].at_hand # StatusNode
=============================================================================
