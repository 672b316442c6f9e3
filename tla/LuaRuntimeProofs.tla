-------------------------- MODULE LuaRuntimeProofs --------------------------
(* Theorems about LuaRuntime: for any number of streams, any configurations  *)
(* and any order in which contexts come and go.                              *)
EXTENDS LuaRuntime, SequenceTheorems, TLAPS

\* A thread is named by its stream and its mode.
ThreadNames == Streams \X Modes

LEMMA NamesAnchor ==
    ASSUME NEW t \in ThreadNames
    PROVE  t # Unanchored
<1>1. Len(t) = 2 /\ Len(<<>>) = 0
  BY DEF ThreadNames
<1> QED BY <1>1 DEF Unanchored

-----------------------------------------------------------------------------
(* The registry.                                                             *)

LuaState ==
    [globals : {Create.globals}, unwrapped : {Create.unwrapped},
     functions : SUBSET {"envoy_on_request", "envoy_on_response"},
     refs : Seq(ThreadNames \cup {Unanchored}), free : Seq(Nat \ {0})]

\* `state' anchors the threads of T, t by the reference R[t], and nothing else;
\* the references it has given out and got back are free, once each.
Anchors(state, T, R) ==
    /\ \A t \in T : R[t] \in DOMAIN state.refs /\ state.refs[R[t]] = t
    /\ \A i \in DOMAIN state.refs :
         state.refs[i] # Unanchored =>
            state.refs[i] \in T /\ R[state.refs[i]] = i
    /\ \A i \in DOMAIN state.free :
         /\ state.free[i] \in DOMAIN state.refs
         /\ state.refs[state.free[i]] = Unanchored
    /\ \A i \in DOMAIN state.refs :
         state.refs[i] = Unanchored =>
            \E j \in DOMAIN state.free : state.free[j] = i
    /\ \A i, j \in DOMAIN state.free : state.free[i] = state.free[j] => i = j

\* Only the references of T matter.
LEMMA AnchorsAgree ==
    ASSUME NEW state, NEW T, NEW R, NEW Q, Anchors(state, T, R),
           \A t \in T : Q[t] = R[t]
    PROVE  Anchors(state, T, Q)
BY DEF Anchors

\* States under construction: without functions and references.
Bare(A) ==
    [globals : SUBSET A, unwrapped : SUBSET unwrapper_classes, functions : {{}},
     refs : {<<>>}, free : {<<>>}]

\* Create leaves such a state, with the unwrapper attached to the classes whose
\* objects scripts come to hold.
LEMMA CreateResult ==
    /\ \E A : Create \in Bare(A)
    /\ {"Handle", "Header", "Buffer"} \subseteq Create.unwrapped
<1> DEFINE Names == {"absl_Status", "unpack"}
           A == kLuaLibs \cup Loaders \cup Classes \cup Names \cup {RawGetter}
           stubbed == StubLoaders(OpenLibraries(luaL_newstate))
           bound == BindClasses(stubbed)
           scoped == ScopedGlobalFunction(bound)
           attached == attach_status_unwrapper(scoped)
<1>0. /\ Classes \cup Names \subseteq A /\ RawGetter \in A
      /\ {"Handle", "Header", "Buffer"} \subseteq Classes
      /\ {"Handle", "Header", "Buffer"} \subseteq unwrapper_classes
  BY DEF Classes, Methods, unwrapper_classes
<1>1. stubbed \in Bare(A)
  BY DEF StubLoaders, OpenLibraries, luaL_newstate, Bare
<1> HIDE DEF A, stubbed
<1>2. bound \in Bare(A) /\ Classes \subseteq bound.globals
  BY <1>0, <1>1 DEF BindClasses, Bare
<1> HIDE DEF bound
<1>3. scoped \in Bare(A) /\ Classes \cup {RawGetter} \subseteq scoped.globals
  BY <1>0, <1>2 DEF ScopedGlobalFunction, Bare
<1> HIDE DEF scoped
<1>4. /\ attached \in Bare(A)
      /\ {"Handle", "Header", "Buffer"} \subseteq attached.unwrapped
  BY <1>0, <1>3 DEF attach_status_unwrapper, Bare
<1>5. Create = EndScope(attached)
  BY DEF Create, RegisterEnvoyApi, attached, scoped, bound, stubbed
<1> HIDE DEF attached
<1>6. Create \in Bare(A) /\ Create.unwrapped = attached.unwrapped
  BY <1>4, <1>5 DEF EndScope, Bare
<1> QED BY <1>4, <1>6

LEMMA CreateAnchorsNone ==
    ASSUME NEW R, NEW F \in SUBSET {"envoy_on_request", "envoy_on_response"}
    PROVE  /\ Create \in LuaState
           /\ [Create EXCEPT !.functions = F] \in LuaState
           /\ [Create EXCEPT !.functions = F].functions = F
           /\ Anchors(Create, {}, R)
           /\ Anchors([Create EXCEPT !.functions = F], {}, R)
<1>1. PICK A : Create \in Bare(A)
  BY CreateResult
<1>2. /\ <<>> \in Seq(ThreadNames \cup {Unanchored}) /\ <<>> \in Seq(Nat \ {0})
      /\ DOMAIN <<>> = {}
  OBVIOUS
<1>3. /\ Create \in LuaState /\ [Create EXCEPT !.functions = F] \in LuaState
      /\ [Create EXCEPT !.functions = F].functions = F
      /\ [Create EXCEPT !.functions = F].refs = <<>>
      /\ [Create EXCEPT !.functions = F].free = <<>>
      /\ Create.refs = <<>> /\ Create.free = <<>>
  BY <1>1, <1>2 DEF LuaState, Bare
<1> QED BY <1>2, <1>3 DEF Anchors

\* luaL_ref anchors one more thread, by a reference nobody has.
LEMMA RefAnchors ==
    ASSUME NEW state \in LuaState, NEW T \in SUBSET ThreadNames,
           NEW R \in [ThreadNames -> Nat], NEW t \in ThreadNames, t \notin T,
           Anchors(state, T, R)
    PROVE  /\ luaL_ref(state, t) \in LuaState
           /\ luaL_ref(state, t).functions = state.functions
           /\ NextRef(state) \in Nat \ {0}
           /\ Anchors(luaL_ref(state, t), T \cup {t},
                      [R EXCEPT ![t] = NextRef(state)])
<1> DEFINE refs == state.refs
           free == state.free
           Slot == ThreadNames \cup {Unanchored}
           r == NextRef(state)
           Q == [R EXCEPT ![t] = r]
           new == luaL_ref(state, t)
<1>0. /\ refs \in Seq(Slot) /\ free \in Seq(Nat \ {0}) /\ Len(refs) \in Nat
      /\ t # Unanchored /\ t \in Slot /\ DOMAIN refs = 1..Len(refs)
  BY NamesAnchor DEF LuaState
<1>1. CASE free # <<>>
  <2>1. /\ r = Head(free) /\ r = free[1] /\ 1 \in DOMAIN free
        /\ r \in DOMAIN refs /\ refs[r] = Unanchored
    BY <1>0, <1>1 DEF NextRef, Anchors
  <2>2. /\ new.refs = [refs EXCEPT ![r] = t] /\ new.free = Tail(free)
        /\ new.functions = state.functions /\ new.globals = state.globals
        /\ new.unwrapped = state.unwrapped
    BY <1>1, <2>1 DEF luaL_ref, LuaState
  <2>3. /\ new.refs \in Seq(Slot) /\ Len(new.refs) = Len(refs)
        /\ DOMAIN new.refs = DOMAIN refs
    BY <1>0, <2>1, <2>2
  <2>4. new = [state EXCEPT !.refs = new.refs, !.free = new.free]
    BY <1>1, <2>1, <2>2 DEF luaL_ref, LuaState
  <2>5. /\ Tail(free) \in Seq(Nat \ {0}) /\ Len(Tail(free)) = Len(free) - 1
        /\ \A i \in DOMAIN Tail(free) :
              Tail(free)[i] = free[i + 1] /\ i + 1 \in DOMAIN free
        /\ \A j \in DOMAIN free : j # 1 => j - 1 \in DOMAIN Tail(free)
    BY <1>0, <1>1
  <2>6. new \in LuaState
    BY <2>2, <2>3, <2>4, <2>5 DEF LuaState
  <2>7. Q[t] = r /\ \A u \in T : Q[u] = R[u]
    BY <1>0, <2>1
  <2>8. Anchors(new, T \cup {t}, Q)
    <3> HIDE DEF new, r, refs, free, Q
    <3>0. /\ \A u \in T : R[u] \in DOMAIN refs /\ refs[R[u]] = u
          /\ \A i \in DOMAIN refs :
               refs[i] # Unanchored => refs[i] \in T /\ R[refs[i]] = i
          /\ \A i \in DOMAIN free :
               free[i] \in DOMAIN refs /\ refs[free[i]] = Unanchored
          /\ \A i \in DOMAIN refs :
               refs[i] = Unanchored => \E j \in DOMAIN free : free[j] = i
          /\ \A i, j \in DOMAIN free : free[i] = free[j] => i = j
      BY DEF Anchors, refs, free
    <3>1. /\ new.refs[r] = t
          /\ \A i \in DOMAIN refs : i # r => new.refs[i] = refs[i]
      BY <1>0, <2>1, <2>2
    <3>2. \A u \in T \cup {t} : Q[u] \in DOMAIN new.refs /\ new.refs[Q[u]] = u
      BY <1>0, <2>1, <2>3, <2>7, <3>0, <3>1, NamesAnchor
    <3>3. \A i \in DOMAIN new.refs :
            new.refs[i] # Unanchored =>
               new.refs[i] \in T \cup {t} /\ Q[new.refs[i]] = i
      BY <2>1, <2>3, <2>7, <3>0, <3>1
    <3>4. \A i \in DOMAIN new.free : /\ new.free[i] = free[i + 1]
                                     /\ i + 1 \in DOMAIN free /\ i + 1 # 1
      BY <1>0, <2>2, <2>5
    <3>5. \A i \in DOMAIN new.free :
            /\ new.free[i] \in DOMAIN new.refs
            /\ new.refs[new.free[i]] = Unanchored
      BY <2>1, <2>3, <3>0, <3>1, <3>4
    <3>6. \A i \in DOMAIN new.refs :
            new.refs[i] = Unanchored =>
               \E j \in DOMAIN new.free : new.free[j] = i
      <4> SUFFICES ASSUME NEW i \in DOMAIN refs, new.refs[i] = Unanchored
                   PROVE  \E j \in DOMAIN new.free : new.free[j] = i
        BY <2>3
      <4>1. i # r /\ refs[i] = Unanchored
        BY <1>0, <3>1
      <4>2. PICK j \in DOMAIN free : free[j] = i
        BY <3>0, <4>1
      <4>3. j # 1 /\ j \in Nat
        BY <1>0, <2>1, <4>1, <4>2
      <4>4. j - 1 \in DOMAIN new.free /\ (j - 1) + 1 = j
        BY <2>2, <2>5, <4>3
      <4> QED BY <3>4, <4>2, <4>4
    <3>7. \A i, j \in DOMAIN new.free : new.free[i] = new.free[j] => i = j
      <4>1. DOMAIN new.free \subseteq Nat
        BY <1>0, <2>2, <2>5
      <4> QED BY <3>0, <3>4, <4>1
    <3> QED BY <3>2, <3>3, <3>5, <3>6, <3>7 DEF Anchors
  <2> QED BY <1>0, <2>1, <2>2, <2>6, <2>8
<1>2. CASE free = <<>>
  <2>1. r = Len(refs) + 1 /\ r \in Nat \ {0} /\ r \notin DOMAIN refs
    BY <1>0, <1>2 DEF NextRef
  <2>2. /\ new.refs = Append(refs, t) /\ new.free = free
        /\ new.functions = state.functions /\ new.globals = state.globals
        /\ new.unwrapped = state.unwrapped
    BY <1>2 DEF luaL_ref, LuaState
  <2>3. /\ new.refs \in Seq(Slot) /\ DOMAIN new.refs = DOMAIN refs \cup {r}
        /\ new.refs[r] = t
        /\ \A i \in DOMAIN refs : new.refs[i] = refs[i]
    BY <1>0, <2>1, <2>2
  <2>4. new = [state EXCEPT !.refs = new.refs]
    BY <1>2, <2>2 DEF luaL_ref, LuaState
  <2>5. new \in LuaState
    BY <2>2, <2>3, <2>4 DEF LuaState
  <2>6. Q[t] = r /\ \A u \in T : Q[u] = R[u]
    BY <1>0, <2>1
  <2>7. Anchors(new, T \cup {t}, Q)
    <3> HIDE DEF new, r, refs, Q
    <3>0. /\ \A u \in T : R[u] \in DOMAIN refs /\ refs[R[u]] = u
          /\ \A i \in DOMAIN refs :
               refs[i] # Unanchored => refs[i] \in T /\ R[refs[i]] = i
          /\ \A i \in DOMAIN refs : refs[i] # Unanchored
      BY <1>2 DEF Anchors, refs
    <3>1. new.free = <<>> /\ DOMAIN <<>> = {}
      BY <1>2, <2>2
    <3>2. \A u \in T \cup {t} : Q[u] \in DOMAIN new.refs /\ new.refs[Q[u]] = u
      BY <2>3, <2>6, <3>0
    <3>3. \A i \in DOMAIN new.refs :
            /\ new.refs[i] # Unanchored
            /\ new.refs[i] \in T \cup {t} /\ Q[new.refs[i]] = i
      BY <1>0, <2>1, <2>3, <2>6, <3>0
    <3> QED BY <3>1, <3>2, <3>3 DEF Anchors
  <2> QED BY <2>1, <2>2, <2>5, <2>7
<1> QED BY <1>1, <1>2

\* luaL_unref gives one reference back; the thread it anchored is anchored no more.
LEMMA UnrefAnchors ==
    ASSUME NEW state \in LuaState, NEW T \in SUBSET ThreadNames,
           NEW R \in [ThreadNames -> Nat], NEW t \in T, Anchors(state, T, R)
    PROVE  /\ luaL_unref(state, R[t]) \in LuaState
           /\ luaL_unref(state, R[t]).functions = state.functions
           /\ Anchors(luaL_unref(state, R[t]), T \ {t}, R)
<1> DEFINE refs == state.refs
           free == state.free
           Slot == ThreadNames \cup {Unanchored}
           r == R[t]
           new == luaL_unref(state, r)
<1>0. /\ refs \in Seq(Slot) /\ free \in Seq(Nat \ {0}) /\ Len(refs) \in Nat
      /\ t # Unanchored /\ t \in Slot /\ DOMAIN refs = 1..Len(refs)
      /\ r \in DOMAIN refs /\ refs[r] = t /\ r \in Nat \ {0}
  BY NamesAnchor DEF LuaState, Anchors
<1>1. /\ new.refs = [refs EXCEPT ![r] = Unanchored] /\ new.free = <<r>> \o free
      /\ new.functions = state.functions /\ new.globals = state.globals
        /\ new.unwrapped = state.unwrapped
  BY DEF luaL_unref, LuaState
<1>2. /\ new.refs \in Seq(Slot) /\ DOMAIN new.refs = DOMAIN refs
      /\ new.refs[r] = Unanchored
      /\ \A i \in DOMAIN refs : i # r => new.refs[i] = refs[i]
  BY <1>0, <1>1
<1>3. /\ new.free \in Seq(Nat \ {0}) /\ 1 \in DOMAIN new.free /\ new.free[1] = r
      /\ \A i \in DOMAIN new.free : i # 1 => /\ i - 1 \in DOMAIN free
                                             /\ new.free[i] = free[i - 1]
      /\ \A i \in DOMAIN free : /\ i + 1 \in DOMAIN new.free
                                /\ new.free[i + 1] = free[i]
  <2>1. /\ <<r>> \in Seq(Nat \ {0}) /\ Len(<<r>>) = 1 /\ <<r>>[1] = r
    BY <1>0
  <2> DEFINE f == <<r>> \o free
  <2>2. /\ f \in Seq(Nat \ {0}) /\ Len(f) = 1 + Len(free) /\ Len(free) \in Nat
        /\ \A i \in 1..Len(f) :
              f[i] = IF i <= 1 THEN <<r>>[i] ELSE free[i - 1]
    BY <1>0, <2>1, ConcatProperties
  <2>3. DOMAIN f = 1..(1 + Len(free)) /\ DOMAIN free = 1..Len(free)
    BY <1>0, <2>2
  <2> HIDE DEF f, r, free
  <2>4. new.free = f
    BY <1>1 DEF f, free
  <2> QED BY <2>1, <2>2, <2>3, <2>4
<1>4. new = [state EXCEPT !.refs = new.refs, !.free = new.free]
  BY <1>1 DEF luaL_unref, LuaState
<1>5. new \in LuaState
  BY <1>1, <1>2, <1>3, <1>4 DEF LuaState
<1>6. Anchors(new, T \ {t}, R)
  <2>0. /\ \A u \in T : R[u] \in DOMAIN refs /\ refs[R[u]] = u
        /\ \A i \in DOMAIN refs :
             refs[i] # Unanchored => refs[i] \in T /\ R[refs[i]] = i
        /\ \A i \in DOMAIN free :
             free[i] \in DOMAIN refs /\ refs[free[i]] = Unanchored
        /\ \A i \in DOMAIN refs :
             refs[i] = Unanchored => \E j \in DOMAIN free : free[j] = i
        /\ \A i, j \in DOMAIN free : free[i] = free[j] => i = j
    BY DEF Anchors
  <2> HIDE DEF new, r, refs, free
  <2>1. \A u \in T \ {t} : R[u] \in DOMAIN new.refs /\ new.refs[R[u]] = u
    BY <1>0, <1>2, <2>0
  <2>2. \A i \in DOMAIN new.refs :
          new.refs[i] # Unanchored =>
             new.refs[i] \in T \ {t} /\ R[new.refs[i]] = i
    BY <1>0, <1>2, <2>0 DEF r
  <2>3. \A i \in DOMAIN new.free :
          /\ new.free[i] \in DOMAIN new.refs
          /\ new.refs[new.free[i]] = Unanchored
    <3>1. \A i \in DOMAIN free : free[i] \in DOMAIN refs \ {r}
      BY <1>0, <2>0
    <3>2. \A i \in DOMAIN new.free :
            new.free[i] = r \/ \E j \in DOMAIN free : new.free[i] = free[j]
      BY <1>3
    <3> QED BY <1>0, <1>2, <2>0, <3>1, <3>2
  <2>4. \A i \in DOMAIN new.refs :
          new.refs[i] = Unanchored =>
             \E j \in DOMAIN new.free : new.free[j] = i
    BY <1>2, <1>3, <2>0
  <2>5. \A i, j \in DOMAIN new.free : new.free[i] = new.free[j] => i = j
    <3>1. /\ \A i \in DOMAIN free : free[i] # r
          /\ DOMAIN new.free \subseteq Nat
      BY <1>0, <1>3, <2>0
    <3>2. \A i, j \in DOMAIN new.free :
            i # 1 /\ j # 1 /\ new.free[i] = new.free[j] => i - 1 = j - 1
      BY <1>3, <2>0
    <3> QED BY <1>3, <3>1, <3>2
  <2> QED BY <2>1, <2>2, <2>3, <2>4, <2>5 DEF Anchors
<1> QED BY <1>1, <1>5, <1>6

-----------------------------------------------------------------------------
(* The threads of the contexts.                                              *)

\* What a script can come to hold, next to its Handle.
Objects == {Nil, Data, "raised", "Header", "Buffer"}

ThreadType ==
    [ref : Nat, state : Nat, status : {"none", "ready", "running", "finished"},
     at_hand : Objects]

ContextType == [live : BOOLEAN, thread : [Modes -> ThreadType]]

RuntimeTypeOK ==
    /\ lua_state_ \in Nat
    /\ vm \in LuaState
    /\ context \in [Streams -> ContextType]

\* Thread by thread: only a live context has one, a thread has a reference and
\* is of the state that is open, and one that has been started runs a function
\* of the configuration that was accepted.
ThreadOK(s, m) ==
    LET t == context[s].thread[m] IN
    /\ ~context[s].live => t = NoThread
    /\ t.status = "none" <=> t.ref = LUA_NOREF
    /\ t.status # "none" => t.state = lua_state_
    /\ t.status \in {"running", "finished"} =>
          FunctionOf[m] \in accepted.functions

RefMap == [t \in ThreadNames |-> RefOf(t)]

RuntimeInv ==
    /\ RuntimeTypeOK
    /\ Anchors(vm, Threads, RefMap)
    /\ \A s \in Streams, m \in Modes : ThreadOK(s, m)
    /\ vm.functions = accepted.functions

LEMMA NoThreadType ==
    /\ NoThread \in ThreadType /\ NoContext \in ContextType
    /\ NoThread.status = "none" /\ NoThread.ref = LUA_NOREF
    /\ \A m \in Modes : NoContext.thread[m] = NoThread
    /\ NoContext.live = FALSE
BY DEF NoThread, NoContext, ThreadType, ContextType, Objects, Nil, LUA_NOREF

LEMMA InThreads ==
    ASSUME NEW s \in Streams, NEW m \in Modes
    PROVE  /\ <<s, m>> \in ThreadNames
           /\ <<s, m>> \in Threads <=> context[s].thread[m].status # "none"
           /\ RefMap[<<s, m>>] = context[s].thread[m].ref
           /\ RefOf(<<s, m>>) = context[s].thread[m].ref
BY DEF Threads, RefMap, RefOf, ThreadNames

\* A step that changes threads, but neither which there are nor their references.
LEMMA SameThreads ==
    ASSUME RuntimeInv, vm' = vm,
           \A s \in Streams, m \in Modes :
              /\ context'[s].thread[m].ref = context[s].thread[m].ref
              /\ context'[s].thread[m].status = "none"
                   <=> context[s].thread[m].status = "none"
    PROVE  Anchors(vm', Threads', RefMap')
<1>1. Threads' = Threads
  BY DEF Threads
<1>2. \A t \in Threads : RefMap'[t] = RefMap[t]
  BY DEF Threads, RefMap, RefOf, ThreadNames
<1> QED BY <1>1, <1>2, AnchorsAgree DEF RuntimeInv

\* What a call can give to a script: never a status object, because the classes
\* it can come to hold are unwrapped.
LEMMA ResultsAreObjects ==
    ASSUME NEW class \in {"Handle"} \cup Objects, class \in Classes,
           NEW method \in MethodNames(class)
    PROVE  Results(Create.unwrapped, class, method) \subseteq Objects
<1>1. class \in {"Handle", "Header", "Buffer"}
  BY DEF Objects, Classes, Methods, Nil, Data
<1>2. class \in Create.unwrapped
  BY <1>1, CreateResult
<1>3. CASE method \in Logs
  BY <1>3 DEF Results, Objects
<1>4. CASE method \notin Logs
  <2>1. method \in DOMAIN Methods[class]
    BY <1>4 DEF MethodNames
  <2>2. CASE class = "Handle"
    <3>1. Methods[class] = HandleMethods
      BY <2>2 DEF Methods
    <3>2. method \in {"headers", "body", "trailers", "bodyChunks", "streamInfo",
                      "connection"}
      BY <2>1, <3>1 DEF HandleMethods
    <3>3. /\ method \in NativeAccessors => HandleMethods[method] \subseteq Objects
          /\ method \notin NativeAccessors => HandleMethods[method] = {"error"}
      BY <3>2 DEF HandleMethods, NativeAccessors, Objects, Data
    <3> QED BY <1>2, <1>4, <2>2, <3>1, <3>3 DEF Results, Unwrap, Objects
  <2>3. CASE class \in {"Header", "Buffer"}
    <3>1. Methods[class] \in {HeaderMethods, BufferMethods}
      BY <2>3 DEF Methods
    <3>2. Methods[class][method] \subseteq {"ok", "error", Nil, Data}
      BY <2>1, <3>1 DEF HeaderMethods, BufferMethods
    <3> QED BY <1>2, <1>4, <2>3, <3>2 DEF Results, Unwrap, Objects, Nil, Data
  <2> QED BY <1>1, <2>2, <2>3
<1> QED BY <1>3, <1>4

LEMMA RuntimeInvInit ==
    ASSUME RuntimeInit
    PROVE  RuntimeInv
<1>1. /\ vm = Create /\ lua_state_ = 0 /\ accepted = NoConfiguration
      /\ \A s \in Streams : context[s] = NoContext
      /\ context \in [Streams -> ContextType]
  BY NoThreadType DEF RuntimeInit
<1>2. Threads = {}
  BY <1>1, NoThreadType DEF Threads
<1>3. Create \in LuaState /\ Anchors(Create, {}, RefMap)
  BY CreateAnchorsNone
<1>4. vm.functions = accepted.functions
  BY <1>1, CreateResult DEF Bare, NoConfiguration
<1>5. ASSUME NEW s \in Streams, NEW m \in Modes PROVE ThreadOK(s, m)
  <2>1. context[s].thread[m] = NoThread
    BY <1>1, NoThreadType
  <2> QED BY <2>1, NoThreadType DEF ThreadOK
<1> QED BY <1>1, <1>2, <1>3, <1>4, <1>5 DEF RuntimeInv, RuntimeTypeOK

\* A configuration that is accepted comes with a state that anchors nothing, and
\* no stream has a thread of the state before.
LEMMA ConfigureStep ==
    ASSUME RuntimeInv, NEW c \in Configurations, NEW created \in BOOLEAN,
           onConfigure(c, created)
    PROVE  RuntimeInv'
<1>1. /\ context' = context /\ Live = {}
  BY DEF onConfigure, RuntimeInv
<1>2. \A s \in Streams, m \in Modes : context[s].thread[m] = NoThread
  BY <1>1 DEF Live, RuntimeInv, ThreadOK
<1>3. Threads' = {} /\ Threads = {}
  BY <1>1, <1>2, NoThreadType DEF Threads
<1>4. ASSUME NEW s \in Streams, NEW m \in Modes PROVE ThreadOK(s, m)'
  BY <1>1, <1>2, NoThreadType DEF ThreadOK
<1>5. CASE created /\ Accepts(c)
  <2>1. /\ lua_state_' = lua_state_ + 1 /\ accepted' = c
        /\ vm' = [Create EXCEPT !.functions = c.functions]
    BY <1>5 DEF onConfigure
  <2>2. c.functions \in SUBSET {"envoy_on_request", "envoy_on_response"}
    BY ConfigurationsAssumption
  <2>3. /\ vm' \in LuaState /\ vm'.functions = c.functions
        /\ Anchors(vm', {}, RefMap')
    BY <2>1, <2>2, CreateAnchorsNone
  <2> QED BY <1>1, <1>3, <1>4, <2>1, <2>3 DEF RuntimeInv, RuntimeTypeOK
<1>6. CASE ~(created /\ Accepts(c))
  <2>1. UNCHANGED <<lua_state_, vm, accepted>>
    BY <1>6 DEF onConfigure
  <2>2. Anchors(vm, {}, RefMap')
    BY <1>3, AnchorsAgree DEF RuntimeInv
  <2> QED BY <1>1, <1>3, <1>4, <2>1, <2>2 DEF RuntimeInv, RuntimeTypeOK
<1> QED BY <1>5, <1>6

\* NewThread for one mode.
Named(s, m, made) == IF m \in made THEN {<<s, m>>} ELSE {}

NewThreadOK(thread, m, made) ==
    /\ thread \in ThreadType
    /\ thread.status = IF m \in made THEN "ready" ELSE "none"
    /\ thread.status = "none" <=> thread.ref = LUA_NOREF
    /\ thread.status # "none" => thread.state = lua_state_

AnchoredOne(state, T, R, s, m, made) ==
    /\ Anchor(state, s, m, made) \in LuaState
    /\ Anchor(state, s, m, made).functions = state.functions
    /\ NewThreadOK(NewThread(state, m, made), m, made)
    /\ Anchors(Anchor(state, s, m, made), T \cup Named(s, m, made),
               [R EXCEPT ![<<s, m>>] = NewThread(state, m, made).ref])

LEMMA AnchorOne ==
    ASSUME NEW state \in LuaState, NEW T \in SUBSET ThreadNames,
           NEW R \in [ThreadNames -> Nat], Anchors(state, T, R),
           NEW s \in Streams, NEW m \in Modes, <<s, m>> \notin T,
           NEW made, lua_state_ \in Nat
    PROVE  AnchoredOne(state, T, R, s, m, made)
<1>0. <<s, m>> \in ThreadNames
  BY DEF ThreadNames
<1>1. CASE m \in made
  <2>1. /\ Anchor(state, s, m, made) = luaL_ref(state, <<s, m>>)
        /\ NewThread(state, m, made) =
             [NoThread EXCEPT !.ref = NextRef(state), !.state = lua_state_,
                              !.status = "ready"]
    BY <1>1 DEF Anchor, NewThread
  <2>2. /\ luaL_ref(state, <<s, m>>) \in LuaState
        /\ luaL_ref(state, <<s, m>>).functions = state.functions
        /\ NextRef(state) \in Nat \ {0}
        /\ Anchors(luaL_ref(state, <<s, m>>), T \cup {<<s, m>>},
                   [R EXCEPT ![<<s, m>>] = NextRef(state)])
    BY <1>0, RefAnchors
  <2>3. /\ NewThread(state, m, made) \in ThreadType
        /\ NewThread(state, m, made).ref = NextRef(state)
        /\ NewThread(state, m, made).state = lua_state_
        /\ NewThread(state, m, made).status = "ready"
    BY <2>1, <2>2, NoThreadType DEF ThreadType
  <2> QED BY <1>1, <2>1, <2>2, <2>3 DEF LUA_NOREF, Named, NewThreadOK,
                                             AnchoredOne
<1>2. CASE m \notin made
  <2>1. Anchor(state, s, m, made) = state /\ NewThread(state, m, made) = NoThread
    BY <1>2 DEF Anchor, NewThread
  <2>2. \A t \in T : [R EXCEPT ![<<s, m>>] = NoThread.ref][t] = R[t]
    OBVIOUS
  <2>3. Anchors(state, T, [R EXCEPT ![<<s, m>>] = NoThread.ref])
    BY <2>2, AnchorsAgree
  <2> QED BY <1>2, <2>1, <2>3, NoThreadType DEF Named, NewThreadOK,
                                               AnchoredOne
<1> QED BY <1>1, <1>2

LEMMA CreateStep ==
    ASSUME RuntimeInv, NEW s \in Streams, NEW made \in SUBSET Modes,
           onCreate(s, made)
    PROVE  RuntimeInv'
<1> DEFINE between == Anchor(vm, s, "request", made)
           req == NewThread(vm, "request", made)
           resp == NewThread(between, "response", made)
           new == [live |-> TRUE, thread |-> [request |-> req, response |-> resp]]
           RT == Named(s, "request", made)
           ST == Named(s, "response", made)
           R1 == [RefMap EXCEPT ![<<s, "request">>] = req.ref]
           R2 == [R1 EXCEPT ![<<s, "response">>] = resp.ref]
<1>0. /\ lua_state_ \in Nat /\ vm \in LuaState
      /\ context \in [Streams -> ContextType]
      /\ \A u \in Streams, m \in Modes : ThreadOK(u, m)
      /\ Anchors(vm, Threads, RefMap)
      /\ {"request", "response"} = Modes
      /\ Threads \in SUBSET ThreadNames
  BY DEF RuntimeInv, RuntimeTypeOK, Modes, Threads, ThreadNames
<1>1. RefMap \in [ThreadNames -> Nat]
  BY <1>0 DEF RefMap, RefOf, ThreadNames, ContextType, ThreadType
<1>2. /\ ~context[s].live /\ context' = [context EXCEPT ![s] = new]
      /\ vm' = Anchor(between, s, "response", made)
      /\ UNCHANGED <<lua_state_, accepted>>
  BY DEF onCreate
<1>3. /\ <<s, "request">> \notin Threads /\ <<s, "response">> \notin Threads
      /\ <<s, "request">> \in ThreadNames /\ <<s, "response">> \in ThreadNames
      /\ <<s, "request">> # <<s, "response">>
  BY <1>0, <1>2, InThreads, NoThreadType DEF ThreadOK
<1>4. /\ between \in LuaState /\ between.functions = vm.functions
      /\ NewThreadOK(req, "request", made)
      /\ Anchors(between, Threads \cup RT, R1)
  <2>1. "request" \in Modes /\ made \in SUBSET Modes
    BY <1>0
  <2>2. AnchoredOne(vm, Threads, RefMap, s, "request", made)
    BY <1>0, <1>1, <1>3, <2>1, AnchorOne
  <2> QED BY <2>2 DEF AnchoredOne
<1>5. R1 \in [ThreadNames -> Nat] /\ Threads \cup RT \in SUBSET ThreadNames
      /\ <<s, "response">> \notin Threads \cup RT
  BY <1>0, <1>1, <1>3, <1>4 DEF ThreadType, NewThreadOK, Named
<1>6. /\ vm' \in LuaState /\ vm'.functions = between.functions
      /\ NewThreadOK(resp, "response", made)
      /\ Anchors(vm', Threads \cup RT \cup ST, R2)
  <2> HIDE DEF between, RT, R1
  <2>1. "response" \in Modes
    BY <1>0
  <2>2. AnchoredOne(between, Threads \cup RT, R1, s, "response", made)
    BY <1>0, <1>4, <1>5, <2>1, AnchorOne
  <2> QED BY <1>2, <2>2 DEF AnchoredOne
<1> HIDE DEF between, req, resp, R1
<1>7. /\ new \in ContextType /\ new.live /\ new.thread["request"] = req
      /\ new.thread["response"] = resp
  BY <1>0, <1>4, <1>6 DEF ContextType, NewThreadOK
<1> HIDE DEF new
<1>8. /\ context' \in [Streams -> ContextType] /\ context'[s] = new
      /\ \A u \in Streams \ {s} : context'[u] = context[u]
  BY <1>0, <1>2, <1>7
<1>9. Threads' = Threads \cup RT \cup ST
  <2>1. ASSUME NEW u \in Streams, NEW m \in Modes
        PROVE  <<u, m>> \in Threads' <=> <<u, m>> \in Threads \cup RT \cup ST
    <3>1. CASE u # s
      BY <1>8, <3>1 DEF Threads, Named
    <3>2. CASE u = s /\ m = "request"
      BY <1>3, <1>4, <1>7, <1>8, <3>2 DEF Threads, Named, NewThreadOK
    <3>3. CASE u = s /\ m = "response"
      BY <1>3, <1>6, <1>7, <1>8, <3>3 DEF Threads, Named, NewThreadOK
    <3> QED BY <1>0, <3>1, <3>2, <3>3
  <2>2. Threads' \subseteq ThreadNames
    BY DEF Threads, ThreadNames
  <2>3. Threads \cup RT \cup ST \subseteq ThreadNames
    BY <1>0, <1>3 DEF Named
  <2> HIDE DEF RT, ST
  <2>4. \A t \in ThreadNames : t \in Threads' <=> t \in Threads \cup RT \cup ST
    BY <2>1 DEF ThreadNames
  <2> QED BY <2>2, <2>3, <2>4
<1>10. \A t \in ThreadNames : RefMap'[t] = R2[t]
  <2>1. ASSUME NEW u \in Streams, NEW m \in Modes
        PROVE  context'[u].thread[m].ref = R2[<<u, m>>]
    <3>0. <<u, m>> \in ThreadNames /\ RefMap[<<u, m>>] = context[u].thread[m].ref
      BY InThreads
    <3>1. CASE u # s
      BY <1>1, <1>5, <1>8, <3>0, <3>1 DEF R1
    <3>2. CASE u = s /\ m = "request"
      BY <1>1, <1>3, <1>5, <1>7, <1>8, <3>2 DEF R1
    <3>3. CASE u = s /\ m = "response"
      BY <1>3, <1>5, <1>7, <1>8, <3>3
    <3> QED BY <1>0, <3>1, <3>2, <3>3
  <2> QED BY <2>1 DEF RefMap, RefOf, ThreadNames
<1>11. Anchors(vm', Threads', RefMap')
  <2> HIDE DEF RT, ST, R2
  <2>1. Anchors(vm', Threads', R2) /\ Threads' \subseteq ThreadNames
    BY <1>6, <1>9 DEF Threads, ThreadNames
  <2> QED BY <1>10, <2>1, AnchorsAgree
<1>12. ASSUME NEW u \in Streams, NEW m \in Modes PROVE ThreadOK(u, m)'
  <2>1. CASE u # s
    BY <1>0, <1>2, <1>8, <2>1 DEF ThreadOK
  <2>2. CASE u = s
    <3>1. context'[u].thread[m] \in {req, resp}
      BY <1>0, <1>7, <1>8, <2>2
    <3> QED BY <1>2, <1>4, <1>6, <1>7, <1>8, <2>2, <3>1
        DEF ThreadOK, NewThreadOK
  <2> QED BY <2>1, <2>2
<1> QED BY <1>0, <1>2, <1>4, <1>6, <1>8, <1>11, <1>12
        DEF RuntimeInv, RuntimeTypeOK

\* The deleter of one thread.
LEMMA ReleaseOne ==
    ASSUME NEW state \in LuaState, NEW T \in SUBSET ThreadNames,
           NEW R \in [ThreadNames -> Nat], Anchors(state, T, R),
           NEW t \in ThreadNames, NEW thread, thread.ref = R[t],
           t \in T <=> thread.ref # LUA_NOREF
    PROVE  /\ Release(state, thread) \in LuaState
           /\ Release(state, thread).functions = state.functions
           /\ Anchors(Release(state, thread), T \ {t}, R)
<1>1. CASE thread.ref = LUA_NOREF
  <2>1. Release(state, thread) = state /\ T \ {t} = T
    BY <1>1 DEF Release
  <2> QED BY <2>1
<1>2. CASE thread.ref # LUA_NOREF
  <2>1. Release(state, thread) = luaL_unref(state, R[t]) /\ t \in T
    BY <1>2 DEF Release
  <2> QED BY <2>1, UnrefAnchors
<1> QED BY <1>1, <1>2

LEMMA DeleteStep ==
    ASSUME RuntimeInv, NEW s \in Streams, onDelete(s)
    PROVE  RuntimeInv'
<1> DEFINE req == context[s].thread["request"]
           resp == context[s].thread["response"]
           reqName == <<s, "request">>
           respName == <<s, "response">>
           between == Release(vm, resp)
<1>0. /\ lua_state_ \in Nat /\ vm \in LuaState
      /\ context \in [Streams -> ContextType]
      /\ \A u \in Streams, m \in Modes : ThreadOK(u, m)
      /\ Anchors(vm, Threads, RefMap)
      /\ {"request", "response"} = Modes
      /\ Threads \in SUBSET ThreadNames
  BY DEF RuntimeInv, RuntimeTypeOK, Modes, Threads, ThreadNames
<1>1. RefMap \in [ThreadNames -> Nat]
  BY <1>0 DEF RefMap, RefOf, ThreadNames, ContextType, ThreadType
<1>2. /\ vm' = Release(between, req)
      /\ context' = [context EXCEPT ![s] = NoContext]
      /\ UNCHANGED <<lua_state_, accepted>>
  BY DEF onDelete
<1>3. /\ reqName \in ThreadNames /\ respName \in ThreadNames
      /\ reqName # respName
      /\ req.ref = RefMap[reqName] /\ resp.ref = RefMap[respName]
      /\ reqName \in Threads <=> req.ref # LUA_NOREF
      /\ respName \in Threads <=> resp.ref # LUA_NOREF
  BY <1>0, InThreads DEF ThreadOK
<1> HIDE DEF req, resp, reqName, respName
<1>4. /\ between \in LuaState /\ between.functions = vm.functions
      /\ Anchors(between, Threads \ {respName}, RefMap)
  BY <1>0, <1>1, <1>3, ReleaseOne
<1> HIDE DEF between
<1>5. /\ vm' \in LuaState /\ vm'.functions = between.functions
      /\ Anchors(vm', (Threads \ {respName}) \ {reqName}, RefMap)
  <2> DEFINE T == Threads \ {respName}
  <2>1. T \in SUBSET ThreadNames /\ (reqName \in T <=> req.ref # LUA_NOREF)
    BY <1>0, <1>3
  <2> HIDE DEF T
  <2>2. /\ Release(between, req) \in LuaState
        /\ Release(between, req).functions = between.functions
        /\ Anchors(Release(between, req), T \ {reqName}, RefMap)
    BY <1>1, <1>3, <1>4, <2>1, ReleaseOne DEF T
  <2> QED BY <1>2, <2>2 DEF T
<1>6. /\ context' \in [Streams -> ContextType] /\ context'[s] = NoContext
      /\ \A u \in Streams \ {s} : context'[u] = context[u]
  BY <1>0, <1>2, NoThreadType
<1>7. Threads' = (Threads \ {respName}) \ {reqName}
  <2>1. ASSUME NEW u \in Streams, NEW m \in Modes
        PROVE  <<u, m>> \in Threads' <=>
                 <<u, m>> \in (Threads \ {respName}) \ {reqName}
    <3>1. CASE u # s
      BY <1>6, <3>1 DEF Threads, reqName, respName
    <3>2. CASE u = s
      <4>1. <<u, m>> \notin Threads'
        BY <1>6, <3>2, NoThreadType DEF Threads
      <4> QED BY <1>0, <3>2, <4>1 DEF reqName, respName
    <3> QED BY <3>1, <3>2
  <2>2. Threads' \subseteq ThreadNames
    BY DEF Threads, ThreadNames
  <2>3. \A t \in ThreadNames :
          t \in Threads' <=> t \in (Threads \ {respName}) \ {reqName}
    BY <2>1 DEF ThreadNames
  <2> QED BY <1>0, <2>2, <2>3
<1>8. \A t \in Threads' : RefMap'[t] = RefMap[t]
  <2>1. ASSUME NEW u \in Streams, NEW m \in Modes, <<u, m>> \in Threads'
        PROVE  context'[u].thread[m].ref = context[u].thread[m].ref
    BY <1>6, <2>1, NoThreadType DEF Threads
  <2> QED BY <2>1 DEF Threads, RefMap, RefOf, ThreadNames
<1>9. Anchors(vm', Threads', RefMap')
  BY <1>5, <1>7, <1>8, AnchorsAgree
<1>10. ASSUME NEW u \in Streams, NEW m \in Modes PROVE ThreadOK(u, m)'
  <2>1. CASE u # s
    BY <1>0, <1>2, <1>6, <2>1 DEF ThreadOK
  <2>2. CASE u = s
    <3>1. context'[u].thread[m] = NoThread
      BY <1>6, <2>2, NoThreadType
    <3> QED BY <3>1, NoThreadType DEF ThreadOK
  <2> QED BY <2>1, <2>2
<1> QED BY <1>0, <1>2, <1>4, <1>5, <1>6, <1>9, <1>10
        DEF RuntimeInv, RuntimeTypeOK

\* The thread of s and m becomes `new'.
Becomes(s, m, new) ==
    context' = [context EXCEPT ![s] =
                  [context[s] EXCEPT !.thread =
                     [context[s].thread EXCEPT ![m] = new]]]

\* A step of a script: it changes the status of its thread and the object at hand.
LEMMA ScriptStep ==
    ASSUME RuntimeInv, NEW s \in Streams, NEW m \in Modes,
           context[s].thread[m].status # "none",
           FunctionOf[m] \in accepted.functions,
           NEW new \in ThreadType, new.status \in {"running", "finished"},
           new.ref = context[s].thread[m].ref,
           new.state = context[s].thread[m].state, Becomes(s, m, new),
           UNCHANGED <<lua_state_, vm, accepted>>
    PROVE  RuntimeInv'
<1>0. /\ lua_state_ \in Nat /\ vm \in LuaState
      /\ context \in [Streams -> ContextType]
      /\ \A u \in Streams, k \in Modes : ThreadOK(u, k)
  BY DEF RuntimeInv, RuntimeTypeOK
<1>1. /\ context[s] \in ContextType
      /\ context[s].thread \in [Modes -> ThreadType]
  BY <1>0 DEF ContextType
<1> DEFINE threads == [context[s].thread EXCEPT ![m] = new]
           c == [context[s] EXCEPT !.thread = threads]
<1>2. threads \in [Modes -> ThreadType]
  BY <1>1
<1>3. /\ context'[s].thread = threads
      /\ context'[s].live = context[s].live
      /\ context' \in [Streams -> ContextType]
      /\ \A u \in Streams \ {s} : context'[u] = context[u]
  <2>1. context' = [context EXCEPT ![s] = c]
    BY DEF Becomes
  <2> HIDE DEF threads
  <2>2. c \in ContextType /\ c.thread = threads /\ c.live = context[s].live
    BY <1>1, <1>2 DEF ContextType
  <2> HIDE DEF c
  <2> QED BY <1>0, <2>1, <2>2
<1>4. /\ context'[s].thread[m] = new
      /\ \A k \in Modes \ {m} : context'[s].thread[k] = context[s].thread[k]
  BY <1>1, <1>3
<1> HIDE DEF threads, c
<1>5. ASSUME NEW u \in Streams, NEW k \in Modes
      PROVE  /\ context'[u].thread[k].ref = context[u].thread[k].ref
             /\ context'[u].thread[k].status = "none"
                  <=> context[u].thread[k].status = "none"
             /\ ThreadOK(u, k)'
  <2>0. ThreadOK(u, k) /\ context'[u].live = context[u].live
    BY <1>0, <1>3
  <2>1. CASE u = s /\ k = m
    <3>1. context[s].live
      BY <2>0, <2>1, NoThreadType DEF ThreadOK
    <3>2. context'[u].thread[k] = new
      BY <1>4, <2>1
    <3> QED BY <2>0, <2>1, <3>1, <3>2 DEF ThreadOK
  <2>2. CASE ~(u = s /\ k = m)
    <3>1. context'[u].thread[k] = context[u].thread[k]
      BY <1>3, <1>4, <2>2
    <3> QED BY <2>0, <3>1 DEF ThreadOK
  <2> QED BY <2>1, <2>2
<1>6. Anchors(vm', Threads', RefMap')
  BY <1>5, SameThreads
<1> QED BY <1>0, <1>3, <1>5, <1>6 DEF RuntimeInv, RuntimeTypeOK

LEMMA RuntimeInvStep ==
    ASSUME RuntimeInv, [RuntimeNext]_runtimeVars
    PROVE  RuntimeInv'
<1>0. /\ context \in [Streams -> ContextType] /\ vm \in LuaState
      /\ \A u \in Streams, m \in Modes : ThreadOK(u, m)
      /\ vm.functions = accepted.functions
  BY DEF RuntimeInv, RuntimeTypeOK
<1>1. ASSUME NEW s \in Streams, NEW m \in Modes
      PROVE  context[s].thread[m] \in ThreadType
  BY <1>0 DEF ContextType
<1>2. ASSUME NEW s \in Streams, NEW m \in Modes, ExecuteFunction(s, m)
      PROVE  RuntimeInv'
  <2> DEFINE new == [context[s].thread[m] EXCEPT !.status = "running"]
  <2>1. /\ context[s].thread[m].status = "ready"
        /\ FunctionOf[m] \in accepted.functions
        /\ UNCHANGED <<lua_state_, vm, accepted>>
        /\ Becomes(s, m, new)
    BY <1>0, <1>2 DEF ExecuteFunction, CanExecuteFunction, Becomes
  <2>2. /\ new \in ThreadType /\ new.status = "running"
        /\ new.ref = context[s].thread[m].ref
        /\ new.state = context[s].thread[m].state
    BY <1>1 DEF ThreadType
  <2> HIDE DEF new
  <2> QED BY <2>1, <2>2, ScriptStep
<1>3. ASSUME NEW s \in Streams, NEW m \in Modes, NEW class \in Classes,
             NEW method \in MethodNames(class), ScriptCalls(s, m, class, method)
      PROVE  RuntimeInv'
  <2>1. /\ context[s].thread[m].status = "running"
        /\ class \in {"Handle", context[s].thread[m].at_hand}
        /\ UNCHANGED <<lua_state_, vm, accepted>>
    BY <1>3 DEF ScriptCalls
  <2>2. PICK object \in Results(vm.unwrapped, class, method) :
          context' = [context EXCEPT ![s].thread[m].at_hand = object]
    BY <1>3 DEF ScriptCalls
  <2>3. object \in Objects
    <3>1. class \in {"Handle"} \cup Objects
      BY <1>1, <2>1 DEF ThreadType
    <3>2. vm.unwrapped = Create.unwrapped
      BY <1>0 DEF LuaState
    <3> QED BY <3>1, <3>2, ResultsAreObjects
  <2>4. FunctionOf[m] \in accepted.functions
    BY <1>0, <2>1 DEF ThreadOK
  <2> DEFINE new == [context[s].thread[m] EXCEPT !.at_hand = object]
  <2>5. Becomes(s, m, new)
    BY <2>2 DEF Becomes
  <2>6. /\ new \in ThreadType /\ new.status = "running"
        /\ new.ref = context[s].thread[m].ref
        /\ new.state = context[s].thread[m].state
    BY <1>1, <2>1, <2>3 DEF ThreadType
  <2> HIDE DEF new
  <2> QED BY <1>0, <2>1, <2>4, <2>5, <2>6, ScriptStep
<1>4. ASSUME NEW s \in Streams, NEW m \in Modes, ScriptEnds(s, m)
      PROVE  RuntimeInv'
  <2> DEFINE new == [context[s].thread[m] EXCEPT !.status = "finished",
                                                 !.at_hand = "nil"]
  <2>1. /\ context[s].thread[m].status = "running"
        /\ UNCHANGED <<lua_state_, vm, accepted>>
    BY <1>4 DEF ScriptEnds
  <2>2. Becomes(s, m, new)
    <3>1. context' = [context EXCEPT ![s].thread[m].status = "finished",
                                     ![s].thread[m].at_hand = "nil"]
      BY <1>4 DEF ScriptEnds
    <3>2. /\ context[s] \in ContextType /\ context[s].thread[m] \in ThreadType
          /\ context[s].thread \in [Modes -> ThreadType]
      BY <1>0 DEF ContextType
    <3> QED BY <1>0, <3>1, <3>2 DEF Becomes, ContextType
  <2>3. /\ new \in ThreadType /\ new.status = "finished"
        /\ new.ref = context[s].thread[m].ref
        /\ new.state = context[s].thread[m].state
    BY <1>1 DEF ThreadType, Objects, Nil
  <2>4. FunctionOf[m] \in accepted.functions
    BY <1>0, <2>1 DEF ThreadOK
  <2> HIDE DEF new
  <2> QED BY <1>0, <2>1, <2>2, <2>3, <2>4, ScriptStep
<1>5. CASE UNCHANGED runtimeVars
  <2>1. \A s \in Streams, m \in Modes : ThreadOK(s, m)'
    BY <1>0, <1>5 DEF runtimeVars, ThreadOK
  <2>2. Anchors(vm', Threads', RefMap')
    BY <1>5, SameThreads DEF runtimeVars
  <2> QED BY <1>5, <2>1, <2>2 DEF runtimeVars, RuntimeInv, RuntimeTypeOK
<1> QED BY <1>2, <1>3, <1>4, <1>5, ConfigureStep, CreateStep, DeleteStep
        DEF RuntimeNext

\* The registry, the threads and what scripts hold, for every sequence of
\* configurations, contexts and script steps (LuaRootContext, LuaState).
THEOREM RuntimeInvariant == RuntimeSpec => []RuntimeInv
BY RuntimeInvInit, RuntimeInvStep, PTL DEF RuntimeSpec

\* Every thread stays anchored by its own reference in the Lua state that is
\* open, however references are given back and used again (NewThread, ~Thread).
THEOREM ThreadsAnchoredTheorem == RuntimeSpec => []ThreadsAnchored
<1>1. RuntimeInv => ThreadsAnchored
  <2> SUFFICES ASSUME RuntimeInv PROVE ThreadsAnchored
    OBVIOUS
  <2>0. /\ Anchors(vm, Threads, RefMap) /\ \A s \in Streams, m \in Modes : ThreadOK(s, m)
        /\ \A t \in Threads : RefMap[t] = RefOf(t)
    BY DEF RuntimeInv, RefMap, Threads, ThreadNames
  <2>1. \A t \in Threads :
          /\ context[t[1]].thread[t[2]].state = lua_state_
          /\ RefOf(t) \in DOMAIN vm.refs
          /\ vm.refs[RefOf(t)] = t
    BY <2>0 DEF Anchors, Threads, ThreadOK
  <2>2. \A i \in DOMAIN vm.refs :
          vm.refs[i] # Unanchored =>
            vm.refs[i] \in Threads /\ RefOf(vm.refs[i]) = i
    BY <2>0 DEF Anchors
  <2>3. {vm.free[i] : i \in DOMAIN vm.free}
          = {i \in DOMAIN vm.refs : vm.refs[i] = Unanchored}
    BY <2>0 DEF Anchors
  <2> QED BY <2>0, <2>1, <2>2, <2>3 DEF ThreadsAnchored, Anchors
<1> QED BY <1>1, RuntimeInvariant, PTL

\* Streams run the configuration that was accepted last, whatever onConfigure
\* was given and refused in between.
THEOREM AcceptedConfigurationTheorem ==
    RuntimeSpec => []AcceptedConfigurationRuns
<1>1. RuntimeInv => AcceptedConfigurationRuns
  BY DEF RuntimeInv, ThreadOK, Threads, AcceptedConfigurationRuns
<1> QED BY <1>1, RuntimeInvariant, PTL

\* No script comes to hold a status object: every class it can get an object of
\* is bound when RegisterEnvoyApi attaches the unwrapper, and attached while the
\* raw metatable getter is a global.
THEOREM NoStatusSeenTheorem == RuntimeSpec => []NoStatusSeen
<1>1. RuntimeInv => NoStatusSeen
  <2> SUFFICES ASSUME RuntimeInv, NEW t \in Threads
               PROVE  context[t[1]].thread[t[2]].at_hand # StatusNode
    BY DEF NoStatusSeen
  <2>1. context[t[1]].thread[t[2]].at_hand \in Objects
    BY DEF Threads, RuntimeInv, RuntimeTypeOK, ContextType, ThreadType
  <2> QED BY <2>1 DEF Objects, StatusNode, Nil, Data
<1> QED BY <1>1, RuntimeInvariant, PTL
=============================================================================
