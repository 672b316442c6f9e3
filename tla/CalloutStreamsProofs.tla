------------------------- MODULE CalloutStreamsProofs -------------------------
(***************************************************************************)
(* The three callout servers, for any number of calls, threads and messages *)
(* sent ahead and any deployment, are external processors as ExtProc        *)
(* specifies them, as far as safety goes.  (That no message waits for ever  *)
(* rests on fairness and is left to TLC.)                                   *)
(***************************************************************************)
EXTENDS CalloutStreams, TLAPS

\* What the refinement needs besides the types: a call with a message in hand is
\* served, so that a call nobody serves has none.
HandsServe == \A c \in Calls : handling[c] # Nothing => worker[c] = "serving"

CalloutInv == CalloutTypeOK /\ HandsServe

\* The kinds of messages are not the marker for none.
LEMMA EventsAreKinds ==
    ASSUME CalloutTypeOK
    PROVE  /\ deployment.server \in Servers
           /\ deployment.events \subseteq Kinds
           /\ Nothing \notin deployment.events
BY DeploymentsAssumption DEF CalloutTypeOK, Server, Servers, Kinds, Nothing

\* Whatever a callback comes to, each server's response to a message of its
\* deployment is an answer to that message or an error; only Go's may be silence.
LEMMA ResponseFits ==
    ASSUME CalloutTypeOK, NEW kind \in deployment.events,
           NEW result \in CallbackResults[Server]
    PROVE  /\ Response(kind, result) \in {kind, "immediate", "unset", "error", "silent"}
           /\ Response(kind, result) = "silent" => kind \in Optional
<1>0. kind \in Kinds
  BY EventsAreKinds
<1>1. CASE Server = "go"
  <2>1. Response(kind, result) = GoResponse(kind, result)
    BY <1>1 DEF Response
  <2>2. GoResponse(kind, result) \in {kind, "immediate", "error", "silent"}
    BY DEF GoResponse
  <2>3. kind \in Optional
    BY <1>0, <1>1 DEF Optional
  <2> QED BY <2>1, <2>2, <2>3
<1>2. CASE Server = "python"
  BY <1>0, <1>2 DEF Response, process, CallbackResults, Kinds
<1>3. CASE Server = "java"
  BY <1>0, <1>3 DEF Response, processRequest, CallbackResults, Kinds
<1> QED BY <1>1, <1>2, <1>3, EventsAreKinds DEF Server, Servers

-----------------------------------------------------------------------------
\* The invariant holds of every step.
LEMMA CalloutInvStep ==
    ASSUME CalloutInv, [CalloutNext]_calloutVars
    PROVE  CalloutInv'
<1> USE DEF CalloutInv
<1>1. CASE UNCHANGED calloutVars
  BY <1>1 DEF calloutVars, CalloutTypeOK, HandsServe
<1>2. CASE TakeThread
  BY <1>2 DEF TakeThread, CalloutTypeOK, HandsServe
<1>3. ASSUME NEW c \in Calls, ProxyOpens(c) PROVE CalloutInv'
  <2>1. CASE Server = "python"
    <3>0. queue \in Seq(Calls) /\ queue' = Append(queue, c)
      BY <1>3, <2>1 DEF ProxyOpens, CalloutTypeOK
    <3>1. queue' \in Seq(Calls)
      BY <3>0
    <3>2. worker' = [worker EXCEPT ![c] = "queued"]
      BY <1>3, <2>1 DEF ProxyOpens
    <3>3. CalloutTypeOK'
      BY <1>3, <3>1, <3>2 DEF ProxyOpens, CalloutTypeOK
    <3>4. HandsServe'
      BY <1>3, <3>2 DEF ProxyOpens, CalloutTypeOK, HandsServe
    <3> QED BY <3>3, <3>4
  <2>2. CASE Server # "python"
    BY <1>3, <2>2 DEF ProxyOpens, CalloutTypeOK, HandsServe
  <2> QED BY <2>1, <2>2
<1>4. ASSUME NEW c \in Calls, NEW kind \in deployment.events, ProxySends(c, kind)
      PROVE  CalloutInv'
  BY <1>4 DEF ProxySends, CalloutTypeOK, HandsServe
<1>5. ASSUME NEW c \in Calls, ProxyHalfCloses(c) PROVE CalloutInv'
  BY <1>5 DEF ProxyHalfCloses, CalloutTypeOK, HandsServe
<1>6. ASSUME NEW c \in Calls, ProxyGivesUp(c) PROVE CalloutInv'
  BY <1>6 DEF ProxyGivesUp, CalloutTypeOK, HandsServe
<1>7. ASSUME NEW c \in Calls, Receive(c) PROVE CalloutInv'
  BY <1>7 DEF Receive, CalloutTypeOK, HandsServe
<1>8. ASSUME NEW c \in Calls, NEW result \in CallbackResults[Server],
             Respond(c, result)
      PROVE  CalloutInv'
  <2> DEFINE r == Response(handling[c], result)
  <2>1. handling[c] \in deployment.events
    BY <1>8 DEF Respond, CalloutTypeOK
  <2>2. r \in {handling[c], "immediate", "unset", "error", "silent"}
    BY <2>1, ResponseFits
  <2>3. r \in Kinds \cup {"immediate", "unset", "error", "silent"}
    BY <2>1, <2>2, EventsAreKinds
  <2> DEFINE Ends == \/ r = "error"
                     \/ status[c] # "open" /\ r # "silent"
  <2> HIDE DEF r
  <2>4. CASE Ends
    <3>1. /\ status' = [status EXCEPT ![c] = IF @ = "open" THEN "failed" ELSE @]
          /\ inbox' = [inbox EXCEPT ![c] = <<>>]
          /\ worker' = [worker EXCEPT ![c] = "none"]
          /\ handling' = [handling EXCEPT ![c] = Nothing]
          /\ UNCHANGED <<deployment, halfClosed, answer, queue>>
      BY <1>8, <2>4 DEF Respond, r
    <3>2. CalloutTypeOK'
      BY <3>1 DEF CalloutTypeOK
    <3>3. HandsServe'
      BY <3>1 DEF CalloutTypeOK, HandsServe
    <3> QED BY <3>2, <3>3
  <2>5. CASE ~Ends
    <3>1. /\ answer' = IF r = "silent" THEN answer ELSE [answer EXCEPT ![c] = r]
          /\ handling' = [handling EXCEPT ![c] = Nothing]
          /\ UNCHANGED <<deployment, status, halfClosed, inbox, worker, queue>>
      BY <1>8, <2>5 DEF Respond, r
    <3>2. answer' \in [Calls -> Kinds \cup {"immediate", "unset", Nothing}]
      BY <2>3, <2>5, <3>1 DEF CalloutTypeOK
    <3> QED BY <3>1, <3>2 DEF CalloutTypeOK, HandsServe
  <2> QED BY <2>4, <2>5
<1>9. ASSUME NEW c \in Calls, EndOfInput(c) PROVE CalloutInv'
  BY <1>9 DEF EndOfInput, CalloutTypeOK, HandsServe
<1> QED
  BY <1>1, <1>2, <1>3, <1>4, <1>5, <1>6, <1>7, <1>8, <1>9 DEF CalloutNext, Serve

\* The types of the calls' state, of messages and queues included, and that a
\* call that is over has no message left to read, hold in every behaviour of
\* Process in the three servers.
THEOREM CalloutTypes == CalloutSafe => []CalloutTypeOK
<1>1. CalloutInit => CalloutInv
  BY DEF CalloutInit, CalloutInv, CalloutTypeOK, HandsServe, Nothing
<1>2. CalloutInv /\ [CalloutNext]_calloutVars => CalloutInv'
  BY CalloutInvStep
<1>3. CalloutInv => CalloutTypeOK
  BY DEF CalloutInv
<1> QED BY <1>1, <1>2, <1>3, PTL DEF CalloutSafe

-----------------------------------------------------------------------------
\* Every step of the three servers and of the proxy is a step of ExtProc on the
\* messages that wait, or leaves them all alone.
LEMMA StepRefines ==
    ASSUME CalloutInv, [CalloutNext]_calloutVars
    PROVE  [E!ExtProcNext]_E!extProcVars
<1> USE DEF CalloutInv
<1> DEFINE P == [c \in Calls |-> PendingOf(c)]
<1>a. UNCHANGED Optional
  BY DEF calloutVars, CalloutNext, TakeThread, ProxyOpens, ProxySends, ProxyHalfCloses,
         ProxyGivesUp, Serve, Receive, Respond, EndOfInput, Optional, Server
<1>0. /\ Nothing \notin deployment.events
      /\ \A c \in Calls : inbox[c] \in Seq(deployment.events)
  BY EventsAreKinds DEF CalloutTypeOK
<1>1. CASE UNCHANGED calloutVars
  BY <1>a, <1>1 DEF calloutVars, E!extProcVars, PendingOf
<1>2. CASE TakeThread
  BY <1>a, <1>2 DEF TakeThread, E!extProcVars, PendingOf
<1>3. ASSUME NEW c \in Calls, ProxyOpens(c) PROVE E!ExtProcNext
  <2>1. handling[c] = Nothing /\ inbox[c] = <<>>
    BY <1>3 DEF ProxyOpens, CalloutTypeOK, HandsServe
  <2>2. P' = [P EXCEPT ![c] = <<>>]
    BY <1>3, <2>1 DEF ProxyOpens, PendingOf, CalloutTypeOK
  <2>3. E!Open(c)
    BY <1>a, <1>3, <2>2 DEF ProxyOpens, E!Open, E!Nothing, Nothing
  <2> QED BY <2>3 DEF E!ExtProcNext
<1>4. ASSUME NEW c \in Calls, NEW kind \in deployment.events, ProxySends(c, kind)
      PROVE  E!ExtProcNext
  <2>1. PendingOf(c)' = Append(PendingOf(c), kind)
    BY <1>0, <1>4 DEF ProxySends, PendingOf, CalloutTypeOK
  <2>2. \A d \in Calls \ {c} : PendingOf(d)' = PendingOf(d)
    BY <1>4 DEF ProxySends, PendingOf, CalloutTypeOK
  <2>3. P' = [P EXCEPT ![c] = Append(@, kind)]
    BY <2>1, <2>2
  <2>4. E!Send(c, kind)
    BY <1>a, <1>4, <2>3 DEF ProxySends, E!Send
  <2>5. kind \in Kinds
    BY EventsAreKinds
  <2> QED BY <2>4, <2>5 DEF E!ExtProcNext
<1>5. ASSUME NEW c \in Calls, ProxyHalfCloses(c) PROVE E!ExtProcNext
  <2>1. E!HalfClose(c)
    BY <1>a, <1>5 DEF ProxyHalfCloses, E!HalfClose, PendingOf
  <2> QED BY <2>1 DEF E!ExtProcNext
<1>6. ASSUME NEW c \in Calls, ProxyGivesUp(c) PROVE E!ExtProcNext
  <2>1. P' = [P EXCEPT ![c] = <<>>]
    BY <1>6 DEF ProxyGivesUp, PendingOf, CalloutTypeOK
  <2>2. E!Fail(c)
    BY <1>a, <1>6, <2>1 DEF ProxyGivesUp, E!Fail
  <2> QED BY <2>2 DEF E!ExtProcNext
<1>7. ASSUME NEW c \in Calls, Receive(c) PROVE UNCHANGED E!extProcVars
  <2>1. status[c] = "open" /\ inbox[c] # <<>> /\ handling[c] = Nothing
    BY <1>7 DEF Receive, CalloutTypeOK
  <2>2. Head(inbox[c]) \in deployment.events
    BY <1>0, <2>1
  <2>3. /\ handling'[c] = Head(inbox[c]) /\ inbox'[c] = Tail(inbox[c])
        /\ \A d \in Calls \ {c} : handling'[d] = handling[d] /\ inbox'[d] = inbox[d]
        /\ UNCHANGED <<status, halfClosed, answer>>
    BY <1>7 DEF Receive, CalloutTypeOK
  <2>4. <<Head(inbox[c])>> \o Tail(inbox[c]) = inbox[c]
    BY <1>0, <2>1
  <2>5. PendingOf(c)' = PendingOf(c)
    BY <1>0, <2>1, <2>2, <2>3, <2>4 DEF PendingOf
  <2>6. \A d \in Calls \ {c} : PendingOf(d)' = PendingOf(d)
    BY <2>3 DEF PendingOf
  <2> QED BY <1>a, <2>3, <2>5, <2>6 DEF E!extProcVars
<1>8. ASSUME NEW c \in Calls, NEW result \in CallbackResults[Server],
             Respond(c, result)
      PROVE  [E!ExtProcNext]_E!extProcVars
  <2> DEFINE r == Response(handling[c], result)
  <2>1. handling[c] \in deployment.events /\ handling[c] # Nothing
    BY <1>8 DEF Respond, CalloutTypeOK
  <2>2. r \in {handling[c], "immediate", "unset", "error", "silent"}
    BY <2>1, ResponseFits
  <2>3. r = "silent" => handling[c] \in Optional
    BY <2>1, ResponseFits
  <2> HIDE DEF r
  <2>4. handling' = [handling EXCEPT ![c] = Nothing]
    BY <1>8 DEF Respond
  <2>5. CASE status[c] # "open"
    <3>1. inbox[c] = <<>>
      BY <2>5 DEF CalloutTypeOK
    <3>2. UNCHANGED <<status, inbox, halfClosed, answer>>
      <4>1. CASE r = "silent"
        BY <1>8, <4>1 DEF Respond, r
      <4>2. CASE r # "silent"
        <5>1. /\ status' = [status EXCEPT ![c] = status[c]]
              /\ inbox' = [inbox EXCEPT ![c] = <<>>]
              /\ UNCHANGED <<halfClosed, answer>>
          BY <1>8, <2>5, <4>2 DEF Respond, r
        <5> QED BY <3>1, <5>1 DEF CalloutTypeOK
      <4> QED BY <4>1, <4>2
    <3>3. P' = P
      BY <2>4, <2>5, <3>2 DEF PendingOf, CalloutTypeOK
    <3> QED BY <1>a, <3>2, <3>3 DEF E!extProcVars
  <2>6. CASE status[c] = "open" /\ r = "error"
    <3>1. P' = [P EXCEPT ![c] = <<>>]
      BY <1>8, <2>6 DEF Respond, PendingOf, CalloutTypeOK, r
    <3>2. E!Fail(c)
      BY <1>a, <1>8, <2>6, <3>1 DEF Respond, E!Fail, r
    <3> QED BY <3>2 DEF E!ExtProcNext
  <2>7. CASE status[c] = "open" /\ r # "error"
    <3>1. /\ answer' = IF r = "silent" THEN answer ELSE [answer EXCEPT ![c] = r]
          /\ UNCHANGED <<status, inbox, halfClosed>>
      BY <1>8, <2>7 DEF Respond, r
    <3>2. /\ PendingOf(c) = <<handling[c]>> \o inbox[c]
          /\ PendingOf(c)' = inbox[c]
      BY <2>1, <2>4, <2>7, <3>1 DEF PendingOf, CalloutTypeOK
    <3>3. /\ PendingOf(c) # <<>> /\ Head(PendingOf(c)) = handling[c]
          /\ Tail(PendingOf(c)) = inbox[c]
      BY <1>0, <2>1, <3>2
    <3>4. \A d \in Calls \ {c} : PendingOf(d)' = PendingOf(d)
      BY <2>4, <3>1 DEF PendingOf, CalloutTypeOK
    <3>5. P' = [P EXCEPT ![c] = Tail(@)]
      BY <3>2, <3>3, <3>4
    <3>6. CASE r = "silent"
      <4>1. E!PassOver(c)
        BY <1>a, <2>3, <2>7, <3>1, <3>3, <3>5, <3>6 DEF E!PassOver
      <4> QED BY <4>1 DEF E!ExtProcNext
    <3>7. CASE r # "silent"
      <4>1. r \in E!AnswersTo(Head(P[c]))
        BY <2>2, <2>7, <3>3, <3>7 DEF E!AnswersTo
      <4>2. E!Answer(c)
        BY <1>a, <2>7, <3>1, <3>3, <3>5, <3>7, <4>1 DEF E!Answer
      <4> QED BY <4>2 DEF E!ExtProcNext
    <3> QED BY <3>6, <3>7
  <2> QED BY <2>5, <2>6, <2>7
<1>9. ASSUME NEW c \in Calls, EndOfInput(c) PROVE [E!ExtProcNext]_E!extProcVars
  <2>1. CASE status[c] = "open"
    <3>1. P' = P /\ P[c] = <<>>
      BY <1>9, <2>1 DEF EndOfInput, PendingOf, CalloutTypeOK
    <3>2. E!Finish(c)
      BY <1>a, <1>9, <2>1, <3>1 DEF EndOfInput, E!Finish
    <3> QED BY <3>2 DEF E!ExtProcNext
  <2>2. CASE status[c] # "open"
    BY <1>a, <1>9, <2>2 DEF EndOfInput, E!extProcVars, PendingOf, CalloutTypeOK
  <2> QED BY <2>1, <2>2
<1> QED
  BY <1>1, <1>2, <1>3, <1>4, <1>5, <1>6, <1>7, <1>8, <1>9 DEF CalloutNext, Serve

\* The Go, Python and Java servers implement the safety part of ExtProc, whatever
\* their callbacks return and whichever handlers a Go server has: every answer is
\* to the message that is due, in kind, an immediate or an empty one, only the Go
\* server passes messages over, and a call finishes only when it is closed and no
\* message waits.
THEOREM CalloutRefines == CalloutSafe => E!ExtProcSafe
<1>1. CalloutInit => E!ExtProcInit
  BY DEF CalloutInit, E!ExtProcInit, PendingOf, Nothing, E!Nothing, Optional
<1>2. CalloutInit => CalloutInv
  BY DEF CalloutInit, CalloutInv, CalloutTypeOK, HandsServe, Nothing
<1>3. CalloutInv /\ [CalloutNext]_calloutVars => CalloutInv'
  BY CalloutInvStep
<1>4. CalloutInv /\ [CalloutNext]_calloutVars => [E!ExtProcNext]_E!extProcVars
  BY StepRefines
<1> QED BY <1>1, <1>2, <1>3, <1>4, PTL DEF CalloutSafe, E!ExtProcSafe
=============================================================================
