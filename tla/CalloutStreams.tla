---------------------------- MODULE CalloutStreams ----------------------------
(***************************************************************************)
(* The calls of Process as the Go, the Python and the Java callout servers  *)
(* serve them.  Each server reads the messages of a call one at a time,     *)
(* hands each to the callback of its kind and sends what becomes of the     *)
(* result.  Go has a goroutine for every call and Java a virtual thread;    *)
(* the Python server has a pool of threads, and a call keeps one until it   *)
(* ends, so that further calls wait.                                        *)
(*                                                                          *)
(* The proxy may send ahead of the answers, may close its side at any time  *)
(* and may give a call up while a server is still busy with it.             *)
(***************************************************************************)
EXTENDS Naturals, Sequences, FiniteSets

CONSTANTS
    Calls,          \* the calls of Process that may be open at a time
    Deployments,    \* a server, the events the proxy sends it, its Go handlers
    ServerThreads,  \* server_thread_count of the Python server
    MaxInbox        \* bound: how many messages the proxy sends ahead

Kinds == {"request_headers", "response_headers", "request_body",
          "response_body", "request_trailers", "response_trailers"}
Servers == {"go", "python", "java"}

ASSUME CallsAssumption == IsFiniteSet(Calls)
ASSUME ServerThreadsAssumption == ServerThreads \in Nat \ {0}
ASSUME MaxInboxAssumption == MaxInbox \in Nat
\* A Go server may be deployed for events that it has no handlers for.
ASSUME DeploymentsAssumption ==
    \A d \in Deployments : d.server \in Servers /\ d.events \subseteq Kinds

VARIABLES
    deployment,
    status,         \* of a call, as the proxy sees it
    halfClosed,     \* whether the proxy has closed its side
    inbox,          \* the messages that the server has not read
    handling,       \* the message that the server is busy with
    answer,         \* the answer that the proxy got last
    worker,         \* whether the call has a thread, waits for one or neither
    queue           \* the work queue of the Python pool

calloutVars == <<deployment, status, halfClosed, inbox, handling, answer,
                 worker, queue>>

Nothing == "nothing"
Server == deployment.server

-----------------------------------------------------------------------------
(* What the servers make of a callback's result: an answer, "silent" when    *)
(* nothing is sent, or "error" when the call fails.                         *)

\* What a callback can come to: an answer to its message, an immediate response,
\* no value (in Go, neither a response nor an error), a value of the wrong type,
\* or an exception or error.
CallbackResults ==
    [go     |-> {"own", "immediate", "none", "raises"},
     python |-> {"own", "immediate", "none", "malformed", "raises"},
     java   |-> {"own", "immediate", "none", "raises"}]

\* Go: the switch of Process and what follows it.  Nothing is sent for a message
\* without a handler, or whose handler returns no response.
GoResponse(kind, result) ==
    CASE kind \notin deployment.handlers -> "silent"
      [] result = "raises" -> "error"
      [] result = "none" -> "silent"
      [] result = "immediate" -> "immediate"
      [] OTHER -> kind

\* Python: process.  Only the request callbacks may answer at once; a value that
\* fits no field raises in the constructor of the response.
\* Variant: the body of a response is answered as the body of a request.
process_Swapped(kind, result) ==
    CASE kind \in {"request_trailers", "response_trailers"} -> "unset"
      [] result = "raises" -> "error"
      [] result = "none" -> "unset"
      [] kind = "response_body" -> "request_body"
      [] result = "own" -> kind
      [] kind \in {"response_headers", "response_body"} -> "error"
      [] result = "immediate" -> "immediate"
      [] OTHER -> "unset"

process(kind, result) ==
    CASE kind \in {"request_trailers", "response_trailers"} -> "unset"
      [] result = "raises" -> "error"
      [] result = "none" -> "unset"
      [] result = "own" -> kind
      [] kind \in {"response_headers", "response_body"} -> "error"
      [] result = "immediate" -> "immediate"
      [] OTHER -> "unset"

\* Java: processRequest; a callback fills in the builder or leaves it.
processRequest(kind, result) ==
    CASE kind \in {"request_trailers", "response_trailers"} -> "unset"
      [] result = "raises" -> "error"
      [] result = "none" -> "unset"
      [] result = "immediate" -> "immediate"
      [] OTHER -> kind

Response(kind, result) ==
    CASE Server = "go" -> GoResponse(kind, result)
      [] Server = "python" -> process(kind, result)
      [] Server = "java" -> processRequest(kind, result)

-----------------------------------------------------------------------------
CalloutInit ==
    /\ deployment \in Deployments
    /\ status = [c \in Calls |-> "idle"]
    /\ halfClosed = [c \in Calls |-> FALSE]
    /\ inbox = [c \in Calls |-> <<>>]
    /\ handling = [c \in Calls |-> Nothing]
    /\ answer = [c \in Calls |-> Nothing]
    /\ worker = [c \in Calls |-> "none"]
    /\ queue = <<>>

(* The proxy.                                                               *)

\* A new call: the Python server queues it, the others serve it at once.
ProxyOpens(c) ==
    /\ status[c] # "open" /\ worker[c] = "none"
    /\ status' = [status EXCEPT ![c] = "open"]
    /\ halfClosed' = [halfClosed EXCEPT ![c] = FALSE]
    /\ answer' = [answer EXCEPT ![c] = Nothing]
    /\ IF Server = "python"
       THEN /\ worker' = [worker EXCEPT ![c] = "queued"]
            /\ queue' = Append(queue, c)
       ELSE /\ worker' = [worker EXCEPT ![c] = "serving"]
            /\ UNCHANGED queue
    /\ UNCHANGED <<deployment, inbox, handling>>

ProxySends(c, kind) ==
    /\ status[c] = "open" /\ ~halfClosed[c]
    /\ Len(inbox[c]) < MaxInbox
    /\ inbox' = [inbox EXCEPT ![c] = Append(@, kind)]
    /\ UNCHANGED <<deployment, status, halfClosed, handling, answer, worker,
                   queue>>

ProxyHalfCloses(c) ==
    /\ status[c] = "open" /\ ~halfClosed[c]
    /\ halfClosed' = [halfClosed EXCEPT ![c] = TRUE]
    /\ UNCHANGED <<deployment, status, inbox, handling, answer, worker, queue>>

\* The proxy cancels a call, for a message timeout or a stream that is reset;
\* the server finds out later, and reads nothing more of it.
ProxyGivesUp(c) ==
    /\ status[c] = "open"
    /\ status' = [status EXCEPT ![c] = "failed"]
    /\ inbox' = [inbox EXCEPT ![c] = <<>>]
    /\ UNCHANGED <<deployment, halfClosed, handling, answer, worker, queue>>

(* The servers.                                                             *)

Serving == {c \in Calls : worker[c] = "serving"}

\* A thread of the Python pool takes the call that has waited longest, given up
\* or not.
TakeThread ==
    /\ queue # <<>>
    /\ Cardinality(Serving) < ServerThreads
    /\ worker' = [worker EXCEPT ![Head(queue)] = "serving"]
    /\ queue' = Tail(queue)
    /\ UNCHANGED <<deployment, status, halfClosed, inbox, handling, answer>>

\* The server reads the next message of a call.
Receive(c) ==
    /\ worker[c] = "serving" /\ handling[c] = Nothing
    /\ inbox[c] # <<>>
    /\ handling' = [handling EXCEPT ![c] = Head(inbox[c])]
    /\ inbox' = [inbox EXCEPT ![c] = Tail(@)]
    /\ UNCHANGED <<deployment, status, halfClosed, answer, worker, queue>>

\* The callback returns.  To send to a call that was given up ends it; a server
\* that has nothing to send finds out when it reads on.
Respond(c, result) ==
    /\ worker[c] = "serving" /\ handling[c] # Nothing
    /\ LET response == Response(handling[c], result)
       IN  IF \/ response = "error"
              \/ status[c] # "open" /\ response # "silent"
           THEN /\ status' = [status EXCEPT ![c] = IF @ = "open" THEN "failed" ELSE @]
                /\ inbox' = [inbox EXCEPT ![c] = <<>>]
                /\ worker' = [worker EXCEPT ![c] = "none"]
                /\ UNCHANGED answer
           ELSE /\ answer' = IF response = "silent" THEN answer
                             ELSE [answer EXCEPT ![c] = response]
                /\ UNCHANGED <<status, inbox, worker>>
    /\ handling' = [handling EXCEPT ![c] = Nothing]
    /\ UNCHANGED <<deployment, halfClosed, queue>>

\* The server finds the end of the input: its call was closed or given up.  (Go
\* returns the io.EOF it found, so that gRPC ends a finished call with an error;
\* the proxy has its answers by then.)
\* Variant: the thread is not given back.
EndOfInput_Kept(c) ==
    /\ worker[c] = "serving" /\ handling[c] = Nothing /\ inbox[c] = <<>>
    /\ status[c] = "open" => halfClosed[c]
    /\ status' = [status EXCEPT ![c] = IF @ = "open" THEN "finished" ELSE @]
    /\ UNCHANGED <<deployment, halfClosed, inbox, handling, answer, worker,
                   queue>>

EndOfInput(c) ==
    /\ worker[c] = "serving" /\ handling[c] = Nothing /\ inbox[c] = <<>>
    /\ status[c] = "open" => halfClosed[c]
    /\ status' = [status EXCEPT ![c] = IF @ = "open" THEN "finished" ELSE @]
    /\ worker' = [worker EXCEPT ![c] = "none"]
    /\ UNCHANGED <<deployment, halfClosed, inbox, handling, answer, queue>>

\* A pass of the loop that serves a call.
Serve(c) ==
    \/ Receive(c)
    \/ \E result \in CallbackResults[Server] : Respond(c, result)
    \/ EndOfInput(c)

CalloutNext ==
    \/ TakeThread
    \/ \E c \in Calls :
         \/ ProxyOpens(c)
         \/ \E kind \in deployment.events : ProxySends(c, kind)
         \/ ProxyHalfCloses(c)
         \/ ProxyGivesUp(c)
         \/ Serve(c)

CalloutSafe == CalloutInit /\ [][CalloutNext]_calloutVars

\* Threads run and callbacks return; the proxy closes its side in the end, when
\* the HTTP stream of the call is over.
CalloutSpec ==
    /\ CalloutSafe
    /\ WF_calloutVars(TakeThread)
    /\ \A c \in Calls : /\ WF_calloutVars(Serve(c))
                        /\ WF_calloutVars(ProxyHalfCloses(c))

-----------------------------------------------------------------------------
(* Correctness.                                                             *)

\* A server only ever holds messages of the events it is deployed for, and none
\* that it has not read yet of a call that is over.
CalloutTypeOK ==
    /\ deployment \in Deployments
    /\ status \in [Calls -> {"idle", "open", "finished", "failed"}]
    /\ halfClosed \in [Calls -> BOOLEAN]
    /\ inbox \in [Calls -> Seq(deployment.events)]
    /\ handling \in [Calls -> deployment.events \cup {Nothing}]
    /\ answer \in [Calls -> Kinds \cup {"immediate", "unset", Nothing}]
    /\ worker \in [Calls -> {"none", "queued", "serving"}]
    /\ queue \in Seq(Calls)
    /\ \A c \in Calls : status[c] # "open" => inbox[c] = <<>>

\* The messages of a call that wait for an answer: the one in the server's hands
\* comes first.  Of a call that is over none do.
PendingOf(c) ==
    IF status[c] = "open" /\ handling[c] # Nothing
    THEN <<handling[c]>> \o inbox[c]
    ELSE inbox[c]

\* What a server may pass over in silence: Go any message, the others none.
Optional == IF Server = "go" THEN Kinds ELSE {}

E == INSTANCE ExtProc WITH pending <- [c \in Calls |-> PendingOf(c)],
                           optional <- Optional

\* Each of the three servers is an external processor as ExtProc specifies it: it
\* takes the messages of a call in their order, answers none twice and each in
\* kind, and leaves no message waiting and no call unfinished, although callbacks
\* fail, calls are given up while they are being served and the Python server has
\* too few threads.  The Python and the Java server answer every message.  The Go
\* server need not: a message without a handler, or whose handler returns no
\* response, is passed over, and the next answer is to a later message.
ImplementsExtProc == E!ExtProcSpec

\* Every call comes to an end, also one that waits for a thread, and every thread
\* that serves a call is free again.
CallsEnd ==
    \A c \in Calls : /\ status[c] = "open" ~> status[c] # "open"
                     /\ worker[c] # "none" ~> worker[c] = "none"
=============================================================================
