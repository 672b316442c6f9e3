------------------------------- MODULE ExtProc --------------------------------
(***************************************************************************)
(* What an external processor promises a proxy, whichever language it is    *)
(* written in: the messages of a call are taken in the order in which they  *)
(* were sent, and each is answered once, by an answer to its own kind of    *)
(* message, by an immediate response or by an empty response; only messages *)
(* of the optional kinds may be passed over without an answer.  A call      *)
(* finishes only when the proxy has closed its side and no message waits.   *)
(***************************************************************************)
EXTENDS Naturals, Sequences

CONSTANTS Calls,    \* the calls of Process that may be open at a time
          Kinds     \* the kinds of messages

VARIABLES
    optional,       \* the kinds that the processor may pass over, as deployed
    status,         \* of a call, as the proxy sees it
    halfClosed,     \* whether the proxy has closed its side
    pending,        \* the messages that wait for an answer, oldest first
    answer          \* the answer that the proxy got last

extProcVars == <<optional, status, halfClosed, pending, answer>>

Statuses == {"idle", "open", "finished", "failed"}
Nothing == "nothing"
AnswersTo(kind) == {kind, "immediate", "unset"}

-----------------------------------------------------------------------------
ExtProcInit ==
    /\ optional \in {{}, Kinds}
    /\ status = [c \in Calls |-> "idle"]
    /\ halfClosed = [c \in Calls |-> FALSE]
    /\ pending = [c \in Calls |-> <<>>]
    /\ answer = [c \in Calls |-> Nothing]

Open(c) ==
    /\ status[c] # "open"
    /\ status' = [status EXCEPT ![c] = "open"]
    /\ halfClosed' = [halfClosed EXCEPT ![c] = FALSE]
    /\ pending' = [pending EXCEPT ![c] = <<>>]
    /\ answer' = [answer EXCEPT ![c] = Nothing]
    /\ UNCHANGED optional

Send(c, kind) ==
    /\ status[c] = "open" /\ ~halfClosed[c]
    /\ pending' = [pending EXCEPT ![c] = Append(@, kind)]
    /\ UNCHANGED <<optional, status, halfClosed, answer>>

HalfClose(c) ==
    /\ status[c] = "open" /\ ~halfClosed[c]
    /\ halfClosed' = [halfClosed EXCEPT ![c] = TRUE]
    /\ UNCHANGED <<optional, status, pending, answer>>

Answer(c) ==
    /\ status[c] = "open" /\ pending[c] # <<>>
    /\ \E a \in AnswersTo(Head(pending[c])) : answer' = [answer EXCEPT ![c] = a]
    /\ pending' = [pending EXCEPT ![c] = Tail(@)]
    /\ UNCHANGED <<optional, status, halfClosed>>

\* The message that is due gets no answer.
PassOver(c) ==
    /\ status[c] = "open" /\ pending[c] # <<>>
    /\ Head(pending[c]) \in optional
    /\ pending' = [pending EXCEPT ![c] = Tail(@)]
    /\ UNCHANGED <<optional, status, halfClosed, answer>>

Finish(c) ==
    /\ status[c] = "open" /\ halfClosed[c] /\ pending[c] = <<>>
    /\ status' = [status EXCEPT ![c] = "finished"]
    /\ UNCHANGED <<optional, halfClosed, pending, answer>>

\* A callback fails, or the proxy gives the call up; nothing more is answered.
Fail(c) ==
    /\ status[c] = "open"
    /\ status' = [status EXCEPT ![c] = "failed"]
    /\ pending' = [pending EXCEPT ![c] = <<>>]
    /\ UNCHANGED <<optional, halfClosed, answer>>

ExtProcNext ==
    \E c \in Calls :
      \/ Open(c)
      \/ \E kind \in Kinds : Send(c, kind)
      \/ HalfClose(c)
      \/ Answer(c)
      \/ PassOver(c)
      \/ Finish(c)
      \/ Fail(c)

ExtProcSafe == ExtProcInit /\ [][ExtProcNext]_extProcVars

\* A message that waits is answered or, if optional, passed over, and a call that
\* is over finishes, unless the call fails.
ExtProcSpec ==
    /\ ExtProcSafe
    /\ \A c \in Calls : /\ WF_extProcVars(Answer(c) \/ PassOver(c))
                        /\ WF_extProcVars(Finish(c))
=============================================================================
