---------------------------- MODULE SSEContract ----------------------------
(***************************************************************************)
(* What spec sec. 4.2 promises the consumer of a chat-completion stream,  *)
(* with no notion of lines being read: the events the response carries    *)
(* are delivered one at a time and in order, then the stream ends or      *)
(* fails the way the response says, unless the consumer stops first.     *)
(* The line-level generator (SSEStream) is shown to implement it.         *)
(***************************************************************************)
EXTENDS Integers, Sequences

CONSTANTS Bodies,     \* the responses the server may send
          Expected(_), \* Expected(b): [events, end, err] the contract gives b
          NetErr      \* the failure of a broken connection

VARIABLES body,       \* the response
          emitted,    \* the events delivered so far
          status,     \* "reading", "ended", "failed" or "stopped"
          err         \* the message of the failure

cvars == <<body, emitted, status, err>>

CInit ==
    /\ body \in Bodies
    /\ emitted = <<>>
    /\ status = "reading"
    /\ err = "none"

\* The next event the response carries is delivered.
Emit ==
    /\ status = "reading"
    /\ Len(emitted) < Len(Expected(body).events)
    /\ emitted' = Append(emitted, Expected(body).events[Len(emitted) + 1])
    /\ UNCHANGED <<body, status, err>>

\* Every event has been delivered: the stream ends as the response says.
Finish ==
    /\ status = "reading"
    /\ emitted = Expected(body).events
    /\ status' = Expected(body).end
    /\ err' = Expected(body).err
    /\ UNCHANGED <<body, emitted>>

\* A transport failure (spec sec. 7) ends the stream at any point.
Fail ==
    /\ status = "reading"
    /\ status' = "failed"
    /\ err' = NetErr
    /\ UNCHANGED <<body, emitted>>

\* The consumer stops reading.
Halt ==
    /\ status = "reading"
    /\ status' = "stopped"
    /\ UNCHANGED <<body, emitted, err>>

CNext == Emit \/ Finish \/ Fail \/ Halt

\* A delivered stream makes progress until it ends; a broken connection
\* and stopping are not assumed.
CSpec == CInit /\ [][CNext]_cvars /\ WF_cvars(Emit \/ Finish)
=============================================================================
