----------------------------- MODULE SSEStream -----------------------------
(***************************************************************************)
(* misc.ts getSSEStreamAsync: the async generator that turns the lines of *)
(* a chat-completion response into parsed events, consumed by a `for      *)
(* await` loop that may stop reading at any time.                         *)
(*                                                                         *)
(* A line is abstracted to its shape: data with a JSON payload, data that *)
(* is not JSON, the [DONE] sentinel, an error line with or without a      *)
(* message, or any other line (keep-alives, comments, blank lines).  The  *)
(* response is any sequence of such lines up to MaxLines.                 *)
(*                                                                         *)
(* SpecParse is the contract of spec sec. 4.2; SSEContract states it as  *)
(* a specification and the generator is shown to refine it.             *)
(***************************************************************************)
EXTENDS Integers, Sequences, SequencesExt

CONSTANTS Payloads,   \* JSON payloads of data and error lines
          MaxLines,   \* lines per response
          AfterDone   \* whether lines may follow data: [DONE]

NoMsg == "none"

\* The failure an error line without a message raises.
UnknownError == "Unknown error"

\* The SyntaxError JSON.parse raises on a data line that is not JSON.
ParseError == "parse"

\* The TypeError the body's reader rejects with when the connection breaks.
NetError == "network"

LineShapes ==
    {[k |-> "data", v |-> p] : p \in Payloads}
      \cup {[k |-> "error", v |-> p] : p \in Payloads \cup {NoMsg}}
      \cup {[k |-> s, v |-> NoMsg] : s \in {"bad", "done", "other"}}

\* Responses as the server frames them (sec. 6): [DONE] only as the last
\* line; with AfterDone, any line sequence.
Responses ==
    {ls \in UNION {[1..n -> LineShapes] : n \in 0..MaxLines} :
        AfterDone \/ \A i \in 1..(Len(ls) - 1) : ls[i].k # "done"}

\* Spec sec. 4.2: data yields its payload, [DONE] ends the sequence, an
\* error line raises its message (or a generic one), other lines are
\* ignored.
RECURSIVE SpecParse(_)
SpecParse(ls) ==
    IF ls = <<>> THEN [events |-> <<>>, end |-> "ended", err |-> NoMsg]
    ELSE LET l == Head(ls)
             rest == SpecParse(Tail(ls))
         IN  CASE l.k = "done"  -> [events |-> <<>>, end |-> "ended", err |-> NoMsg]
               [] l.k = "data"  -> [rest EXCEPT !.events = <<l.v>> \o @]
               [] l.k = "bad"   -> [events |-> <<>>, end |-> "failed", err |-> ParseError]
               [] l.k = "error" -> [events |-> <<>>, end |-> "failed",
                                    err |-> IF l.v = NoMsg THEN UnknownError ELSE l.v]
               [] OTHER         -> rest

VARIABLES lines,    \* the response body, split into lines
          pos,      \* the next line the generator reads
          out,      \* the events yielded so far
          status,   \* "reading", "ended", "failed" or "stopped"
          err       \* the message of the error thrown

vars == <<lines, pos, out, status, err>>

TypeOK ==
    /\ lines \in Responses
    /\ pos \in 1..(MaxLines + 1)
    /\ out \in Seq(Payloads)
    /\ status \in {"reading", "ended", "failed", "stopped"}
    /\ err \in Payloads \cup {NoMsg, UnknownError, ParseError, NetError}

Init ==
    /\ lines \in Responses
    /\ pos = 1
    /\ out = <<>>
    /\ status = "reading"
    /\ err = NoMsg

\* Faulty variant: the line's "data:" prefix is yielded instead of its
\* payload (slice(0, 5) for slice(5)).
ReadLinePrefix ==
    LET l == lines[pos] IN
    /\ status = "reading"
    /\ pos <= Len(lines)
    /\ pos' = pos + 1
    /\ IF l.k = "data"
       THEN /\ out' = Append(out, l.k)
            /\ UNCHANGED <<status, err>>
       ELSE UNCHANGED <<out, status, err>>
    /\ UNCHANGED lines

\* Faulty variant: error lines are skipped like other lines.
ReadLineNoError ==
    LET l == lines[pos] IN
    /\ status = "reading"
    /\ pos <= Len(lines)
    /\ pos' = pos + 1
    /\ \/ /\ l.k = "data"
          /\ out' = Append(out, l.v)
          /\ UNCHANGED <<status, err>>
       \/ /\ l.k = "bad"
          /\ status' = "failed"
          /\ err' = ParseError
          /\ UNCHANGED out
       \/ /\ l.k \in {"done", "other", "error"}
          /\ UNCHANGED <<out, status, err>>
    /\ UNCHANGED lines

\* One iteration of `for await (const line of ...)`: a data line that does
\* not end with [DONE] is parsed and yielded (a non-JSON one throws); an
\* error line throws its message; anything else, [DONE] included, is
\* skipped and the loop reads on.
ReadLine ==
    LET l == lines[pos] IN
    /\ status = "reading"
    /\ pos <= Len(lines)
    /\ pos' = pos + 1
    /\ \/ /\ l.k = "data"
          /\ out' = Append(out, l.v)
          /\ UNCHANGED <<status, err>>
       \/ /\ l.k = "bad"
          /\ status' = "failed"
          /\ err' = ParseError
          /\ UNCHANGED out
       \/ /\ l.k = "error"
          /\ status' = "failed"
          /\ err' = IF l.v = NoMsg THEN UnknownError ELSE l.v
          /\ UNCHANGED out
       \/ /\ l.k \in {"done", "other"}
          /\ UNCHANGED <<out, status, err>>
    /\ UNCHANGED lines

\* The body is exhausted: the generator returns.
EndOfBody ==
    /\ status = "reading"
    /\ pos > Len(lines)
    /\ status' = "ended"
    /\ UNCHANGED <<lines, pos, out, err>>

\* The connection breaks: the reader of the line stream rejects, and the
\* rejection propagates out of the `for await` loop.
BodyFails ==
    /\ status = "reading"
    /\ status' = "failed"
    /\ err' = NetError
    /\ UNCHANGED <<lines, pos, out>>

\* The consumer leaves its `for await` loop (the stop button).
Stop ==
    /\ status = "reading"
    /\ status' = "stopped"
    /\ UNCHANGED <<lines, pos, out, err>>

Next == ReadLine \/ EndOfBody \/ BodyFails \/ Stop

\* The server keeps sending until the body is complete, so a generator
\* the consumer keeps reading reads on; stopping is the user's choice.
Spec == Init /\ [][Next]_vars /\ WF_vars(ReadLine \/ EndOfBody)

-----------------------------------------------------------------------------
\* The refinement mapping: the response is the contract's body, the events
\* yielded are the events delivered, and the generator's end is the
\* stream's.  Lines that yield nothing are stuttering steps.
Contract == INSTANCE SSEContract
                WITH Bodies <- Responses, Expected <- SpecParse, NetErr <- NetError,
                     body <- lines, emitted <- out

(***************************************************************************)
(* The generator implements the contract of spec sec. 4.2: each line it  *)
(* reads yields the contract's next event or nothing, a thrown error or   *)
(* the return comes exactly when every event has been yielded and with    *)
(* the contract's outcome and message, a broken connection is a         *)
(* transport failure, and a stream read to its end does end               *)
(* (getSSEStreamAsync's for-await loop over the response's lines).        *)
(***************************************************************************)
ImplementsContract == Contract!CSpec
=============================================================================
