----------------------------- MODULE ChatTurn -----------------------------
(***************************************************************************)
(* One exchange of the chat: the user turn as normalizeMsgsForAPI sends   *)
(* it, and the reasoning-model reply as it streams in and is sent back:   *)
(*   - ChatMessage.tsx's useMemo splits msg.content into the shown answer *)
(*     (content), the collapsible thought and isThinking, at every render *)
(*     of the growing message;                                             *)
(*   - misc.ts filterThoughtFromMsgs keeps, of an assistant message sent  *)
(*     in a later request, what follows the last </think>, trimmed.       *)
(*                                                                         *)
(* A message is a sequence of tokens: the two tags, letters, and a space  *)
(* (the whitespace trim() removes).  Letters contain no '<', so a tag     *)
(* occurs in the string exactly where a tag token is.                     *)
(***************************************************************************)
EXTENDS Integers, Sequences, SequencesExt, FiniteSetsExt

CONSTANTS Letters,    \* text tokens other than whitespace
          MaxTokens,  \* tokens per reply
          Format,     \* "r1": at most one leading <think>...</think> block;
                      \* "blocks": any number of closed or open blocks
          ExtraTypes, \* the MessageExtra types of types.ts
          AudioMimes, \* mime types of accepted audio (/mpeg|wav/)
          MaxExtras   \* extra-context items of the user turn

THINK == "<think>"
ENDTHINK == "</think>"
Space == " "
Tags == {THINK, ENDTHINK}
Tokens == Tags \cup Letters \cup {Space}

\* Index of the first occurrence of tag x in s, 0 if none.
FirstIndex(s, x) == SelectInSeq(s, LAMBDA t : t = x)

\* JavaScript s.split(sep, 2): the text before the first sep and, if sep
\* occurs, the text between it and the next sep (the rest is discarded).
SplitLimit2(s, sep) ==
    LET i == FirstIndex(s, sep) IN
    IF i = 0 THEN <<s>>
    ELSE LET rest == SubSeq(s, i + 1, Len(s))
             j == FirstIndex(rest, sep)
         IN  <<SubSeq(s, 1, i - 1), IF j = 0 THEN rest ELSE SubSeq(rest, 1, j - 1)>>

\* The while loop of ChatMessage's useMemo; ts is thinkSplit.
RECURSIVE ThinkLoop(_, _)

\* Faulty variant: isThinking is not cleared when </think> is found.
ThinkLoopNoReset(ts, acc) ==
    IF Len(ts) = 1 THEN acc
    ELSE LET c == SplitLimit2(ts[2], ENDTHINK) IN
         IF Len(c) = 1
         THEN [acc EXCEPT !.thought = @ \o c[1], !.isThinking = TRUE]
         ELSE LET o == SplitLimit2(c[2], THINK) IN
              ThinkLoop(o, [content |-> acc.content \o o[1],
                            thought |-> acc.thought \o c[1],
                            isThinking |-> TRUE])

ThinkLoop(ts, acc) ==
    IF Len(ts) = 1 THEN acc
    ELSE LET c == SplitLimit2(ts[2], ENDTHINK) IN
         IF Len(c) = 1
         THEN [acc EXCEPT !.thought = @ \o c[1], !.isThinking = TRUE]
         ELSE LET o == SplitLimit2(c[2], THINK) IN
              ThinkLoop(o, [content |-> acc.content \o o[1],
                            thought |-> acc.thought \o c[1],
                            isThinking |-> FALSE])

\* ChatMessage.tsx: { content, thought, isThinking } of an assistant message.
SplitMessage(s) ==
    LET t == SplitLimit2(s, THINK) IN
    ThinkLoop(t, [content |-> t[1], thought |-> <<>>, isThinking |-> FALSE])

\* The reference: a token after <think> and before the next </think> is
\* thought, any other non-tag token is content; isThinking when a <think>
\* is still open at the end.
RECURSIVE RefSplit(_, _)
RefSplit(s, inside) ==
    IF s = <<>> THEN [content |-> <<>>, thought |-> <<>>, isThinking |-> inside]
    ELSE LET h == Head(s)
             r == RefSplit(Tail(s), IF h \in Tags THEN h = THINK ELSE inside)
         IN  IF h \in Tags THEN r
             ELSE IF inside THEN [r EXCEPT !.thought = <<h>> \o @]
                  ELSE [r EXCEPT !.content = <<h>> \o @]

RECURSIVE TrimStart(_)
TrimStart(s) == IF s # <<>> /\ Head(s) = Space THEN TrimStart(Tail(s)) ELSE s

\* String.prototype.trim().
Trim(s) == Reverse(TrimStart(Reverse(TrimStart(s))))

\* filterThoughtFromMsgs on an assistant message:
\* contentStr.split('</think>').at(-1)!.trim().
FilterThought(s) ==
    LET ends == {i \in 1..Len(s) : s[i] = ENDTHINK} IN
    Trim(IF ends = {} THEN s ELSE SubSeq(s, Max(ends) + 1, Len(s)))

\* The tags of s, in order.
TagsOf(s) == SelectSeq(s, LAMBDA t : t \in Tags)

-----------------------------------------------------------------------------
(* normalizeMsgsForAPI and filterThoughtFromMsgs.  An extra is named by   *)
(* its position in the turn; a text part's text is a sequence of pieces.  *)

\* The content part of one extra (the if-chain of the loop).
PartOf(e) ==
    CASE e.type = "context"   -> [type |-> "text", text |-> <<e.name>>]
      [] e.type = "textFile"  -> [type |-> "text",
                                  text |-> <<"File: ", e.name, "\nContent:\n\n", e.name>>]
      [] e.type = "imageFile" -> [type |-> "image_url", url |-> e.name]
      [] e.type = "audioFile" -> [type |-> "input_audio", data |-> e.name,
                                  format |-> IF e.mime = "audio/wav" THEN "wav" ELSE "mp3"]

TextPart(t) == [type |-> "text", text |-> <<t>>]

\* Faulty variant: the user text is pushed before the extras.
NormalizeMsgTextFirst(msg) ==
    IF msg.role # "user" \/ msg.extra = <<>>
    THEN [role |-> msg.role, content |-> msg.content]
    ELSE [role |-> msg.role,
          content |-> <<TextPart(msg.content)>>
                        \o [k \in 1..Len(msg.extra) |-> PartOf(msg.extra[k])]]

\* One message of normalizeMsgsForAPI: a user message with extras becomes
\* its extras' parts followed by its text; any other keeps its content.
\* An extra of <<>> is the `undefined` ChatScreen stores for no items.
NormalizeMsg(msg) ==
    IF msg.role # "user" \/ msg.extra = <<>>
    THEN [role |-> msg.role, content |-> msg.content]
    ELSE [role |-> msg.role,
          content |-> Append([k \in 1..Len(msg.extra) |-> PartOf(msg.extra[k])],
                             TextPart(msg.content))]

NormalizeMsgsForAPI(msgs) == [i \in 1..Len(msgs) |-> NormalizeMsg(msgs[i])]

FilterThoughtFromMsgs(msgs) ==
    [i \in 1..Len(msgs) |->
        IF msgs[i].role # "assistant" THEN msgs[i]
        ELSE [role |-> "assistant", content |-> FilterThought(msgs[i].content)]]

\* The user turns the input can send: its text and the items in order.
\* The user turns the input can send: its text and the items in order,
\* an item named (and its content told apart) by its position.
ExtraShapes ==
    {[type |-> t, mime |-> "none"] : t \in ExtraTypes \ {"audioFile"}}
      \cup {[type |-> "audioFile", mime |-> m] : m \in AudioMimes}

UserTurns ==
    {[role |-> "user", content |-> <<"typed", 0>>,
      extra |-> [k \in 1..Len(xs) |-> xs[k] @@ [name |-> <<"item", k>>]]] :
        xs \in UNION {[1..n -> ExtraShapes] : n \in 0..MaxExtras}}

\* Replies the model can produce, and their prefixes (what has streamed).
WellFormed(s) ==
    LET g == TagsOf(s) IN
    /\ \A i \in 1..Len(g) : g[i] = IF i % 2 = 1 THEN THINK ELSE ENDTHINK
    /\ Format = "r1" => Len(g) <= 2 /\ (g # <<>> => s[1] = THINK)

VARIABLES turn,      \* the user message the reply answers
          content,   \* msg.content of the assistant message so far
          pending    \* the reply is still streaming (isPending)

vars == <<turn, content, pending>>

TypeOK ==
    /\ turn \in UserTurns
    /\ content \in Seq(Tokens)
    /\ Len(content) <= MaxTokens
    /\ pending \in BOOLEAN

Init ==
    /\ turn \in UserTurns
    /\ content = <<>>
    /\ pending = TRUE

\* Faulty variant: one token past the bound.
ChunkPastBound(t) ==
    /\ pending
    /\ Len(content) <= MaxTokens
    /\ WellFormed(content \o <<t>>)
    /\ content' = content \o <<t>>
    /\ UNCHANGED <<turn, pending>>

\* onChunk: the streamed delta is appended to the pending message.
Chunk(t) ==
    /\ pending
    /\ Len(content) < MaxTokens
    /\ WellFormed(content \o <<t>>)
    /\ content' = content \o <<t>>
    /\ UNCHANGED <<turn, pending>>

\* The stream ends, or the user stops it: the message is saved as it is.
Finish ==
    /\ pending
    /\ pending' = FALSE
    /\ UNCHANGED <<turn, content>>

Next == (\E t \in Tokens : Chunk(t)) \/ Finish

Spec == Init /\ [][Next]_vars

-----------------------------------------------------------------------------
(***************************************************************************)
(* ChatMessage's split, at every render of the streaming reply, shows as  *)
(* answer and as thought exactly the text outside and inside the think    *)
(* blocks, and shows "thinking" exactly while a block is open.           *)
(***************************************************************************)
DisplayMatchesReference == SplitMessage(content) = RefSplit(content, FALSE)

(***************************************************************************)
(* Once a reply is saved, what filterThoughtFromMsgs sends back to the    *)
(* model as that turn is the answer ChatMessage showed the user, trimmed. *)
(***************************************************************************)
HistoryMatchesDisplay ==
    ~pending => FilterThought(content) = Trim(SplitMessage(content).content)

\* The request built from this exchange (normalizeMsgsForAPI, then
\* filterThoughtFromMsgs).
Request ==
    FilterThoughtFromMsgs(NormalizeMsgsForAPI(
        <<turn, [role |-> "assistant", content |-> content, extra |-> <<>>]>>))

\* Spec sec. 6: the part an extra becomes, by what it refers to.
SpecKind(e) ==
    CASE e.type \in {"context", "textFile"} -> "text"
      [] e.type = "imageFile" -> "image_url"
      [] e.type = "audioFile" -> "input_audio"

PartSource(p) ==
    CASE p.type = "text"        -> Last(p.text)
      [] p.type = "image_url"   -> p.url
      [] p.type = "input_audio" -> p.data

RefersTo(p, e) ==
    /\ p.type = SpecKind(e)
    /\ PartSource(p) = e.name
    /\ e.type = "textFile" => p.text[1] = "File: "
    /\ e.type = "audioFile" => (p.format = "wav" <=> e.mime = "audio/wav")

(***************************************************************************)
(* Spec sec. 6 (normalization, load-bearing for prompt-cache reuse): the  *)
(* request keeps the turns in order; a user turn with extras is sent as   *)
(* one part per extra, in the order the items were added, each referring *)
(* to its item (files labelled, audio in its format), and then the       *)
(* user's text as the last part; a turn without extras is its text.      *)
(***************************************************************************)
RequestFollowsSpec ==
    LET u == Request[1]
        n == Len(turn.extra)
    IN  /\ Len(Request) = 2
        /\ Request[1].role = "user" /\ Request[2].role = "assistant"
        /\ IF n = 0 THEN u.content = turn.content
           ELSE /\ Len(u.content) = n + 1
                /\ \A k \in 1..n : RefersTo(u.content[k], turn.extra[k])
                /\ u.content[n + 1] = TextPart(turn.content)
=============================================================================
