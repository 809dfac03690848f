---------------------------- MODULE ChatSession ----------------------------
(***************************************************************************)
(* The chat screen of the web UI with its conversations, the extra-context *)
(* items of its input, and the generations it starts.                      *)
(*                                                                         *)
(* ChatScreen.tsx: sendNewMessage, handleEditMessage,                      *)
(* handleRegenerateMessage, onChunk, the currConvId effect and the sibling *)
(* buttons; useChatExtraContext.tsx: addItems, removeItem, clearItems and  *)
(* onFileAdded; the remove buttons of ChatInputExtraContextItem; the      *)
(* VSCode bridge (llama-vscode.ts) and the ?m= / ?q= prefill; the         *)
(* generation side of app.context (sendMessage,                            *)
(* replaceMessageAndGenerate, the stream, stopGenerating) is not part of  *)
(* the sources and follows spec sec. 4.2, 5 and 7.                         *)
(*                                                                         *)
(* Event handlers read what the last render captured (`snap`).  A user     *)
(* event is a discrete event: React renders its updates before the next   *)
(* one, so each user action ends with a fresh snapshot.  Updates made by  *)
(* stream chunks, stream ends and file reads are rendered later (Render). *)
(* So are the updates of the bridge's message listener, its timer and the  *)
(* mount effect, which run outside React's event handlers.                 *)
(* An awaited call that resolves runs its continuation as microtasks, so   *)
(* a handler's code after `await` is part of the step that resolves it.   *)
(***************************************************************************)
EXTENDS MessageTree, FiniteSets

CONSTANTS Convs,      \* conversation ids (model values)
          NoConv,     \* the "/" route: no conversation is viewed
          Texts,      \* non-empty texts the user can type
          MaxMsgs,    \* message ids 1..MaxMsgs, shared by all conversations
          MaxItems,   \* extra-context items 1..MaxItems
          MaxTimers   \* bridge submit timers pending at once

ASSUME NoConv \notin Convs /\ "" \notin Texts /\ MaxMsgs \in Nat /\ MaxItems \in Nat
       /\ MaxTimers \in Nat

VARIABLES
    convs,       \* the conversations that exist
    store,       \* conv -> id -> node: the stored messages
    nextId,      \* the next message id (Date.now())
    gen,         \* conv -> the running generation, or NoGen (pendingMessages)
    viewConv,    \* the conversation of the route (currConvId)
    currNodeId,  \* ChatScreen's leaf for rendering
    textarea,    \* the input's DOM value
    items,       \* useChatExtraContext's items: item ids in order
    nextItem,    \* the next item id
    ingesting,   \* items whose file is still being read by onFileAdded
    snap,        \* what the last render captured
    sent,        \* ghost: items that went out with a message
    discarded,   \* ghost: items the user removed or that were refused
    editing,     \* messages whose ChatMessage shows its edit textarea
    timers,      \* the bridge's 10 ms submit timers not yet fired
    mount        \* "q" or "plain" until the mount effect ran, then "done"

vars == <<convs, store, nextId, gen, viewConv, currNodeId, textarea, items,
          nextItem, ingesting, snap, sent, discarded, editing, timers, mount>>

\* What only the bridge and the mount effect change.
ui == <<timers, mount>>

NoGen == [id |-> NoId]

Kinds == {"send", "edit", "regen"}

\* The root node of conversation c.
RootOf(c) == CHOOSE m \in DOMAIN store[c] : store[c][m].type = "root"

Generating(g) == {c \in Convs : g[c] # NoGen}

\* What a render of the given state captures: viewingChat's display list,
\* isGenerating and extraContext.items.
Snapshot(vc, cn, st, g, it) ==
    [conv    |-> vc,
     display |-> IF vc = NoConv THEN <<>> ELSE GetListMessageDisplay(st[vc], cn),
     gen     |-> Generating(g),
     items   |-> it]

FreshSnap == Snapshot(viewConv', currNodeId', store', gen', items')

\* useChatTextarea's setValue: the text is written into the DOM textarea.
setValue(v) == textarea' = v

\* useChatExtraContext's item operations, each a setItems.
addItems(new) == items' = items \o new

removeItem(idx) == items' = IF idx <= Len(items) THEN RemoveAt(items, idx)
                                                 ELSE items

clearItems == items' = <<>>

\* prefilledMsg.content(): the ?m= or ?q= parameter, or "" without one.
PrefilledMsg == Texts \cup {""}

TypeOK ==
    /\ convs \subseteq Convs
    /\ nextId \in 1..(MaxMsgs + 1)
    /\ \A c \in Generating(gen) : /\ gen[c].kind \in Kinds
                                   /\ gen[c].parent \in DOMAIN store[c]
    /\ viewConv \in convs \cup {NoConv}
    /\ currNodeId \in 1..MaxMsgs \cup {NoId}
    /\ textarea \in Texts \cup {""}
    /\ items \in Seq(1..MaxItems)
    /\ ingesting \subseteq 1..MaxItems
    /\ sent \cup discarded \subseteq 1..MaxItems
    /\ editing \subseteq 1..MaxMsgs
    /\ timers \in 0..MaxTimers
    /\ mount \in {"q", "plain", "done"}

Init ==
    /\ convs = {}
    /\ store = [c \in Convs |-> <<>>]
    /\ nextId = 1
    /\ gen = [c \in Convs |-> NoGen]
    /\ viewConv = NoConv
    /\ currNodeId = NoId
    /\ textarea \in PrefilledMsg
    /\ items = <<>>
    /\ nextItem = 1
    /\ ingesting = {}
    /\ snap = Snapshot(NoConv, NoId, store, gen, <<>>)
    /\ sent = {}
    /\ discarded = {}
    /\ editing = {}
    /\ timers = 0
    /\ mount \in {"q", "plain"}       \* prefilledMsg.shouldSend()

-----------------------------------------------------------------------------
(* Generation (app.context, from the spec).                                *)

\* Start generating a reply with id rid under `parent` in c; `kind` and
\* `text` say which handler awaits it and what it sent.
StartGen(c, rid, parent, kind, text) ==
    gen' = [gen EXCEPT ![c] = [id |-> rid, parent |-> parent,
                               kind |-> kind, text |-> text]]

\* Faulty variant: edit and regenerate keep currNodeId after their await.
ResumeKeepLeaf(g, ok) ==
    IF g.kind = "send"
    THEN /\ IF ok THEN UNCHANGED textarea ELSE setValue(g.text)
         /\ clearItems
         /\ UNCHANGED currNodeId
    ELSE UNCHANGED <<currNodeId, textarea, items>>

\* The code after `await` in the handler g.kind, given sendMessage's or
\* replaceMessageAndGenerate's result ok.
Resume(g, ok) ==
    IF g.kind = "send"
    THEN /\ IF ok THEN UNCHANGED textarea ELSE setValue(g.text)
         /\ clearItems
         /\ UNCHANGED currNodeId
    ELSE /\ currNodeId' = NoId
         /\ UNCHANGED <<textarea, items>>

\* The stream ends (or is stopped): the partial content becomes the reply.
Finalize(c) ==
    LET g == gen[c] IN
    /\ store' = [store EXCEPT ![c] =
                    AppendMsg(@, g.id, NewMsg(g.parent, "assistant"))]
    /\ gen' = [gen EXCEPT ![c] = NoGen]
    /\ Resume(g, TRUE)

\* onChunk: each chunk reports the pending id as the current leaf.
Chunk(c) ==
    /\ gen[c] # NoGen
    /\ currNodeId' = gen[c].id
    /\ UNCHANGED <<convs, store, nextId, gen, viewConv, textarea, items,
                   nextItem, ingesting, snap, sent, discarded>>

StreamEnd(c) ==
    /\ gen[c] # NoGen
    /\ Finalize(c)
    /\ UNCHANGED <<convs, nextId, viewConv, nextItem, ingesting, snap,
                   sent, discarded>>

\* A transport failure: the pending reply is dropped, the send fails.
StreamError(c) ==
    /\ gen[c] # NoGen
    /\ gen' = [gen EXCEPT ![c] = NoGen]
    /\ Resume(gen[c], FALSE)
    /\ UNCHANGED <<convs, store, nextId, viewConv, nextItem, ingesting, snap,
                   sent, discarded>>

\* The stop button (shown while the viewed conversation generates).
StopGenerating ==
    /\ snap.conv \in snap.gen
    /\ gen[snap.conv] # NoGen
    /\ Finalize(snap.conv)
    /\ UNCHANGED <<convs, nextId, viewConv, nextItem, ingesting, sent, discarded>>
    /\ snap' = FreshSnap

-----------------------------------------------------------------------------
(* ChatScreen handlers.                                                    *)

\* The last displayed message (messages.at(-1)?.msg.id), NoId if none.
LastMsgNodeId(display) == IF display = <<>> THEN NoId ELSE Last(display).msg

\* The parent of a new message appended after `leaf` in c (sendMessage:
\* under the displayed leaf, under the root of an empty conversation).
SendParent(c, leaf) == IF leaf = NoId THEN RootOf(c) ELSE leaf

\* sendNewMessage up to its `await`: a toast and nothing else on empty
\* input or while the viewed conversation generates (as rendered);
\* otherwise the input is cleared, currNodeId reset, and sendMessage called
\* with the rendered conversation, last message and items.
SendGuard == textarea # "" /\ snap.conv \notin snap.gen

\* ... sendMessage appends the user message under the last displayed one
\* and starts generating its reply.
SendToConv ==
    LET c == snap.conv
        u == nextId
    IN
    /\ SendGuard
    /\ c # NoConv
    /\ gen[c] = NoGen
    /\ nextId + 1 <= MaxMsgs
    /\ store' = [store EXCEPT ![c] =
                    AppendMsg(@, u, NewMsg(SendParent(c, LastMsgNodeId(snap.display)),
                                           "user"))]
    /\ StartGen(c, u + 1, u, "send", textarea)
    /\ nextId' = nextId + 2
    /\ setValue("")
    /\ currNodeId' = NoId
    /\ sent' = sent \cup ToSet(snap.items)
    /\ UNCHANGED <<convs, viewConv, items, nextItem, ingesting, discarded>>

\* Faulty variant: reserves one message id too few for a new conversation.
SendToNewConvShortBound ==
    LET c == CHOOSE x \in Convs \ convs : TRUE
        r == nextId
    IN
    /\ SendGuard
    /\ snap.conv = NoConv
    /\ convs # Convs
    /\ nextId + 1 <= MaxMsgs
    /\ convs' = convs \cup {c}
    /\ store' = [store EXCEPT ![c] =
                    AppendMsg([m \in {r} |-> RootMsg], r + 1, NewMsg(r, "user"))]
    /\ StartGen(c, r + 2, r + 1, "send", textarea)
    /\ nextId' = nextId + 3
    /\ viewConv' = c
    /\ setValue("")
    /\ currNodeId' = NoId
    /\ sent' = sent \cup ToSet(snap.items)
    /\ UNCHANGED <<items, nextItem, ingesting, discarded>>

\* ... on the "/" route sendMessage creates a conversation with a root,
\* appends the user message, navigates to it and starts the reply.
SendToNewConv ==
    LET c == CHOOSE x \in Convs \ convs : TRUE
        r == nextId
    IN
    /\ SendGuard
    /\ snap.conv = NoConv
    /\ convs # Convs
    /\ nextId + 2 <= MaxMsgs
    /\ convs' = convs \cup {c}
    /\ store' = [store EXCEPT ![c] =
                    AppendMsg([m \in {r} |-> RootMsg], r + 1, NewMsg(r, "user"))]
    /\ StartGen(c, r + 2, r + 1, "send", textarea)
    /\ nextId' = nextId + 3
    /\ viewConv' = c
    /\ setValue("")
    /\ currNodeId' = NoId
    /\ sent' = sent \cup ToSet(snap.items)
    /\ UNCHANGED <<items, nextItem, ingesting, discarded>>

\* ... sendMessage refuses while the conversation generates (spec sec. 7),
\* which the rendered isGenerating did not show yet: the input is
\* restored, and clearItems() runs all the same.
SendRefused ==
    LET c == snap.conv IN
    /\ SendGuard
    /\ c # NoConv
    /\ gen[c] # NoGen
    /\ currNodeId' = NoId
    /\ clearItems
    /\ UNCHANGED <<convs, store, nextId, gen, viewConv, textarea, nextItem,
                   ingesting, sent, discarded>>

\* sendNewMessage's guard fails: a toast, and nothing else.
SendToast ==
    /\ ~SendGuard
    /\ UNCHANGED <<convs, store, nextId, gen, viewConv, currNodeId, textarea,
                   items, nextItem, ingesting, sent, discarded>>

\* One call of the sendNewMessage the last render created, without what
\* React renders afterwards.
Submit == SendToConv \/ SendToNewConv \/ SendRefused \/ SendToast

\* The user messages and assistant replies shown by the last render.
Shown(role) == {d.msg : d \in {snap.display[k] : k \in 1..Len(snap.display)}}
               \cap {m \in DOMAIN store[snap.conv] : store[snap.conv][m].role = role}

\* handleEditMessage: show the edited message, then
\* replaceMessageAndGenerate appends the new version as a sibling under the
\* same parent and generates its reply; when the conversation already
\* generates it returns at once and the handler resets currNodeId.
EditMessage(m) ==
    LET c == snap.conv
        p == store[c][m].parent
        u == nextId
    IN
    /\ \/ /\ gen[c] # NoGen
          /\ currNodeId' = NoId
          /\ UNCHANGED <<store, gen, nextId>>
       \/ /\ gen[c] = NoGen
          /\ nextId + 1 <= MaxMsgs
          /\ store' = [store EXCEPT ![c] = AppendMsg(@, u, NewMsg(p, "user"))]
          /\ StartGen(c, u + 1, u, "edit", "")
          /\ nextId' = nextId + 2
          /\ currNodeId' = m
    /\ UNCHANGED <<convs, viewConv, textarea, items, nextItem, ingesting,
                   sent, discarded>>
    /\ snap' = FreshSnap

\* handleRegenerateMessage: show the branch up to the parent, then
\* replaceMessageAndGenerate generates a new reply under the same parent.
RegenerateMessage(m) ==
    LET c == snap.conv
        p == store[c][m].parent
    IN
    /\ \/ /\ gen[c] # NoGen
          /\ currNodeId' = NoId
          /\ UNCHANGED <<gen, nextId>>
       \/ /\ gen[c] = NoGen
          /\ nextId <= MaxMsgs
          /\ StartGen(c, nextId, p, "regen", "")
          /\ nextId' = nextId + 1
          /\ currNodeId' = p
    /\ UNCHANGED <<convs, store, viewConv, textarea, items, nextItem, ingesting,
                   sent, discarded>>
    /\ snap' = FreshSnap

\* The "previous / next version" buttons of a displayed message.
ChangeSibling(d, j) ==
    /\ SiblingAt(d, j) # NoId
    /\ currNodeId' = SiblingAt(d, j)
    /\ UNCHANGED <<convs, store, nextId, gen, viewConv, textarea, items,
                   nextItem, ingesting, sent, discarded>>
    /\ snap' = FreshSnap

\* Selecting a conversation in the sidebar, or "New conversation" ("/").
\* The effect on currConvId resets currNodeId when the conversation changes.
SelectConv(c) ==
    /\ c # viewConv
    /\ viewConv' = c
    /\ currNodeId' = NoId
    /\ UNCHANGED <<convs, store, nextId, gen, textarea, items, nextItem,
                   ingesting, sent, discarded>>
    /\ snap' = FreshSnap

TypeText(t) ==
    /\ textarea' = t
    /\ UNCHANGED <<convs, store, nextId, gen, viewConv, currNodeId, items,
                   nextItem, ingesting, sent, discarded>>
    /\ snap' = FreshSnap

-----------------------------------------------------------------------------
(* useChatExtraContext.                                                    *)

\* Pasting long text adds a "context" item at once (onPasteCapture).
PasteContext ==
    /\ nextItem <= MaxItems
    /\ addItems(<<nextItem>>)
    /\ nextItem' = nextItem + 1
    /\ UNCHANGED <<convs, store, nextId, gen, viewConv, currNodeId, textarea,
                   ingesting, sent, discarded>>
    /\ snap' = FreshSnap

\* Dropping or pasting a file calls onFileAdded, which reads it
\* asynchronously (getFileAsBase64, FileReader, pdf.js).
DropFile ==
    /\ nextItem <= MaxItems
    /\ ingesting' = ingesting \cup {nextItem}
    /\ nextItem' = nextItem + 1
    /\ UNCHANGED <<convs, store, nextId, gen, viewConv, currNodeId, textarea,
                   items, snap, sent, discarded>>

\* The read completes and addItems appends the item (setItems(prev => ...)).
FileRead(i) ==
    /\ i \in ingesting
    /\ addItems(<<i>>)
    /\ ingesting' = ingesting \ {i}
    /\ UNCHANGED <<convs, store, nextId, gen, viewConv, currNodeId, textarea,
                   nextItem, snap, sent, discarded>>

\* The file is refused with a toast (too large, binary, unsupported type).
FileRefused(i) ==
    /\ i \in ingesting
    /\ ingesting' = ingesting \ {i}
    /\ discarded' = discarded \cup {i}
    /\ UNCHANGED <<convs, store, nextId, gen, viewConv, currNodeId, textarea,
                   items, nextItem, snap, sent>>

\* ChatInputExtraContextItem: one remove button per rendered item, bound
\* to the item's position in the rendered list.
RemoveButtons(its) == 1..Len(its)

\* The remove button at position k (the list is hidden while generating):
\* removeItem filters index k-1 out of the items as they are by then,
\* which is a no-op past their end.
RemoveItem(k) ==
    /\ snap.conv \notin snap.gen
    /\ k \in RemoveButtons(snap.items)
    /\ removeItem(k)
    /\ discarded' = IF k <= Len(items) THEN discarded \cup {items[k]}
                                       ELSE discarded
    /\ UNCHANGED <<convs, store, nextId, gen, viewConv, currNodeId, textarea,
                   nextItem, ingesting, sent>>
    /\ snap' = FreshSnap

\* React renders the updates made outside event handlers.
Render ==
    /\ snap # Snapshot(viewConv, currNodeId, store, gen, items)
    /\ snap' = Snapshot(viewConv, currNodeId, store, gen, items)
    /\ UNCHANGED <<convs, store, nextId, gen, viewConv, currNodeId, textarea,
                   items, nextItem, ingesting, sent, discarded>>

-----------------------------------------------------------------------------
(* The VSCode bridge and the mount effect.                                 *)

\* The effect after the first render: with ?q= it calls sendNewMessage,
\* otherwise it focuses the input.
Mount ==
    /\ mount # "done"
    /\ mount' = "done"
    /\ IF mount = "q" THEN Submit ELSE UNCHANGED <<convs, store, nextId, gen,
            viewConv, currNodeId, textarea, items, nextItem, ingesting, sent,
            discarded>>
    /\ UNCHANGED <<snap, timers>>

\* A setText message from the editor: the text goes into the input; a
\* non-empty context replaces the items (clearItems, then addItems); a
\* submit is scheduled 10 ms later.
BridgeSetText(t, ctx) ==
    /\ timers < MaxTimers
    /\ setValue(t)
    /\ IF ctx
       THEN /\ nextItem <= MaxItems
            /\ items' = <<nextItem>>
            /\ nextItem' = nextItem + 1
            /\ discarded' = discarded \cup ToSet(items)
       ELSE UNCHANGED <<items, nextItem, discarded>>
    /\ timers' = timers + 1
    /\ UNCHANGED <<convs, store, nextId, gen, viewConv, currNodeId, ingesting,
                   snap, sent, mount>>

\* The timer fires: refOnSubmit holds the sendNewMessage of the last
\* render, with that render's items, conversation and isGenerating.
BridgeSubmit ==
    /\ timers > 0
    /\ timers' = timers - 1
    /\ Submit
    /\ UNCHANGED <<snap, mount>>

-----------------------------------------------------------------------------
(* ChatMessage's edit mode (editingContent).                               *)

\* The ChatMessage components a render mounts, keyed by message id.
Mounted(sn) == {sn.display[k].msg : k \in 1..Len(sn.display)}

\* A render that no longer shows a message unmounts its ChatMessage, and
\* React drops its editingContent.
Unmount == editing' = editing \cap Mounted(snap')

\* The edit button of a user message: setEditingContent(msg.content).
OpenEditor(m) ==
    /\ editing' = editing \cup {m}
    /\ UNCHANGED <<convs, store, nextId, gen, viewConv, currNodeId, textarea,
                   items, nextItem, ingesting, snap, sent, discarded>>

\* Cancel: setEditingContent(null).
CancelEdit(m) ==
    /\ editing' = editing \ {m}
    /\ UNCHANGED <<convs, store, nextId, gen, viewConv, currNodeId, textarea,
                   items, nextItem, ingesting, snap, sent, discarded>>

\* Submit: the editor closes (setEditingContent(null)) and
\* onEditMessage runs handleEditMessage.
SubmitEdit(m) ==
    /\ EditMessage(m)
    /\ editing' = (editing \ {m}) \cap Mounted(snap')

EditStep ==
    \/ snap.conv # NoConv /\ \E m \in Shown("user") \ editing : OpenEditor(m)
    \/ \E m \in editing : CancelEdit(m) \/ SubmitEdit(m)

-----------------------------------------------------------------------------
UserStep ==
    \/ (SendToConv \/ SendToNewConv \/ SendRefused) /\ snap' = FreshSnap
    \/ snap.conv # NoConv /\ \E m \in Shown("assistant") : RegenerateMessage(m)
    \/ \E k \in 1..Len(snap.display) :
          \E j \in {snap.display[k].siblingCurrIdx - 1,
                    snap.display[k].siblingCurrIdx + 1} :
             ChangeSibling(snap.display[k], j)
    \/ \E c \in convs \cup {NoConv} : SelectConv(c)
    \/ \E t \in Texts : TypeText(t)
    \/ StopGenerating \/ PasteContext \/ DropFile
    \/ \E k \in 1..MaxItems : RemoveItem(k)

SystemStep ==
    \/ \E c \in Convs : Chunk(c) \/ StreamEnd(c) \/ StreamError(c)
    \/ \E i \in ingesting : FileRead(i) \/ FileRefused(i)
    \/ Render

\* Messages from VSCode arrive once the listener is installed.
BridgeStep ==
    \/ \E t \in Texts \cup {""}, ctx \in BOOLEAN : BridgeSetText(t, ctx)
    \/ BridgeSubmit

Next ==
    \/ mount = "done" /\ UserStep /\ UNCHANGED ui /\ Unmount
    \/ mount = "done" /\ EditStep /\ UNCHANGED ui
    \/ mount = "done" /\ BridgeStep /\ UNCHANGED editing
    \/ SystemStep /\ UNCHANGED ui /\ Unmount
    \/ Mount /\ UNCHANGED editing

\* Streams end, file reads complete, timers fire, effects run and React
\* renders: the browser's own work is weakly fair; the user's actions and
\* the editor's messages are not.
Fairness ==
    /\ \A c \in Convs :
          WF_vars((StreamEnd(c) \/ StreamError(c)) /\ UNCHANGED ui /\ Unmount)
    /\ \A i \in 1..MaxItems :
          WF_vars((FileRead(i) \/ FileRefused(i)) /\ UNCHANGED ui /\ Unmount)
    /\ WF_vars(Render /\ UNCHANGED ui /\ Unmount)
    /\ WF_vars(BridgeSubmit /\ UNCHANGED editing)
    /\ WF_vars(Mount /\ UNCHANGED editing)

Spec == Init /\ [][Next]_vars /\ Fairness

-----------------------------------------------------------------------------
(* Properties.                                                             *)

(***************************************************************************)
(* When a generation of the viewed conversation finishes with its reply    *)
(* stored, the view shows that reply as the last message, unless the user *)
(* picked a version of this conversation while a send was generating      *)
(* (sendNewMessage keeps the user's choice; edit and regenerate reset to   *)
(* the latest leaf).  Involves onChunk, the handlers' code after `await`  *)
(* and chunks of other conversations' streams.                             *)
(***************************************************************************)
ReplyShownWhenDone ==
    [][\A c \in Convs :
         LET g == gen[c] IN
         ( /\ g # NoGen /\ gen'[c] = NoGen
           /\ g.id \in DOMAIN store'[c]
           /\ viewConv = c /\ viewConv' = c
           /\ g.kind # "send" \/ currNodeId \notin DOMAIN store[c] )
         => LastMsgNodeId(GetListMessageDisplay(store'[c], currNodeId')) = g.id
      ]_vars

(***************************************************************************)
(* Every extra-context item the user added is still in the input, was sent *)
(* with a message, or was removed or refused: the clearItems after        *)
(* `await sendMessage` must not drop items added while it was awaiting.   *)
(***************************************************************************)
ExtraItemsNotLost ==
    \A i \in 1..(nextItem - 1) :
        i \in ToSet(items) \cup ingesting \cup sent \cup discarded
=============================================================================
