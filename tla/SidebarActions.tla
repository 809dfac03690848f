-------------------------- MODULE SidebarActions --------------------------
(***************************************************************************)
(* Sidebar.tsx with ModalProvider's showConfirm and showPrompt.            *)
(*                                                                         *)
(* The sidebar keeps two copies of what storage holds: `conversations`,   *)
(* reloaded by getAllConversations on mount and on every change event,    *)
(* and `currConv`, looked up by getOneConversation whenever the route's   *)
(* convId changes.  Both are set when their read resolves, with no check *)
(* that a later read was issued meanwhile.  Only conversations in the    *)
(* loaded list can be clicked.                                            *)
(*                                                                         *)
(* onDelete / onRename check isGenerating(conv.id), then await the       *)
(* dialog, then delete or rename.  Meanwhile a generation may start in   *)
(* the same conversation: the dialog (a <dialog> with the modal-open     *)
(* class, not showModal) leaves the page's keyboard focus usable, and    *)
(* the VSCode bridge submits by itself.                                   *)
(*                                                                         *)
(* The store, its change events and the generation (storage.ts,          *)
(* app.context) are taken from the spec: a read sees every write issued  *)
(* before it (an IndexedDB transaction), a write is announced by one     *)
(* change event once it completes, and a generation starts on a send and *)
(* ends with its reply, each saving the conversation.                    *)
(***************************************************************************)
EXTENDS Naturals, Sequences

CONSTANTS Convs,          \* the conversations in the store
          NoConv,         \* the "/" route, and a lookup that finds nothing
          ReorderedReads, \* may read transactions complete out of order?
          MaxEvents,      \* bound on change events not yet dispatched
          MaxReads        \* bound on reads of each kind in flight

ASSUME NoConv \notin Convs
ASSUME ReorderedReads \in BOOLEAN

NoDialog == [op |-> "none", conv |-> NoConv]

VARIABLES stored,    \* conversations in the store
          gen,       \* conversations with a generation running
          renamed,   \* conversations given a name by the user
          dialog,    \* the open confirm / prompt, and whose handler awaits it
          viewConv,  \* the route's conversation (params.convId)
          currConv,  \* the sidebar's currConv
          lookups,   \* getOneConversation results in flight, oldest first
          list,      \* the sidebar's `conversations`
          loads,     \* getAllConversations results in flight, oldest first
          events     \* completed writes whose change event is not yet handled

vars == <<stored, gen, renamed, dialog, viewConv, currConv, lookups, list,
          loads, events>>

\* What a read of the whole store returns, up to order and timestamps.
Snapshot == [ids |-> stored, named |-> renamed]

Listing == [ids : SUBSET Convs, named : SUBSET Convs]

TypeOK ==
    /\ stored \subseteq Convs
    /\ gen \subseteq Convs
    /\ renamed \subseteq Convs
    /\ dialog \in {NoDialog} \cup [op : {"delete", "rename"}, conv : Convs]
    /\ viewConv \in Convs \cup {NoConv}
    /\ currConv \in Convs \cup {NoConv}
    /\ lookups \in Seq(Convs \cup {NoConv})
    /\ list \in Listing
    /\ loads \in Seq(Listing)
    /\ events \in 0..MaxEvents

\* getOneConversation(id): the stored conversation, or null.
LookUp(c) == IF c \in stored THEN c ELSE NoConv

\* Faulty variant: the mount effect registers the listener but never
\* calls handleConversationChange itself.
InitNoMountLoad ==
    /\ stored = Convs
    /\ gen = {}
    /\ renamed = {}
    /\ dialog = NoDialog
    /\ viewConv \in Convs \cup {NoConv}
    /\ currConv = NoConv
    /\ lookups = <<LookUp(viewConv)>>
    /\ list = [ids |-> {}, named |-> {}]
    /\ loads = <<>>
    /\ events = 0

\* First render: both states empty, then the two mount effects issue the
\* route's lookup and the first full load.
Init ==
    /\ stored = Convs
    /\ gen = {}
    /\ renamed = {}
    /\ dialog = NoDialog
    /\ viewConv \in Convs \cup {NoConv}
    /\ currConv = NoConv
    /\ lookups = <<LookUp(viewConv)>>
    /\ list = [ids |-> {}, named |-> {}]
    /\ loads = <<Snapshot>>
    /\ events = 0

\* navigate(to): the effect on [params.convId] reruns only when the id
\* changes, and then issues a lookup.
Navigate(c) ==
    /\ viewConv' = c
    /\ IF c = viewConv
       THEN UNCHANGED lookups
       ELSE /\ Len(lookups) < MaxReads
            /\ lookups' = Append(lookups, IF c \in stored' THEN c ELSE NoConv)

\* Faulty variant: a write announced past the bound on pending events.
WrittenPastBound == events' = events + 1

\* A completed write of storage.ts, announced later by a change event.
Written == /\ events < MaxEvents
           /\ events' = events + 1

\* A send in a stored conversation that is not generating (sendMessage's
\* isGenerating check); appending the user message is a write.
StartGeneration(c) ==
    /\ c \in stored
    /\ c \notin gen
    /\ gen' = gen \cup {c}
    /\ Written
    /\ UNCHANGED <<stored, renamed, dialog, viewConv, currConv, lookups, list,
                   loads>>

\* The reply is saved and the generation ends.
EndGeneration(c) ==
    /\ c \in gen
    /\ gen' = gen \ {c}
    /\ Written
    /\ UNCHANGED <<stored, renamed, dialog, viewConv, currConv, lookups, list,
                   loads>>

\* onSelect: navigate(`/chat/${conv.id}`) for a listed conversation.
Select(c) ==
    /\ dialog = NoDialog
    /\ c \in list.ids
    /\ UNCHANGED <<stored, gen, renamed, dialog, currConv, list, loads, events>>
    /\ Navigate(c)

\* The "New conversation" button: navigate('/').
NewConversation ==
    /\ dialog = NoDialog
    /\ UNCHANGED <<stored, gen, renamed, dialog, currConv, list, loads, events>>
    /\ Navigate(NoConv)

\* showConfirm / showPrompt: the dialog's state keeps the caller's resolve.
ShowDialog(op, c) == dialog' = [op |-> op, conv |-> c]

\* handleConfirm / handlePrompt: resolve the awaiting handler and close.
CloseDialog == dialog' = NoDialog

\* onDelete / onRename up to their await, on a listed conversation: a
\* toast and nothing else while c generates, otherwise the dialog opens.
\* Its overlay covers the sidebar, so no second dialog is opened while
\* one is open.
AskToModify(c, op) ==
    /\ c \in list.ids
    /\ dialog = NoDialog
    /\ c \notin gen
    /\ ShowDialog(op, c)
    /\ UNCHANGED <<stored, gen, renamed, viewConv, currConv, lookups, list,
                   loads, events>>

\* Cancel, or a prompt submitted blank (newName.trim().length === 0).
Dismiss ==
    /\ dialog # NoDialog
    /\ CloseDialog
    /\ UNCHANGED <<stored, gen, renamed, viewConv, currConv, lookups, list,
                   loads, events>>

\* Faulty variant: the conversation is removed and the route kept.
ConfirmDeleteNoNavigate ==
    /\ dialog.op = "delete"
    /\ CloseDialog
    /\ stored' = stored \ {dialog.conv}
    /\ Written
    /\ UNCHANGED <<gen, renamed, viewConv, currConv, lookups, list, loads>>

\* Confirm: StorageUtils.remove(conv.id), not awaited, then navigate('/').
ConfirmDelete ==
    /\ dialog.op = "delete"
    /\ CloseDialog
    /\ stored' = stored \ {dialog.conv}
    /\ Written
    /\ Navigate(NoConv)
    /\ UNCHANGED <<gen, renamed, currConv, list, loads>>

\* Submit of a non-blank name: StorageUtils.updateConversationName, which
\* updates nothing if the conversation is gone but still announces it.
SubmitRename ==
    /\ dialog.op = "rename"
    /\ CloseDialog
    /\ renamed' = renamed \cup ({dialog.conv} \cap stored)
    /\ Written
    /\ UNCHANGED <<stored, gen, viewConv, currConv, lookups, list, loads>>

\* The change event runs handleConversationChange: a full read is issued.
Notify ==
    /\ events > 0
    /\ Len(loads) < MaxReads
    /\ events' = events - 1
    /\ loads' = Append(loads, Snapshot)
    /\ UNCHANGED <<stored, gen, renamed, dialog, viewConv, currConv, lookups,
                   list>>

\* The read that completes: the oldest, or any if reads may be reordered.
Completing(q) ==
    IF ReorderedReads THEN DOMAIN q ELSE {i \in DOMAIN q : i = 1}

Without(q, i) == SubSeq(q, 1, i - 1) \o SubSeq(q, i + 1, Len(q))

\* setConversations(await StorageUtils.getAllConversations()).
LoadDone ==
    \E i \in Completing(loads) :
        /\ list' = loads[i]
        /\ loads' = Without(loads, i)
        /\ UNCHANGED <<stored, gen, renamed, dialog, viewConv, currConv,
                       lookups, events>>

\* getOneConversation(params.convId).then(setCurrConv).
LookupDone ==
    \E i \in Completing(lookups) :
        /\ currConv' = lookups[i]
        /\ lookups' = Without(lookups, i)
        /\ UNCHANGED <<stored, gen, renamed, dialog, viewConv, list, loads,
                       events>>

UserStep ==
    \/ \E c \in Convs :
          \/ Select(c)
          \/ \E op \in {"delete", "rename"} : AskToModify(c, op)
    \/ NewConversation \/ Dismiss \/ ConfirmDelete \/ SubmitRename

Next ==
    \/ UserStep
    \/ \E c \in Convs : StartGeneration(c) \/ EndGeneration(c)
    \/ Notify \/ LoadDone \/ LookupDone

\* Events are dispatched and reads complete on their own; the user and the
\* model server are under no obligation.
Spec == Init /\ [][Next]_vars
          /\ WF_vars(Notify) /\ WF_vars(LoadDone) /\ WF_vars(LookupDone)

-----------------------------------------------------------------------------
(***************************************************************************)
(* "Cannot delete / rename conversation while generating" (the handlers'  *)
(* toasts; spec sec. 7 lists a generation in progress as a validation     *)
(* failure): a conversation is never deleted or renamed while its reply   *)
(* is being generated.                                                    *)
(***************************************************************************)
NoChangeWhileGenerating ==
    [][\A c \in Convs :
          (c \in stored \ stored') \/ (c \in renamed' \ renamed) => c \notin gen]_vars

(***************************************************************************)
(* The highlighted conversation (currConv, set by the lookup effect) is   *)
(* the route's conversation once no lookup is in flight, or none if the  *)
(* route names no stored conversation: a deleted conversation is never   *)
(* left highlighted, and an older lookup never overrides a newer one.    *)
(***************************************************************************)
HighlightFollowsRoute ==
    lookups = <<>> => currConv = LookUp(viewConv)

(***************************************************************************)
(* Whatever the store holds, the listed conversations (reloaded by        *)
(* handleConversationChange on every change event) come to show it, with *)
(* its names, unless the store changes again first.                       *)
(***************************************************************************)
ListCatchesUp ==
    \A s \in Listing : Snapshot = s ~> (list = s \/ Snapshot # s)
=============================================================================
