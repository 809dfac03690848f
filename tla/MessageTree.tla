---------------------------- MODULE MessageTree ----------------------------
(***************************************************************************)
(* The conversation tree of the chat web UI and the operators that resolve *)
(* the displayed branch from it.                                           *)
(*                                                                         *)
(* A store `msgs` is a function from message id to a node record          *)
(*   [type |-> "root" | "text", role |-> ..., parent |-> id, children |->  *)
(*    sequence of ids]                                                     *)
(* as in types.ts (Message).  Content, timestamps and extras are left out: *)
(* ids are created in increasing order, so an id is also its timestamp.    *)
(*                                                                         *)
(* FindLeafNode and GetListMessageDisplay translate ChatScreen.tsx;        *)
(* FilterByLeafNodeId and AppendMsg stand for StorageUtils (storage.ts),   *)
(* which is not part of the sources and is taken from the spec, sec. 4.1.  *)
(***************************************************************************)
EXTENDS Integers, Sequences, SequencesExt

\* The "-1" that ChatScreen.tsx uses for "no node" (nodeMap.get(... ?? -1)).
NoId == -1

Roles == {"user", "assistant"}

\* A fresh text node under `parent` (StorageUtils.appendMsg, spec sec. 3).
NewMsg(parent, role) ==
    [type |-> "text", role |-> role, parent |-> parent, children |-> <<>>]

\* The root node a new conversation starts with (spec sec. 3).
RootMsg == [type |-> "root", role |-> "system", parent |-> NoId, children |-> <<>>]

\* Store `node` under the fresh id `id` and append `id` to its parent's
\* children: insertion order is authoritative (spec sec. 3).
AppendMsg(msgs, id, node) ==
    [m \in DOMAIN msgs \cup {id} |->
        IF m = id THEN node
        ELSE IF m = node.parent
             THEN [msgs[m] EXCEPT !.children = Append(@, id)]
             ELSE msgs[m]]

\* The ids from the root down to `id`, following parent links.
RECURSIVE PathToRoot(_, _)
PathToRoot(msgs, id) ==
    IF id \in DOMAIN msgs
    THEN Append(PathToRoot(msgs, msgs[id].parent), id)
    ELSE <<>>

\* The most recent childless node: the default leaf (spec sec. 4.1 step 2).
LatestLeaf(msgs) ==
    LET leaves == {m \in DOMAIN msgs : msgs[m].children = <<>>}
    IN  IF leaves = {} THEN NoId
        ELSE CHOOSE m \in leaves : \A l \in leaves : l <= m

\* StorageUtils.filterByLeafNodeId: the branch ending at leafNodeId, root
\* first, or the branch of the latest leaf when leafNodeId is not a node.
FilterByLeafNodeId(msgs, leafNodeId, includeRoot) ==
    LET start == IF leafNodeId \in DOMAIN msgs THEN leafNodeId
                 ELSE LatestLeaf(msgs)
        path  == PathToRoot(msgs, start)
    IN  IF includeRoot THEN path
        ELSE SelectSeq(path, LAMBDA m : msgs[m].type # "root")

\* findLeafNode: follow the last child until a childless node; -1 when a
\* link leads to no node.
RECURSIVE FindLeafNode(_, _)
FindLeafNode(msgs, msgId) ==
    IF msgId \notin DOMAIN msgs THEN NoId
    ELSE IF msgs[msgId].children = <<>> THEN msgId
    ELSE FindLeafNode(msgs, Last(msgs[msgId].children))

\* Faulty variant: the 1-based position is taken for indexOf's 0-based one.
MessageDisplayOneBased(msgs, id) ==
    LET siblings == msgs[msgs[id].parent].children
    IN  [msg                |-> id,
         siblingLeafNodeIds |-> [i \in 1..Len(siblings) |->
                                    FindLeafNode(msgs, siblings[i])],
         siblingCurrIdx     |-> SelectInSeq(siblings, LAMBDA s : s = id)]

\* One MessageDisplay entry for node `id`, whose parent is in the store.
MessageDisplay(msgs, id) ==
    LET siblings == msgs[msgs[id].parent].children
    IN  [msg                |-> id,
         siblingLeafNodeIds |-> [i \in 1..Len(siblings) |->
                                    FindLeafNode(msgs, siblings[i])],
         siblingCurrIdx     |-> SelectInSeq(siblings, LAMBDA s : s = id) - 1]

\* getListMessageDisplay: the displayed branch for leafNodeId, skipping the
\* root and every node whose parent is not in the store.
GetListMessageDisplay(msgs, leafNodeId) ==
    LET shown == SelectSeq(FilterByLeafNodeId(msgs, leafNodeId, TRUE),
                    LAMBDA m : /\ msgs[m].parent \in DOMAIN msgs
                               /\ msgs[m].type # "root")
    IN  [k \in 1..Len(shown) |-> MessageDisplay(msgs, shown[k])]

\* Faulty variant: the 0-based index is used as a 1-based one.
SiblingAtShifted(display, i) ==
    IF i \in 1..Len(display.siblingLeafNodeIds)
    THEN display.siblingLeafNodeIds[i]
    ELSE NoId

\* ChatMessage's "version n of m" buttons: the leaf of the sibling at
\* 0-based index i, if there is one (nextSibling / prevSibling).
SiblingAt(display, i) ==
    IF i \in 0..(Len(display.siblingLeafNodeIds) - 1)
    THEN display.siblingLeafNodeIds[i + 1]
    ELSE NoId
=============================================================================
