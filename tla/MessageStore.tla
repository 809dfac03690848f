---------------------------- MODULE MessageStore ----------------------------
(***************************************************************************)
(* One conversation's message store growing the way the UI grows it, and   *)
(* the branch resolver of ChatScreen.tsx checked on every reachable tree   *)
(* for every leaf argument it can be given.                                *)
(*                                                                         *)
(* Every message is appended under an existing node: sendMessage appends  *)
(* under the displayed leaf, replaceMessageAndGenerate under the parent of *)
(* the edited or regenerated message, so any node can gain a child.  A     *)
(* child of the root or of an assistant message is a user message, a child *)
(* of a user message an assistant reply.                                   *)
(***************************************************************************)
EXTENDS MessageTree, FiniteSets

CONSTANTS MaxMsgs   \* ids 1..MaxMsgs; id 1 is the root

ASSUME MaxMsgs \in Nat /\ MaxMsgs >= 4

VARIABLES msgs,     \* id -> node: the conversation's stored messages
          nextId    \* the id the next appended message receives

vars == <<msgs, nextId>>

Ids == 1..MaxMsgs

RootId == 1

\* The role the UI gives a new child of `p`.
ChildRole(p) == IF msgs[p].role = "user" THEN "assistant" ELSE "user"

TypeOK ==
    /\ DOMAIN msgs = 1..(nextId - 1)
    /\ \A m \in DOMAIN msgs :
          /\ msgs[m].type \in {"root", "text"}
          /\ msgs[m].parent \in DOMAIN msgs \cup {NoId}
          /\ msgs[m].children \in Seq(Ids)
    /\ nextId \in 2..(MaxMsgs + 1)

Init ==
    /\ msgs = [m \in {RootId} |-> RootMsg]
    /\ nextId = RootId + 1

\* Faulty variant: the id bound is off by one.
AppendChildPastBound(p) ==
    /\ nextId <= MaxMsgs + 1
    /\ msgs' = AppendMsg(msgs, nextId, NewMsg(p, ChildRole(p)))
    /\ nextId' = nextId + 1

\* StorageUtils.appendMsg of a new node under p.
AppendChild(p) ==
    /\ nextId <= MaxMsgs
    /\ msgs' = AppendMsg(msgs, nextId, NewMsg(p, ChildRole(p)))
    /\ nextId' = nextId + 1

Next == \E p \in DOMAIN msgs : AppendChild(p)

Spec == Init /\ [][Next]_vars

-----------------------------------------------------------------------------
\* The arguments getListMessageDisplay can be called with: every node id
\* (navigation, onChunk) and -1 (after send, edit, regenerate, switching).
LeafArgs == DOMAIN msgs \cup {NoId}

Display(leaf) == GetListMessageDisplay(msgs, leaf)

(***************************************************************************)
(* The displayed list is one branch hanging off the root, in root-to-leaf *)
(* order, ending at the requested node, and each entry's navigator counts *)
(* its parent's children and points at the entry itself (spec sec. 8,     *)
(* first two properties; getListMessageDisplay and filterByLeafNodeId).   *)
(***************************************************************************)
BranchIsRootPath ==
    \A leaf \in LeafArgs :
        LET D == Display(leaf) IN
        /\ Len(D) > 0 => msgs[D[1].msg].parent = RootId
        /\ \A k \in 1..(Len(D) - 1) : msgs[D[k + 1].msg].parent = D[k].msg
        /\ leaf \in DOMAIN msgs \ {RootId} => D[Len(D)].msg = leaf
        /\ \A k \in 1..Len(D) :
              LET sibs == msgs[msgs[D[k].msg].parent].children IN
              /\ Len(D[k].siblingLeafNodeIds) = Len(sibs)
              /\ D[k].siblingCurrIdx \in 0..(Len(sibs) - 1)
              /\ sibs[D[k].siblingCurrIdx + 1] = D[k].msg

(***************************************************************************)
(* Clicking "version j" on the k-th displayed message (ChatMessage sets    *)
(* currNodeId to siblingLeafNodeIds[j]) shows the same history above k,    *)
(* sibling j at position k, and a navigator that now reads j.  Two         *)
(* resolver calls, on two different leaves, must agree.                    *)
(***************************************************************************)
NavigatorSelectsVersion ==
    \A leaf \in LeafArgs :
        LET D == Display(leaf) IN
        \A k \in 1..Len(D) :
          \A j \in 0..(Len(D[k].siblingLeafNodeIds) - 1) :
            LET E    == Display(SiblingAt(D[k], j))
                sibs == msgs[msgs[D[k].msg].parent].children
            IN  /\ Len(E) >= k
                /\ \A i \in 1..(k - 1) : E[i].msg = D[i].msg
                /\ E[k].msg = sibs[j + 1]
                /\ E[k].siblingCurrIdx = j

=============================================================================
