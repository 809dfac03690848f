--------------------------- MODULE SidebarGroups ---------------------------
(***************************************************************************)
(* Sidebar.tsx groupConversationsByDate and the list it is applied to:    *)
(* the sidebar reloads the conversations on every change notification of *)
(* the store and regroups them (a useMemo on the list alone); the reload  *)
(* is taken as part of the change, grouped on the day of the change, and  *)
(* the groups stay as they are while days pass without a change.         *)
(*                                                                         *)
(* Time is counted in whole days (`now`); a conversation's lastModified   *)
(* is the day it last changed.  Calendar months are abstracted to blocks  *)
(* of DaysPerMonth days: the code only compares month keys by date.  The  *)
(* store (storage.ts) is taken from the spec: a conversation is created,  *)
(* touched by every message appended to it, or removed.                    *)
(***************************************************************************)
EXTENDS Integers, Sequences, SequencesExt, FiniteSets

CONSTANTS ConvOrder,       \* conversation ids, in creation order
          MaxDay,          \* last day modelled
          Jumps,           \* how many days may pass at once
          DaysPerMonth

Convs == ToSet(ConvOrder)

ASSUME /\ IsInjective(ConvOrder)
       /\ MaxDay \in Nat /\ Jumps \subseteq 1..MaxDay
       /\ DaysPerMonth \in Nat \ {0}

VARIABLES lastMod,   \* the stored conversations: id -> lastModified day
          now,       \* today
          created,   \* how many conversations have been created
          parsable,  \* whether new Date("<Month> <Year>") parses in the
                     \* browser's locale (toLocaleString('default'))
          groupedOn  \* the day groupedConv was last computed

vars == <<lastMod, now, created, parsable, groupedOn>>

Days == 0..MaxDay

Stored == DOMAIN lastMod

TypeOK ==
    /\ Stored \subseteq Convs /\ lastMod \in [Stored -> Days]
    /\ now \in Days
    /\ created \in 0..Len(ConvOrder)
    /\ Stored \subseteq {ConvOrder[i] : i \in 1..created}
    /\ parsable \in BOOLEAN
    /\ groupedOn \in Days

Init ==
    /\ lastMod = [c \in {} |-> 0]
    /\ now = 0
    /\ created = 0
    /\ parsable \in BOOLEAN
    /\ groupedOn = 0

-----------------------------------------------------------------------------
(* groupConversationsByDate.                                               *)

MonthOf(d) == d \div DaysPerMonth

\* A group: one of the three fixed ones, or a month ("Month Year" key).
Fixed(name) == [kind |-> name, month |-> -1]
MonthGroup(m) == [kind |-> "month", month |-> m]

\* The group a conversation of day d falls in, seen on day today: Today,
\* the previous 7 and 30 days (start of today minus 7 and 30 days), or
\* its month.
Bucket(d, today) ==
    IF d >= today THEN Fixed("today")
    ELSE IF d >= today - 7 THEN Fixed("prev7")
    ELSE IF d >= today - 30 THEN Fixed("prev30")
    ELSE MonthGroup(MonthOf(d))

\* [...conversations].sort((a, b) => b.lastModified - a.lastModified):
\* newest first, a stable sort keeping the store's order on ties.
SortedConvs(lm) ==
    LET rank(c) == CHOOSE i \in DOMAIN ConvOrder : ConvOrder[i] = c
    IN  SetToSortSeq(DOMAIN lm, LAMBDA a, b :
            lm[a] > lm[b] \/ (lm[a] = lm[b] /\ rank(a) < rank(b)))

\* Object.keys(monthlyGroups): the months in the order their first
\* conversation was pushed.
RECURSIVE FirstSeen(_)
FirstSeen(s) ==
    IF s = <<>> THEN <<>>
    ELSE LET rest == FirstSeen(SelectSeq(Tail(s), LAMBDA x : x # Head(s)))
         IN  <<Head(s)>> \o rest

\* sortedMonthKeys: by parsed date, newest first.  A key that does not
\* parse gives NaN, which Array.prototype.sort takes as "equal": the
\* stable sort then keeps the keys in insertion order.
SortMonthKeys(keys) ==
    IF parsable
    THEN SetToSortSeq(ToSet(keys), LAMBDA a, b : a.month > b.month)
    ELSE keys

\* Faulty variant: the conversations are sorted oldest first.
GroupConversationsByDateAscending(lm, today) ==
    LET sorted == SetToSortSeq(DOMAIN lm, LAMBDA a, b : lm[a] < lm[b])
        inGroup(g) == SelectSeq(sorted, LAMBDA c : Bucket(lm[c], today) = g)
        months == [i \in 1..Len(sorted) |-> Bucket(lm[sorted[i]], today)]
        keys == SortMonthKeys(FirstSeen(SelectSeq(months, LAMBDA g : g.kind = "month")))
        groups == <<Fixed("today"), Fixed("prev7"), Fixed("prev30")>> \o keys
    IN  SelectSeq([i \in 1..Len(groups) |->
                      [title |-> groups[i], convs |-> inGroup(groups[i])]],
                  LAMBDA g : g.convs # <<>>)

\* The groups in display order, empty ones left out.
GroupConversationsByDate(lm, today) ==
    LET sorted == SortedConvs(lm)
        inGroup(g) == SelectSeq(sorted, LAMBDA c : Bucket(lm[c], today) = g)
        months == [i \in 1..Len(sorted) |-> Bucket(lm[sorted[i]], today)]
        keys == SortMonthKeys(FirstSeen(SelectSeq(months, LAMBDA g : g.kind = "month")))
        groups == <<Fixed("today"), Fixed("prev7"), Fixed("prev30")>> \o keys
    IN  SelectSeq([i \in 1..Len(groups) |->
                      [title |-> groups[i], convs |-> inGroup(groups[i])]],
                  LAMBDA g : g.convs # <<>>)

-----------------------------------------------------------------------------
(* The store (storage.ts, from the spec) and the passing of time.          *)

\* Every change of the store is followed by the reload and the re-render
\* whose useMemo([conversations]) regroups on that day; nothing else
\* regroups.
Regrouped == groupedOn' = now

\* Faulty variant: the id counter is not advanced.
NewConversationSameId ==
    LET c == ConvOrder[created + 1] IN
    /\ created < Len(ConvOrder)
    /\ lastMod' = lastMod @@ (c :> now)
    /\ Regrouped
    /\ UNCHANGED <<now, created, parsable>>

\* A send on "/" creates a conversation; ids (Date.now()) are never reused.
NewConversation ==
    LET c == ConvOrder[created + 1] IN
    /\ created < Len(ConvOrder)
    /\ created' = created + 1
    /\ lastMod' = lastMod @@ (c :> now)
    /\ Regrouped
    /\ UNCHANGED <<now, parsable>>

\* A message (sent, edited, regenerated or a reply) is appended to c.
Touch(c) ==
    /\ c \in Stored
    /\ lastMod' = [lastMod EXCEPT ![c] = now]
    /\ Regrouped
    /\ UNCHANGED <<now, created, parsable>>

\* StorageUtils.remove after a confirmed delete.
RemoveConversation(c) ==
    /\ c \in Stored
    /\ lastMod' = [d \in Stored \ {c} |-> lastMod[d]]
    /\ Regrouped
    /\ UNCHANGED <<now, created, parsable>>

DayPasses(k) ==
    /\ now + k <= MaxDay
    /\ now' = now + k
    /\ UNCHANGED <<lastMod, created, parsable, groupedOn>>

Next ==
    \/ NewConversation
    \/ \E c \in Convs : Touch(c) \/ RemoveConversation(c)
    \/ \E k \in Jumps : DayPasses(k)

Spec == Init /\ [][Next]_vars

-----------------------------------------------------------------------------
(***************************************************************************)
(* The sidebar lists every conversation it loaded exactly once, newest    *)
(* first across all groups: the date buckets, the month keys' creation    *)
(* order and their sort by parsed date (NaN when the month name does not  *)
(* parse) must all agree with the sort by lastModified.                   *)
(***************************************************************************)
SidebarNewestFirst ==
    LET G == GroupConversationsByDate(lastMod, groupedOn)
        L == FlattenSeq([i \in 1..Len(G) |-> G[i].convs])
    IN  /\ Len(L) = Cardinality(Stored)
        /\ ToSet(L) = Stored
        /\ \A i \in 1..(Len(L) - 1) : lastMod[L[i]] >= lastMod[L[i + 1]]
====
