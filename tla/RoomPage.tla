------------------------------ MODULE RoomPage ------------------------------
(***************************************************************************)
(* RoomPage of App.tsx: the gallery a member sees.  The page asks for the  *)
(* first items once, for further ones when "show more" is clicked, and     *)
(* for the first ones again every eight seconds.  The calls overlap: each  *)
(* is answered from the gallery of one moment and applied at a later one,  *)
(* in any order.                                                           *)
(***************************************************************************)
EXTENDS Gallery

CONSTANTS
  Clicks,   \* bound: how many "show more" may be under way at once
  MaxShown  \* bound: no more is asked for when so many items are shown

ASSUME PageBounds == Clicks \in Nat /\ MaxShown \in Nat

VARIABLES
  shown,       \* gallery, the items of the page from the top
  cursor,      \* cursor, NoCursor for null
  hasMore,     \* hasMore
  pastFirst,   \* loadedPastFirstPageRef
  refreshing,  \* galleryRefreshRef
  calls,       \* the media.gallery calls under way
  removing,    \* items whose media.remove was answered, not yet filtered out
  orderly,     \* history: no answer met a list it was not made for
  steady       \* history: while orderly, the items ready since the page opened

view     == <<shown, cursor, hasMore, pastFirst>>
history  == <<orderly, steady>>
pageVars == <<status, view, refreshing, calls, removing, history>>

\* A call: what it is for, the cursor it was sent with, its number among the
\* clicks, and its answer once the server has given one.
NoPage == [items |-> <<>>, next |-> NoCursor, more |-> FALSE]
Call(kind, from, n) == [kind |-> kind, from |-> from, n |-> n, answered |-> FALSE, page |-> NoPage]

InFlight(kind) == {c \in calls : c.kind = kind}

\* A list that can be continued has the cursor to continue it with.
PageTypeOK ==
  /\ status \in [Item -> {"pending", "ready", "deleted"}]
  /\ steady \subseteq Item
  /\ shown \in Seq(Item)
  /\ cursor \in {NoCursor} \cup Item /\ (hasMore <=> cursor # NoCursor)
  /\ pastFirst \in BOOLEAN /\ refreshing \in BOOLEAN /\ orderly \in BOOLEAN
  /\ \A c \in calls : /\ c.kind \in {"load", "more", "refresh"} /\ c.from \in {NoCursor} \cup Item
                      /\ c.page.items \in Seq(Item) /\ Len(c.page.items) <= PageSize
  /\ removing \subseteq Item

PageInit ==
  /\ GalleryInit
  /\ shown = <<>> /\ cursor = NoCursor /\ hasMore = FALSE
  /\ pastFirst = FALSE /\ refreshing = FALSE
  /\ calls = {Call("load", NoCursor, 0)}
  /\ removing = {} /\ orderly = TRUE
  /\ steady = {i \in Item : status[i] = "ready"}

-----------------------------------------------------------------------------
\* The button is there while there is more; nothing disables it meanwhile.
ShowMore(n) ==
  /\ hasMore /\ shown # <<>>
  /\ n \notin {c.n : c \in InFlight("more")} /\ Len(shown) < MaxShown
  /\ calls' = calls \cup {Call("more", cursor, n)}
  /\ UNCHANGED <<status, view, refreshing, removing, history>>

\* refreshGallery, from the interval or after an upload: never twice at once.
Refresh ==
  /\ ~refreshing /\ refreshing' = TRUE
  /\ calls' = calls \cup {Call("refresh", NoCursor, 0)}
  /\ UNCHANGED <<status, view, removing, history>>

Answer(c) ==
  /\ ~c.answered
  /\ calls' = (calls \ {c}) \cup {[c EXCEPT !.from = NoCursor, !.answered = TRUE,
                                         !.page = Page(c.from)]}
  /\ UNCHANGED <<status, view, refreshing, removing, history>>

\* The finally of refreshGallery.
Settled(c) == refreshing' = IF c.kind = "refresh" THEN FALSE ELSE refreshing

\* The items shown behind the first page.
Behind == SubSeq(shown, PageSize + 1, Len(shown))

\* The list s without the items of S, the others in their order.
\* (The provers have no SelectSeq.)
Without(s, S) ==
  LET kept == {k \in DOMAIN s : s[k] \notin S}
  IN  [k \in 1..Cardinality(kept) |-> s[CHOOSE i \in kept : Cardinality({j \in kept : j <= i}) = k]]

\* Mutant of Merged: the whole list is kept behind the new first page.
Merged_KeepAll(items) ==
  items \o Without(shown, ToSet(items))

\* The new first page replaces as many items as a page has.
Merged(items) ==
  IF Len(shown) <= PageSize THEN items
  ELSE items \o Without(Behind, ToSet(items))

\* An answer meets a list it was not made for: a refresh, when the list has
\* grown past the first page or is about to, that brings items the list does
\* not have or reaches past one that is deleted further down; a further page
\* when another one was asked for from the same place, or when the list was
\* loaded anew.
Disorderly(c) ==
  CASE c.kind = "refresh" ->
         /\ pastFirst \/ Len(shown) > PageSize \/ InFlight("more") # {}
         /\ \/ ~(ToSet(c.page.items) \subseteq ToSet(shown))
            \/ \E i \in ToSet(Behind) \ ToSet(c.page.items), j \in ToSet(c.page.items) : i > j
    [] c.kind = "load" -> InFlight("more") # {}
    [] OTHER -> InFlight("more") # {c}

Apply(c) ==
  /\ c.answered
  /\ calls' = calls \ {c}
  /\ Settled(c)
  /\ orderly' = (orderly /\ ~Disorderly(c))
  /\ steady' = IF Disorderly(c) THEN {} ELSE steady
  /\ CASE c.kind = "load" ->
            shown' = c.page.items /\ pastFirst' = FALSE /\ cursor' = c.page.next /\ hasMore' = c.page.more
       [] c.kind = "more" ->
            shown' = shown \o c.page.items /\ pastFirst' = TRUE /\ cursor' = c.page.next /\ hasMore' = c.page.more
       [] OTHER ->
            /\ shown' = Merged(c.page.items)
            /\ UNCHANGED pastFirst
            /\ IF pastFirst THEN UNCHANGED <<cursor, hasMore>>
               ELSE cursor' = c.page.next /\ hasMore' = c.page.more
  /\ UNCHANGED <<status, removing>>

\* The call fails or is refused.  The gallery is only read, so a lost answer is
\* no different.
Fails(c) ==
  /\ ~c.answered
  /\ calls' = calls \ {c}
  /\ Settled(c)
  /\ UNCHANGED <<status, view, removing, history>>

\* deleteItem: the server deletes, and when it has answered the item is taken
\* out of what is shown by then.
DeleteItem(i) ==
  /\ i \in ToSet(shown) /\ Leave(i)
  /\ removing = {}  \* bound: one at a time
  /\ removing' = {i}
  /\ steady' = steady \ {i}
  /\ UNCHANGED <<view, refreshing, calls, orderly>>

Filter(i) ==
  /\ i \in removing /\ removing' = removing \ {i}
  /\ shown' = Without(shown, {i})
  /\ UNCHANGED <<status, cursor, hasMore, pastFirst, refreshing, calls, history>>

\* What the other members do.
Others ==
  /\ \E i \in Item : Enter(i) \/ Leave(i)
  /\ steady' = {i \in steady : status'[i] = "ready"}
  /\ UNCHANGED <<view, refreshing, calls, removing, orderly>>

PageNext ==
  \/ Others \/ Refresh
  \/ \E n \in 1..Clicks : ShowMore(n)
  \/ \E i \in Item : DeleteItem(i) \/ Filter(i)
  \/ \E c \in calls : Answer(c) \/ Apply(c) \/ Fails(c)

\* The interval goes on while the page is visible and an answer that arrives
\* is applied; of ever so many refreshes, some are answered.  Nobody has to
\* click, and the first load may never end.
RefreshRuns   == Refresh \/ \E c \in InFlight("refresh") : Apply(c)
RefreshServed == \E c \in InFlight("refresh") : Answer(c)

PageSpec ==
  /\ PageInit /\ [][PageNext]_pageVars
  /\ WF_pageVars(RefreshRuns) /\ SF_pageVars(RefreshServed)

-----------------------------------------------------------------------------
\* Walking the gallery shows every item once, newest first, and at its end
\* misses none that was there all along, whatever enters and leaves meanwhile
\* and however many clicks fail, as long as no answer met a list it was not
\* made for (Gallery, loadGallery, refreshGallery).
WalkComplete ==
  orderly =>
    /\ \A k \in 1..Len(shown), l \in 1..Len(shown) : k < l => shown[k] > shown[l]
    /\ shown # <<>> => \A i \in steady : i \in ToSet(shown) \/ (hasMore /\ i < cursor)

FirstPage == SubSeq(shown, 1, IF PageSize < Len(shown) THEN PageSize ELSE Len(shown))

\* What is new appears by itself and what others deleted goes, at least from
\* the top of the list: whatever overlapped, once the gallery stays as it is
\* the list begins as the server's does (refreshGallery).
FirstPageFresh == <>[](FirstPage = Page(NoCursor).items)
=============================================================================
