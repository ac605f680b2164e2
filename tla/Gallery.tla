------------------------------- MODULE Gallery -------------------------------
(***************************************************************************)
(* media/gallery.go: what a room's gallery answers.  Items are numbered in *)
(* the order of their rows (created_at, id); they become ready in any      *)
(* order, as their uploads complete, and leave when somebody deletes them. *)
(***************************************************************************)
EXTENDS Naturals, FiniteSetsExt, SequencesExt

CONSTANTS
  Items,    \* bound: how many items the room ever has
  PageSize  \* limit, which the room page leaves at its default

Item == 1..Items

ASSUME GalleryBounds == Items \in Nat /\ PageSize \in Nat \ {0}

VARIABLE status  \* media.status, as far as the gallery tells it

\* The newest n of a set of items, newest first: the k-th has k that are as new.
\* (The provers have no SetToSortSeq.)
Newest(S, n) ==
  LET all == Cardinality(S)
  IN  [k \in 1..(IF n < all THEN n ELSE all) |->
         CHOOSE i \in S : Cardinality({j \in S : j >= i}) = k]

\* No cursor: the first page, or no further one.
NoCursor == 0

Listed(cursor) == {i \in Item : status[i] = "ready" /\ (cursor = NoCursor \/ i < cursor)}

\* Mutant of Page: the page after the first one starts at the cursor.
Page_AtCursor(cursor) ==
  LET found == Newest({i \in Item : status[i] = "ready" /\ (cursor = NoCursor \/ i <= cursor)}, PageSize + 1)
      more  == Len(found) > PageSize
      items == IF more THEN Front(found) ELSE found
  IN  [items |-> items, next |-> IF more THEN Last(items) ELSE NoCursor, more |-> more]

\* One row more than the limit is read, to know whether there is another page.
Page(cursor) ==
  LET found == Newest(Listed(cursor), PageSize + 1)
      more  == Len(found) > PageSize
      items == IF more THEN Front(found) ELSE found
  IN  [items |-> items, next |-> IF more THEN Last(items) ELSE NoCursor, more |-> more]

GalleryInit == status \in [Item -> {"pending", "ready"}]

\* Complete: the item is ready, before or after items newer than it.
Enter(i) ==
  /\ status[i] = "pending"
  /\ status' = [status EXCEPT ![i] = "ready"]

\* Delete, by anyone who may: the row stays, its status takes it off the list.
Leave(i) ==
  /\ status[i] = "ready"
  /\ status' = [status EXCEPT ![i] = "deleted"]
=============================================================================
