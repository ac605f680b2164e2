------------------------------ MODULE MCRooms ------------------------------
(* Rooms on small instances.                                               *)
EXTENDS Rooms, TLC

Alike == Permutations(Room) \cup Permutations(Person) \cup Permutations(Slug)
         \cup Permutations(Key) \cup Permutations(Secret) \cup Permutations(Req)
=============================================================================
