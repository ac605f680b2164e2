--------------------------- MODULE MCUploadSystem ---------------------------
(* UploadSystem on small instances.                                        *)
EXTENDS UploadSystem, TLC

ExpiryThree == [r \in Room |-> 3]
ExpiryTwo   == [r \in Room |-> 2]
ExpiryOne   == [r \in Room |-> 1]

\* Bounds: one transfer at a time, none for an upload that ended; no answer
\* reaches a client.  Nothing the tables are written from is lost: they never
\* depend on an object of an ended upload, and told is read by properties only.
OneTransfer == Cardinality(inflight) <= 1 /\ \A t \in inflight : Open(t[1])
Unheard     == told = {}

Interchangeable == Permutations(Media) \cup Permutations(Key) \cup Permutations(Req)
                   \cup Permutations(Worker) \cup Permutations(Thumbnailer)
=============================================================================
