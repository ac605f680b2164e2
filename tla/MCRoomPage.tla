------------------------------ MODULE MCRoomPage ------------------------------
(* The room's page on small instances.  Its gallery, its upload queue and    *)
(* the transfer of one large file share little: the queue calls              *)
(* refreshGallery, which RoomPage allows at any moment, and goes on when the *)
(* transfer ends, well or not, which UploadQueue leaves open.  So each is    *)
(* explored while the others rest, over an empty gallery.                    *)
EXTENDS RoomPage, UploadQueue, PartTransfer

VARIABLE half  \* the one that goes on

allVars == <<half, pageVars, queueVars, transferVars>>

WholePageNext ==
  \/ half = "gallery" /\ PageNext /\ UNCHANGED <<half, queueVars, transferVars>>
  \/ half = "queue" /\ QueueNext /\ UNCHANGED <<half, pageVars, transferVars>>
  \/ half = "transfer" /\ TransferNext /\ UNCHANGED <<half, pageVars, queueVars>>

WholePageInit ==
  /\ PageInit /\ QueueInit /\ TransferInit
  /\ half \in {"gallery", "queue", "transfer"}
  /\ half # "gallery" => \A i \in Item : status[i] # "ready"

\* The fairness of PageSpec, QueueSpec and TransferSpec, of the part that goes on.
WholePageSpec ==
  /\ WholePageInit
  /\ [][WholePageNext]_allVars
  /\ WF_pageVars(half = "gallery" /\ RefreshRuns) /\ SF_pageVars(half = "gallery" /\ RefreshServed)
  /\ WF_queueVars(half = "queue" /\ QueueRuns)
  /\ WF_transferVars(half = "transfer" /\ ClientGoesOn)

\* Each part of the page has its type; and no controller outlives its try
\* (RoomPage of App.tsx, uploadFile).
RoomPageTypeOK == PageTypeOK /\ QueueTypeOK /\ PartsTypeOK

\* Every file that was picked is through in the end, and every transfer over,
\* whatever fails, is cancelled, lost or repeated (acceptFiles, uploadFile).
WorkEnds == QueueRests /\ TransferEnds
===============================================================================
