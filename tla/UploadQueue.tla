----------------------------- MODULE UploadQueue -----------------------------
(***************************************************************************)
(* The upload queue of App.tsx and uploadFile of upload.ts: files are      *)
(* uploaded two at a time; one that is under way can be cancelled, one     *)
(* that failed can be tried again, each time as a new upload with an       *)
(* AbortController of its own.  A cancelled or failed try still gives its  *)
(* upload back before it is over.                                          *)
(***************************************************************************)
EXTENDS Naturals, FiniteSets

CONSTANTS
  Files,    \* how many files are picked at most, in the order of their numbers
  Lanes,    \* uploads of one batch at once: 2
  Retries,  \* bound: how often one file is tried again
  NoTry

File == 1..Files
Try  == 0..Retries

ASSUME QueueBounds == Files \in Nat /\ Lanes \in Nat \ {0} /\ Retries \in Nat /\ NoTry \notin Nat

VARIABLES
  batch,       \* the batch a file was picked in, named by its first file; 0: not yet
  item,        \* uploads: what the queue shows of a file, absent when it does not
  kept,        \* uploadFilesRef
  controller,  \* uploadControllersRef: the try whose controller it holds
  cancelled,   \* the tries under way whose controller was aborted
  try,         \* how far processUpload is with each try of a file
  upload,      \* the server's upload of each try
  unsure,      \* history: files of which an answer was lost or not waited for
  hasty        \* history: files tried again before the last try was over

hindsight == <<unsure, hasty>>
queueVars == <<batch, item, kept, controller, cancelled, try, upload, hindsight>>

UnderWay(f) == {n \in Try : try[f][n] \notin {"off", "over"}}
Stored(f)   == {n \in Try : upload[f][n] = "ready"}

\* No controller outlives its try: what "cancel" reaches is under way.
QueueTypeOK ==
  /\ batch \in [File -> 0..Files]
  /\ item \in [File -> {"absent", "queued", "uploading", "done", "error"}]
  /\ kept \subseteq File /\ controller \in [File -> Try \cup {NoTry}]
  /\ cancelled \subseteq File \X Try
  /\ try \in [File -> [Try -> {"off", "initiate", "put", "complete", "abort", "over"}]]
  /\ upload \in [File -> [Try -> {"none", "open", "ready", "aborted"}]]
  /\ unsure \subseteq File /\ hasty \subseteq File
  /\ \A f \in File \ hasty : controller[f] # NoTry => item[f] = "queued" \/ controller[f] \in UnderWay(f)

QueueInit ==
  /\ batch = [f \in File |-> 0] /\ item = [f \in File |-> "absent"]
  /\ kept = {} /\ controller = [f \in File |-> NoTry] /\ cancelled = {}
  /\ try = [f \in File |-> [n \in Try |-> "off"]]
  /\ upload = [f \in File |-> [n \in Try |-> "none"]]
  /\ unsure = {} /\ hasty = {}

-----------------------------------------------------------------------------
(* The queue                                                               *)

WithoutDone(f) == IF item[f] = "done" THEN "absent" ELSE item[f]

\* acceptFiles, while an earlier batch may still be going on.
Accept(first, last) ==
  /\ first <= last /\ \A f \in File : batch[f] = 0 <=> f >= first
  /\ batch' = [f \in File |-> IF f \in first..last THEN first ELSE batch[f]]
  /\ item' = [f \in File |-> IF f \in first..last THEN "queued" ELSE WithoutDone(f)]
  /\ kept' = kept \cup (first..last)
  /\ controller' = [f \in File |-> IF f \in first..last THEN 0 ELSE controller[f]]
  /\ UNCHANGED <<cancelled, try, upload, hindsight>>

Batch(f) == {g \in File : batch[g] = batch[f]}

\* Mutant of LaneFree: a lane ends with a try that fails.
LaneFree_EndsOnError(f) ==
  Cardinality({g \in Batch(f) : try[g][0] # "off" /\ item[g] \notin {"done", "absent"}}) < Lanes

\* A worker of the batch that awaits no processUpload.
LaneFree(f) == Cardinality({g \in Batch(f) : try[g][0] \notin {"off", "over"}}) < Lanes

Move(f, n, to) == try' = [try EXCEPT ![f][n] = to]

\* processUpload of the next file of the batch, up to its first await.  The
\* map holds its controller, and nothing can have cancelled it yet.
StartNext(f) ==
  /\ batch[f] # 0 /\ try[f][0] = "off"
  /\ \A g \in Batch(f) : g < f => try[g][0] # "off"
  /\ LaneFree(f)
  /\ item' = [item EXCEPT ![f] = "uploading"]
  /\ Move(f, 0, "initiate")
  /\ UNCHANGED <<batch, kept, controller, cancelled, upload, hindsight>>

\* cancelUpload: the item is shown as failed at once, and can be tried again.
Cancel(f) ==
  /\ item[f] = "uploading"
  /\ cancelled' = cancelled \cup {<<f, n>> : n \in {controller[f]} \ {NoTry}}
  /\ item' = [item EXCEPT ![f] = "error"]
  /\ UNCHANGED <<batch, kept, controller, try, upload, hindsight>>

\* retryUpload, and processUpload up to its first await.
Retry(f, n) ==
  /\ item[f] = "error" /\ f \in kept
  /\ try[f][n] = "off" /\ \A m \in Try : m < n => try[f][m] # "off"
  /\ controller' = [controller EXCEPT ![f] = n]
  /\ item' = [item EXCEPT ![f] = "uploading"]
  /\ Move(f, n, "initiate")
  /\ hasty' = IF UnderWay(f) # {} THEN hasty \cup {f} ELSE hasty
  /\ UNCHANGED <<batch, kept, cancelled, upload, unsure>>

\* The timer, four seconds after a batch.
ClearDone ==
  /\ \E f \in File : batch[f] # 0 /\ \A g \in Batch(f) : try[g][0] = "over"
  /\ item' = [f \in File |-> WithoutDone(f)]
  /\ UNCHANGED <<batch, kept, controller, cancelled, try, upload, hindsight>>

-----------------------------------------------------------------------------
(* The end of processUpload                                                *)

\* setUploads changes an item the list still has.
Shows(f, state) == item' = IF item[f] = "absent" THEN item ELSE [item EXCEPT ![f] = state]

Over(f, n) == Move(f, n, "over") /\ cancelled' = cancelled \ {<<f, n>>}

\* Mutant of Done: the controller stays in the map.
Done_KeepsController(f, n) ==
  /\ Shows(f, "done") /\ kept' = kept \ {f}
  /\ Over(f, n)
  /\ UNCHANGED <<batch, controller>>

Done(f, n) ==
  /\ Shows(f, "done") /\ kept' = kept \ {f}
  /\ controller' = [controller EXCEPT ![f] = NoTry]
  /\ Over(f, n)
  /\ UNCHANGED batch

\* The catch: it writes to whatever the map and the list hold by then, also
\* if that is of a later try.
Undone(f, n) ==
  /\ Shows(f, "error")
  /\ controller' = [controller EXCEPT ![f] = NoTry]
  /\ Over(f, n)
  /\ UNCHANGED <<batch, kept>>

-----------------------------------------------------------------------------
(* uploadFile                                                              *)

Goes(f, n) == <<f, n>> \notin cancelled
Rests      == UNCHANGED <<batch, item, kept, controller, cancelled, hindsight>>

\* media.initiate.  A failure leaves uploadFile at once: there is no id to
\* abort.  A request the page gives up is served or not; it makes no
\* difference when, as an abort served first has it refused.
Initiated(f, n) ==
  /\ try[f][n] = "initiate" /\ Goes(f, n)
  /\ upload' = [upload EXCEPT ![f][n] = "open"]
  /\ Move(f, n, "put")
  /\ Rests

NotInitiated(f, n) ==
  /\ try[f][n] = "initiate"
  /\ Undone(f, n)
  /\ \/ UNCHANGED <<upload, unsure>>
     \/ upload' = [upload EXCEPT ![f][n] = "open"] /\ unsure' = unsure \cup {f}
  /\ UNCHANGED hasty

\* put, or the part URLs and the put of each part, at most three times each;
\* and the request to complete is sent.
PutDone(f, n) ==
  /\ try[f][n] = "put" /\ Goes(f, n)
  /\ Move(f, n, "complete")
  /\ UNCHANGED upload /\ Rests

PutFailed(f, n) ==
  /\ try[f][n] = "put"
  /\ Move(f, n, "abort")
  /\ UNCHANGED upload /\ Rests

Complete(f, n) == upload' = IF upload[f][n] = "open" THEN [upload EXCEPT ![f][n] = "ready"] ELSE upload

Completed(f, n) ==
  /\ try[f][n] = "complete" /\ Goes(f, n)
  /\ upload[f][n] = "open" /\ Complete(f, n)
  /\ Done(f, n)
  /\ UNCHANGED hindsight

\* Refused, or given up and served nevertheless.
NotCompleted(f, n) ==
  /\ try[f][n] = "complete"
  /\ Move(f, n, "abort")
  /\ \/ UNCHANGED <<upload, unsure>>
     \/ Complete(f, n) /\ unsure' = unsure \cup {f}
  /\ UNCHANGED <<batch, item, kept, controller, cancelled, hasty>>

\* Mutants of Aborted: the request to abort goes by the signal of the upload,
\* or the catch of uploadFile does not throw again.
Aborted_Signalled(f, n) ==
  /\ try[f][n] = "abort"
  /\ upload' = IF upload[f][n] = "open" /\ Goes(f, n) THEN [upload EXCEPT ![f][n] = "aborted"] ELSE upload
  /\ Undone(f, n)
  /\ UNCHANGED hindsight

Aborted_Swallows(f, n) ==
  /\ try[f][n] = "abort"
  /\ upload' = IF upload[f][n] = "open" THEN [upload EXCEPT ![f][n] = "aborted"] ELSE upload
  /\ Done(f, n)
  /\ UNCHANGED hindsight

\* media.abort, which no signal stops; of a ready upload it is refused.  The
\* answer is not looked at.
Aborted(f, n) ==
  /\ try[f][n] = "abort"
  /\ upload' = IF upload[f][n] = "open" THEN [upload EXCEPT ![f][n] = "aborted"] ELSE upload
  /\ Undone(f, n)
  /\ UNCHANGED hindsight

NotAborted(f, n) ==
  /\ try[f][n] = "abort"
  /\ Undone(f, n)
  /\ unsure' = unsure \cup {f}
  /\ UNCHANGED <<upload, hasty>>

-----------------------------------------------------------------------------
TryStep(f, n) ==
  \/ Initiated(f, n) \/ NotInitiated(f, n) \/ PutDone(f, n) \/ PutFailed(f, n)
  \/ Completed(f, n) \/ NotCompleted(f, n) \/ Aborted(f, n) \/ NotAborted(f, n)

QueueNext ==
  \/ \E first, last \in File : Accept(first, last)
  \/ ClearDone
  \/ \E f \in File :
       \/ StartNext(f) \/ Cancel(f)
       \/ \E n \in Try : Retry(f, n) \/ TryStep(f, n)

\* Some await ends, with an answer or an error, or a free lane goes on: as
\* long as there is one, time does not stop.  Nobody has to click.
QueueRuns == \E f \in File : StartNext(f) \/ \E n \in Try : TryStep(f, n)

QueueSpec == QueueInit /\ [][QueueNext]_queueVars /\ WF_queueVars(QueueRuns)

-----------------------------------------------------------------------------
\* The queue says of a file what the server has of it, however often it was
\* cancelled and tried again: "done" is stored; a file that failed for good is
\* not and can be tried again, so it ends up in the gallery once, if every
\* answer came and no try was begun before the last one was over
\* (processUpload, uploadFile).
ShownIsTrue == \A f \in File :
  /\ item[f] = "done" => Stored(f) # {}
  /\ f \notin unsure \cup hasty =>
       /\ Cardinality(Stored(f)) <= 1
       /\ item[f] = "error" => f \in kept /\ (UnderWay(f) = {} => Stored(f) = {})

\* Once its tries are over no upload of a file stays open and holds its
\* reservation, cancelled or failed wherever it was, if every answer came
\* (uploadFile).
NothingLeftOpen == \A f \in File \ unsure :
  UnderWay(f) = {} => \A n \in Try : upload[f][n] # "open"

\* Every file picked is uploaded or said to have failed, whichever of the files
\* before it failed or were cancelled: when nobody clicks any more the queue
\* comes to rest (acceptFiles).
QueueRests == <>[](\A f \in File : item[f] \notin {"queued", "uploading"})
=============================================================================
