# Zhyvo: formal models of uploads, rooms and sessions

Zhyvo (repository name: photodrop) lets a group share photos in a *room* that
lives one to three days. This directory holds TLA+ modules translated from the
source, the TLC runs that check them and the TLAPS proofs about them.

## 1. Inventory

Three Go processes share one PostgreSQL database and one S3 bucket (MinIO or
R2); browsers talk to the API and send file bytes straight to the bucket.

| component | state it keeps | operations | talks to |
|---|---|---|---|
| tables (`migrations/`) | `rooms` with four counters, `media`, `upload_sessions`, `room_members`, `identities`, `sessions` | transactions and single statements of the others | - |
| row locks of those transactions | rows locked until commit or rollback | lock in a fixed order, `SKIP LOCKED`, cascade, deadlock victim | tables |
| bucket (`internal/objectstore`) | objects, open multipart uploads and their parts | presign, stat, remove, remove prefix, start/complete/abort multipart | clients, through presigned URLs |
| upload and media service (`internal/media`) | none between requests | Initiate, PartURLs, Complete, Abort, Delete, Gallery, Download | tables, bucket |
| room service (`internal/room`) | none | Create, Join, Get, List, Members, Update, Delete | tables |
| auth (`internal/auth`, `httpapi/auth_middleware.go`) | `sessions`: one refresh-token hash per row | CreateAnonymous, CreateTelegram, Refresh, Revoke, SessionIsActive | tables |
| cleanup worker (`internal/cleanup`) | none across batches | expire uploads, remove rooms | tables, bucket |
| thumbnail worker (`internal/thumbnail`) | `media.thumbnail_*` is its queue | claim, render, put, link, mark failed | tables, bucket, ffmpeg |
| rate limiter (`httpapi/rate_limit.go`) | a bucket of tokens per visitor, in memory | allow | - |
| session of the web client (`frontend/src/lib/api.ts`) | localStorage, a copy per tab | call, refresh, login, revoke | API |
| gallery of the room page (`frontend/src/App.tsx`) | the list shown, its cursor | load, show more, refresh, delete | API |
| upload queue of the room page (`App.tsx`, `lib/upload.ts`) | items, files, AbortControllers | accept, start, cancel, retry; initiate, put, complete, abort | API, bucket, gallery |
| transfer of a large file (`lib/upload.ts`, PartURLs, the bucket's parts) | parts sent, their URLs and ETags | ask for a batch of URLs, put, repeat, complete | API, bucket |

**Hard behaviours.**

- There is no transaction across PostgreSQL and S3. Every upload operation reads
  a row, talks to the bucket and then commits on the strength of what it read;
  Complete, Abort, Delete and two workers interleave between these steps.
- Answers get lost and are asked for again; a PUT is authorised by time, not by
  state, and may be stored late; workers crash between a claim and its effect;
  claims of thumbnail jobs time out while the job runs.
- Transactions lock session, media, room in this order, but for two: the expiry
  locks the room before the media, and `DELETE FROM rooms` cascades downwards.
- The tabs of a browser share a stored session and exchange its refresh token
  against each other; the calls of one tab share one refresh.
- Codes of rooms are drawn again while requests that looked a room up by its code
  are still running.
- The rate limiter reads the clock before it takes its mutex, and forgets idle
  visitors.
- The gallery's cursor is an item that may be deleted, items become ready behind
  it, and its loads, refreshes and clicks overlap and are answered in any order.
- An upload can be cancelled and tried again before its first try has ended, and
  the end of the first writes to what the second uses.
- A large file goes in parts whose URLs are signed in batches and expire together;
  a put that was given up is repeated and may still be stored at any time.

`PROJECT.json` lists each of these under "hazards", at its line.

**What makes it correct.** The counters of a room are what its rows say and
never exceed its limits. The rows of an upload agree and its end is final. What
a client was told stays true. No URL outlives its session and no session its
room. A ready media has its bytes, a thumbnail that is offered exists. Abandoned
uploads and dead rooms go away in the end, objects included. Transactions do not
wait for each other in a ring unless a room is dropped, and all end. A refresh
token is exchanged once, an ended session stays ended, and a browser is left
with the token of its live session. A room has one owner, one key that made it
and one code, is deleted by its owner only before it is due, and its members
passed its own check. A visitor's rate is bounded whatever the limiter forgets.
Walking the gallery shows each item once; its top becomes the server's. The
queue says of a file what the server has of it, and leaves no upload open. The
parts of a large file join to that file, and its transfer ends.

## 2. Modules

| module | models | state | actions |
|---|---|---|---|
| `Tables` | rows of rooms, media and upload_sessions | one function per column, and the clock | shared writes (`ReleaseReservation`) |
| `Storage` | the bucket, presigned URLs, client PUTs | `object`, `thumb`, `multipart`, `parts`, `urlUntil`, `inflight` | `PutStart`, `PutLand`, `PutLost`; the bucket's operations as formulas |
| `MediaService` | `internal/media` | `req[q]`: the request's next step and its locals | one action per transaction, bucket call or read |
| `RoomOwner` | Update and Delete of `internal/room` | - (`cut` is a history variable) | `UpdateRoom`, `DeleteRoom` |
| `CleanupWorker` | `internal/cleanup` | `worker[w]`: its place in the batch | one action per claim, bucket call, delete; `BreakOff` for errors and crashes |
| `ThumbnailWorker` | `internal/thumbnail` | `thumbnailer[t]`: its place in the job; `mislaid` is a history variable | claim, render, put, link, undo, mark failed; `DropJob` for crashes |
| `UploadSystem` | all of them over one database, bucket and clock | - | `Tick` and the steps above |
| `UploadLedger` | what uploads promise a room, without counters, requests or bucket | `live`, `state`, `place`, `bytes`, `asked` | `Reserve`, `Keep`, `Release`, `Erase` |
| `Locks` | the row locks of every transaction above | `job`, `todo`, `holder`; `upload`, `room` as far as a lock's outcome depends on them | begin, `Take` a row, `Commit`, `Fail`, `BreakDeadlock` |
| `Sessions` | `internal/auth/service.go`, the authentication middleware | rows of `sessions`; `lineage` (which token was exchanged for which) is a history variable | `Create`, `Rotate`, `Revoke`; `Admits` |
| `Browser` | `frontend/src/lib/api.ts` and the login of `telegram.ts`, against `Sessions` | localStorage, each tab's session, its calls and its refresh; `calm` is a history variable | one action per send, answer, refusal, login, refresh and loss |
| `Rooms` | Create, Join, Update, Delete of `internal/room/service.go` with members, codes and idempotency keys | rows of `rooms`, `room_members`, `room_creation_requests`; `op[q]`: a request between two statements; `admitted` is a history variable | one action per transaction or statement, and the cleanup worker's claim and delete |
| `TokenBucket` | what a limiter promises a visitor | `level`, `answer`, `clock` | `Refill`, `Admit`, `Refuse`, `Forget` |
| `RateLimiter` | `httpapi/rate_limit.go` over `rate.Limiter` | the map of visitors, their buckets, requests before the mutex | `Arrive`, `Decide`, `Respond`, `Tick` |
| `Gallery` | the page query of `media/gallery.go` | `status` of each item | `Enter`, `Leave`; `Page` |
| `RoomPage` | the gallery of `App.tsx` against `Gallery` | the list, its cursor, calls under way; `orderly` and `steady` are history variables | `ShowMore`, `Refresh`, `Answer`, `Apply`, `Fails`, `DeleteItem`, `Filter`, `Others` |
| `UploadQueue` | the upload queue of `App.tsx` and `uploadFile` of `upload.ts` | items, files, controllers, tries and the server's upload of each; `unsure` and `hasty` are history variables | `Accept`, `StartNext`, `Cancel`, `Retry`, `ClearDone`, one action per await of a try |
| `PartTransfer` | `uploadMultipart` and `put` of `upload.ts`, PartURLs and the check of the parts in Complete, the bucket's parts | the file's size, the batch of URLs, the parts sent and stored, puts that may still land; `refused` is a history variable | `Begin`, `AskURLs`, `PutHeard`, `PutUnheard`, `Land`, `CompleteParts`, `GiveUp`, `Abort`, `Wait` |
| `MCUploadSystem`, `MCBrowser`, `MCRooms`, `MCRateLimiter`, `MCRoomPage`, `MCLocks` | constants, bounds, symmetry and (`MCRoomPage`) the composition for TLC | | |
| `UploadSystem_types` | proofs: type correctness, thumbnail columns | | |
| `UploadSystem_moves` | proofs: what a step does to the rows; rows, ends, answers, leases, multipart objects; under `Prompt` jobs, thumbnails and what a room leaves | | |
| `UploadSystem_accounts` | proofs: counters, limits and the refinement of `UploadLedger` | | |
| `Browser_proofs`, `Rooms_proofs`, `RateLimiter_proofs`, `Locks_proofs` | proofs about these modules | | |
| `RoomPage_proofs` | proofs about `PartTransfer`, `UploadQueue`, `RoomPage` with `Gallery`, and their composition | | |

`UploadSystem` composes the first six. `Browser` composes `Sessions` with the
clients, `RoomPage` the page with `Gallery`. `Rooms` stands beside
`UploadSystem`: they share a room's life (active, deleting, gone), which both
have in full, and nothing else; the rooms of `UploadSystem` exist from the start,
with `RoomOwner` for what an owner may do. `Locks` looks into what is one action
elsewhere: there a transaction takes its rows at once, here one after another.
The queue and the gallery of the page share one call, `refreshGallery`, which
`RoomPage` allows at any moment; the queue's server is one upload at a time as
`MediaService` has it, seen through its answers. `PartTransfer` is inside what
`UploadQueue` takes as one await (`PutDone`, `PutFailed`), and what `Storage` counts
in bytes: which bytes, in which parts, under which numbers.

**How actions correspond to code.** A transaction is one action: each of the
code's multi-statement transactions first locks the rows it will write, so no
other transaction sees or changes them half-way (`Locks` models how). A read
outside a transaction, a bucket call and a commit are separate actions, and
anything may happen between them. A handler's error returns, a cancelled context
and a crash of the process are the same to the shared state: the request stops
where it is (`GiveUp`, `BreakOff`, `DropJob`). An error may hide that a statement was
committed: for most that is the statement followed by such a stop, but the thumbnail
worker acts on the error, and `LinkFails` has both outcomes. A media row and its session are
created together and `media_id` is unique, so both are indexed by the media's id;
a deleted row has the status "gone", an id not yet drawn "none".

In `Sessions` each of the service's transactions locks the one row it writes, and
is one action. In the browser a tab runs one callback at a time, so what runs
between two awaits is one action and a message is on its way between two of
them. A refresh that the rate limiter refuses, that meets a 500 or that loses its
answer after the commit has actions of its own. In `Rooms` Create and Update hold
what they read locked; Join and Delete do not, and are two actions each. In
`RateLimiter` `allow` is two actions, before and under the mutex. In `UploadQueue`
a request the page gives up (an aborted signal, a lost answer) was served or not,
and the file is `unsure` where the page cannot know which; the abort that
`uploadFile` sends in its catch carries no signal and is served or lost.
`controller ?? new AbortController` and the aborted return at `App.tsx` 648-650
are unreachable: the map holds a fresh controller whenever `processUpload`
begins. In `PartTransfer` an attempt at a part is heard (stored, with its ETag) or
not; if not, it was stored, will be at any later time, or never. An error that is
not repeated, the last attempt, an expired URL or session and a cancelled upload
all leave the loop by the catch of `uploadFile` (`GiveUp`).

**Abstractions.** A file is its size. The parts of a multipart upload are the
number of bytes they hold, and in `PartTransfer` the range of the file each has,
which is also its ETag; S3 rejects a part or a completion of an upload that
is not open (NoSuchUpload). Time is a counter; `now()` of PostgreSQL and
`time.Now()` of the processes are one clock. Members, names, MIME types,
passwords and request hashes are left out: they decide who may call an
operation, not what it does. `told` (answers that reached a client), `doomed`
(media whose deletion was authorised), `cut` (rooms their owner deleted) and
`mislaid` (media whose thumbnail key was committed by an UPDATE that returned an
error) are history variables. A refresh token is a number nobody drew before (32 random
bytes in the code); the row's hash of it is named by the token. An identity is
the kind its sessions carry. A secret of a room is a model value; its hash and
the room's mode are one column. The tokens of a rate limiter are counted in
ticks, a request costing `Interval` of them, so no fractions occur. An item of
the gallery is numbered in the order of (created_at, id), which is all the cursor
says. The files of the queue are numbered in the order they are picked. A row
lock is taken as exclusive: PostgreSQL's weaker modes wait less, so what never
happens with exclusive locks does not happen with them either. The foreign-key
lock that Join takes on its room is one of the statements of one row (`Brief`).

## 3. Runs

| run | module | question | bounds |
|---|---|---|---|
| `races` | `MCUploadSystem` | Do rows, answers and stored multipart objects agree under every interleaving of two requests with transfers, owner, worker and crashes? | 1 upload of 1-2 bytes (1: single, 2: multipart), 2 requests, 1 worker, clock 0..2, room expires at 2 |
| `capacity` | `MCUploadSystem` | Are counters exact and limits kept, and does the system implement `UploadLedger`, which has one reservation for a key however often it is asked? | 2 uploads of 1-2 bytes into 2 bytes, 1 request, 1 worker |
| `prompt` | `MCUploadSystem` | If nothing outlasts a tick, does an expired room leave nothing behind, is a job held by one worker only, is every thumbnail the gallery offers in the bucket (but for a commit whose answer was an error), do its columns agree, and are URLs and sessions cut short at the room's end? | 2 cleanup and 2 thumbnail workers, clock 0..4, room expires at 3, sessions and URLs last 2 |
| `liveness` | `MCUploadSystem` | Are due uploads always settled, also while their room lives, and dead rooms always removed? | 1 upload, lifetime 1, room expires at 2, 1 request, 1 worker |
| `browser` | `MCBrowser` | Is a token exchanged once, does an ended session stay ended, does every waiting call have a refresh that runs, is the browser left with the token of its live session, and does no tab drop it? With logins, losses, errors and closed tabs | 2 sessions, 2 tabs with 2 calls, of all at most 2 under way (`TwoCalls`), 4 refresh tokens (`FourTokens`), clock 0..2, access tokens last 1 |
| `rooms` | `MCRooms` | One owner, one code and one key per room, members admitted to that room, deleted by its owner only? | 2 rooms, people, codes, secrets and concurrent requests, 1 key, clock 0..1 |
| `rate_limit` | `MCRateLimiter` | Is each visitor's rate bounded, and does the limiter implement `TokenBucket`, though it forgets visitors and decides late? | 2 visitors, 2 requests at once, 2 requests of 2 ticks in a bucket, ttl 5, a wait of 1, clock 0..7 |
| `room_page` | `MCRoomPage` | Does walking the gallery show all of it once, does its top become the server's, does the queue show what the server has, leave nothing open and come to rest? Do the parts of a large file join to that file, are client and server agreed on them, and does the transfer end? | 3 items, 1 to a page, 2 clicks under way; 2 files, 1 lane, 1 retry; a file of 3-9 bytes in parts of 2, 2 URLs and 2 attempts at most, clock 0..2, URLs last 1, the session 2 |
| `locks` | `MCLocks` | Do transactions wait in a ring only if a room is dropped, does the expiry never wait, and do all end? | 3 transactions, 2 uploads, 1 room, 1 key |
| `ready_without_object` | `MCUploadSystem` | README: the API checks the size, then marks ready | violated |
| `late_put` | `MCUploadSystem` | README: the worker deletes the room's media | violated |
| `open_multipart` | `MCUploadSystem` | README: the worker clears abandoned uploads | violated |

Each property of a passing run has a mutant, named after the definition it
replaces (`Fits_OffByOne`, `Stale_All`, ...), under which TLC finds it violated.

**Why the bounds are enough.** The races of one upload need at most two
requests at a time, a worker and the owner: two requests are the most that can
hold stale reads of one upload against each other, and every pair of operations
occurs. Sizes 1 and 2 on either side of the multipart threshold, with PUTs free
to send either, give every outcome of the size check. Two uploads that each fit
but not together reach the limit on bytes; the limit on files, which two uploads
never exceed here, is covered by `LimitsHold`. A clock of two ticks has a time
before a session expires, at its expiry and after it. In `capacity` one transfer
is under way at a time, none for an upload that ended, and no answer is recorded
(`OneTransfer`, `Unheard`): neither changes what the rows can become, and `races`
has both without the bounds.

Two tabs with two calls are the smallest browser where refreshes race between
tabs and are shared within one; two sessions are needed where one login replaces
another. Two rooms with two codes let a code pass from one room to the other
while a request still holds it, which is what Join and Delete could get wrong;
two people and two requests let those requests be of different people. Seven
ticks let the limiter's cleanup come round twice, with a visitor that is dropped,
comes back and is dropped again while another is not; two requests are what it
takes to be decided out of order.

Three items with one to a page have a first page, a page behind it and an item
that becomes ready or goes in between; two clicks ask for the same page twice. Two
files in one lane have one that waits for the other; one retry is what can meet
its first try. Five parts with two URLs at once make a second batch that begins after
the first's parts and a last batch that is not full; odd sizes make a last part
that is not full, and two attempts a put that is stored after its repetition. The
gallery, the queue and the transfer are explored one at a time (`MCRoomPage`), as
what they share is covered on either side. Larger instances of
both were checked with the modules as they are: 4 items with 2 to a page and one
click; 3 files in 2 lanes without retry, 1 file with 3 retries, and 2 files in 2
lanes with 1 retry.

Three transactions make rings of two and of three; two uploads in one room are
what the cascade takes in either order. Two rooms were checked with 2
transactions and 2 uploads, and with 3 transactions for the safety properties.

**Named bounds.** `MaxTime` stops the clock, `MaxMinute` that of `PartTransfer`.
`MaxAttempts`, `ClaimTimeout`, `UploadLifetime`, `PresignTTL`, `Threshold`,
`PartSize`, `URLBatch`, `PartsBatch`, `URLTime`, `SessionEnd`, `MaxFiles`,
`MaxBytes`, `Interval`, `Burst`, `TTL`, `PageSize` and `Lanes` are constants of
the code, made small. `MaxSize` bounds what a client declares or sends,
`MaxFile` the size of a large file, `Items`, `Clicks`, `MaxShown`, `Files` and
`Retries` what members and the user of the page do; one item is being deleted
through the page at a time (`DeleteItem`). Deadlock is checked in every run but
two: when both rooms of `rooms` are gone and the clock stands, or every file of
`room_page` is through or its transfer over, nothing is left to do
(`CHECK_DEADLOCK FALSE`).

`IdleBucketsFull` is what the code's four limiters fulfil: a bucket of 5, 10, 3
or 10 requests at 12, 30, 6 or 60 a minute is full again after 25, 20, 30 or 10
seconds, and a visitor is dropped after 15 minutes; so it holds as long as no
request waits more than 870 seconds for the mutex.

**Fairness.**

- `liveness`: the ticker of `cleanup.Run` keeps starting batches and a purge goes
  on (`WF`), and steps of a batch that are possible again and again are taken in
  the end although other runs of them fail or crash (`SF`): a retried removal
  does not fail for ever and the locks that make SKIP LOCKED pass over a row are
  not held at every single pass. Nothing is assumed of time, clients, the API or
  the owner. A removal that always fails keeps later rooms waiting
  (`cleanup/service.go` 160), which this assumption excludes.
- `room_page`: the page's interval goes on and an answer that arrived is applied
  (`WF` on `RefreshRuns`); of ever so many refreshes some are answered (`SF` on
  `RefreshServed`). In the queue some await always ends, with an answer or an error
  (`WF` on `QueueRuns`), and in the transfer too (`WF` on `ClientGoesOn`; a fetch the
  browser gives up fails, and the loop is bounded by its attempts). Nobody has to
  click, and no late put has to land.
- `locks`: a row that is free again and again is got (`SF` on `Take`), a
  transaction with all its locks ends, the call of Initiate to S3 included, and
  deadlocks are found (`WF`). No error is counted on.

**Prompt.** `prompt` checks statements (besides `LeaseChain` and
`ThumbColumnsAgree`) that are false without an assumption on durations
(`late_put` shows one): no transfer, request or thumbnail job lasts a clock tick,
where a tick is what remains between the last URL's expiry and the cleanup, or
ClaimTimeout. Two thumbnail workers on one job, which `prompt` thus excludes, are
covered for `ThumbColumnsAgree` by its theorem, which has no such assumption.

## 4. Findings

1. `ready_without_object`: Abort of a single upload removes the object before it
   takes the session lock, also between the Stat and the commit of a concurrent
   Complete. Complete answers ready, Abort answers "already completed", and the
   gallery shows a media whose download fails. Multipart uploads are safe
   (`MultipartReadyStored`): S3 refuses to abort a completed upload.
2. `late_put`: a PUT that began in time is stored after the prefix of the room
   was removed, and stays for ever.
3. `open_multipart`: deleting a room cascades to `upload_sessions`; multipart
   uploads still open are no objects, so RemovePrefix leaves their parts.

Worth knowing, although no document says otherwise: an UPDATE of the thumbnail
worker that is committed but answered by an error (a lost connection) makes it remove
the object its own row now names, and as the row has a key no copy claims it again
(`mislaid`); Complete repeated for a
completed upload answers "ready" from the session row, also after the media was
deleted; any answer to a refresh but a 2xx (429 and 500 included) makes the tab
drop its session and clear localStorage, where another tab may have just saved
its newer token; a refresh whose answer is lost leaves the client with a spent
token; a Telegram login revokes the session it replaces with an access token
that may be past its end, and then the session lives on; "show more" clicked twice
while its page is loading appends that page twice, and a refresh that brings new
items to a list grown past its first page drops the last ones of that page
(`WalkComplete` excludes both by `orderly`); a file tried again before its cancelled
try has ended is shown as failed by the catch of the first, which also takes the
second's controller away (`hasty`); a file whose Complete was answered but not
heard is shown as failed though it is in the gallery (`unsure`); the URLs of twenty
parts (320 MiB) are signed at once for 15 minutes, and a client that takes longer
gets a 403, which `put` does not repeat, so that the whole upload is given up; Complete, Abort or
Delete and the cascade of a dropped room can deadlock, and PostgreSQL fails one.

## 5. Proofs

Checked by TLAPS for every value of the constants, from the named assumptions
on them only: `FiniteRows`, `NullRoom`, `NullKey`, `Limits`, `StoreLimits`,
`NullMedia`, `Lifetime`, `Attempts`, `Clock` for the system; `Lifetimes` and
`BrowserBounds` for the browser (`NoGrant` is no grant); `RoomConstants` for rooms;
`LimiterConstants` and `IdleBucketsFull` for the limiter; `LocksAssumption` for
locks; `GalleryBounds`, `PageBounds`, `QueueBounds`, `PartConstants`, `BatchesFit` for
the page of a room. TLC evaluates all of them. `Prompt` is a constant too: the three
theorems that need it say `[](Prompt => ...)`, as the run `prompt` sets it.

| theorem | module | property |
|---|---|---|
| `TypeCorrect` | `UploadSystem_types` | `TypeOK` |
| `ThumbColumnsAlwaysAgree` | `UploadSystem_types` | `ThumbColumnsAgree` |
| `RowsAlwaysAgree` | `UploadSystem_moves` | `RowsAgree` |
| `EndsStayFinal` | `UploadSystem_moves` | `EndsAreFinal` |
| `AnswersStayTrue` | `UploadSystem_moves` | `AnswersAgree` |
| `LeasesHold` | `UploadSystem_moves` | `LeaseChain` |
| `MultipartStaysStored` | `UploadSystem_moves` | `MultipartReadyStored` |
| `CountersAlwaysExact` | `UploadSystem_accounts` | `CountersExact` |
| `LimitsHold` | `UploadSystem_accounts` | `WithinLimits` |
| `JobsStayDisjoint` | `UploadSystem_moves` | `ThumbJobsDisjoint`, under `Prompt` |
| `ThumbsStayStored` | `UploadSystem_moves` | `ThumbStored`, under `Prompt` |
| `ExpiredRoomsEndClean` | `UploadSystem_moves` | `ExpiredRoomClean`, under `Prompt` |
| `SystemKeepsPromise` | `UploadSystem_accounts` | `KeepsPromise` |
| `BrowserTyped` | `Browser_proofs` | `BrowserTypeOK` |
| `TokensSpentOnce` | `Browser_proofs` | `SpentOnce` |
| `EndedStaysFrozen` | `Browser_proofs` | `EndedIsFrozen` |
| `WaitersAreServed` | `Browser_proofs` | `WaitersServed` |
| `NoSessionOrphaned` | `Browser_proofs` | `NoOrphan` |
| `OnlyDeadLost` | `Browser_proofs` | `LosesOnlyDead` |
| `RoomsTyped` | `Rooms_proofs` | `RoomsTypeOK` |
| `RoomsHaveOneOwner` | `Rooms_proofs` | `OneOwner` |
| `KeysMakeOneRoom` | `Rooms_proofs` | `OneRoomPerKey` |
| `MembersWereAdmitted` | `Rooms_proofs` | `MembersAdmitted` |
| `OnlyOwnersDelete` | `Rooms_proofs` | `OwnersDelete` |
| `LimiterTyped` | `RateLimiter_proofs` | `LimiterTypeOK` |
| `LimiterBoundsRate` | `RateLimiter_proofs` | `RateBounded` |
| `LimiterIsBucket` | `RateLimiter_proofs` | `IsTokenBucket` |
| `LocksTyped` | `Locks_proofs` | `LocksTypeOK` |
| `ExpiryNeverWaits` | `Locks_proofs` | `ExpireNeverWaits` |
| `RingsHaveDrops` | `Locks_proofs` | `OnlyDropsDeadlock` |
| `PartsAlwaysAgree` | `RoomPage_proofs` | `PartsAgree` |
| `QueueLeavesNothing` | `RoomPage_proofs` | `NothingLeftOpen` |
| `QueueTellsTruth` | `RoomPage_proofs` | `ShownIsTrue` |
| `WalkIsComplete` | `RoomPage_proofs` | `WalkComplete` |
| `RoomPageTypes` | `RoomPage_proofs` | `RoomPageTypeOK` |
| `PageKeepsAll` | `RoomPage_proofs` | the four above, on the page as a whole |

**The argument for the system.** `TypeCorrect` is proved handler by handler; its
lemmas say what `Goto` and `Finish` leave of a request, and that a request keeps
the media it holds. Everything after it rests on `StepMoves`: each action does
one of seven things to the rows (`Accepted`, `Released`, `Kept`, `Deleted`,
`Hidden`, `Removed`, `Still`). The later proofs go over these seven moves and
not over the actions.

- `RowsAgree` is inductive once an upload with a row has a room and a positive
  size (`RowsInv`). Finality follows from it (`MoveFinal`), and an answer is true
  when it is given (`NewAnswers`) and then final.
- `LeaseChain` needs `LeaseInv`: a request works on an upload that has a row, so
  the expiry it read is the one that still holds, and the URL it hands out later
  was cut to it.
- `MultipartReadyStored` needs `StoredInv`. Once its parts are joined, a multipart
  upload is closed and its parts never change, so the object, while there is one,
  is those parts: all requests that compare the size come to the same answer
  (`StoredReq`). A request that is to remove an object for its size therefore
  proves that it never becomes ready, and any other removal that the upload was
  deleted or its room closed (`MayGo`). `Touches` says what a step may do to the
  bucket, for one upload, and takes the place of `StepMoves` there.
- `Bytes` adds sizes as the cardinality of a set of slots (one per byte), so
  that no induction over data is needed: `BytesAdd`, `BytesRemove` and
  `BytesUnion` follow from the library's facts on finite sets. With them each
  move changes counters and rows by the same amount (`AccountsKept`), and a
  reservation that fits the exact counters fits the rows (`AcceptedLimits`).
- The refinement maps Accepted to Reserve, Kept to Keep, Released and Deleted to
  Release, Removed to Erase, and the rest to a stutter. That the ledger has room
  for a Reserve is where exact counters are needed: the ledger has none. That no
  known upload has the key of a Reserve (`Under`), so that an Initiate asked again
  reserves nothing more, is what the lookup by key in Initiate gives (`KeyTaken`).

**The argument under Prompt.** `PromptInv` has three parts, each of which needs the one
before. `JobsInv`: a job that is held was claimed in this very tick, of a row without
a key and in a room that is not due, so no other copy finds it `Queued`. `ThumbInv`: a
job that is to write the key has stored its object. What then takes an object out of
the bucket (`ThumbFlow`) is a copy that undoes its own job, which the disjoint jobs keep
away from any other's; an authorised Delete; or the worker in a room that is closed.
`CleanInv`: a PUT under way, a Complete that is to join parts and a job are all in time
for their room, so for a room that is due nothing is left that could store an object
(`ObjectFlow`, `CleanStays`), and what RemovePrefix emptied stays empty until the row
goes. Here the leases are needed: a transfer begins only while its URL is valid.

**The argument for the browser.** `EveryStepMoves` does the same for the rows of
sessions (create, rotate, revoke, nothing). `TokensInv` adds to `SpentOnce` that
no session still holds a token that was exchanged; a new token is larger than
all before it. `BrowserInv` is about the tabs: a refresh is of the token its tab
holds and a tab has at most one (`FlightRules`, `OneFlight`), only an open tab
calls (`TabRules`), a grant found anywhere is its own session's (`Owned`), and while
`calm` some open tab, finished login or answered refresh has the current token of
each live session (`Keeps`). localStorage is not enough: another tab may overwrite
it. `WaitersServed`, `NoOrphan` and `LosesOnlyDead` follow.

**The argument for rooms.** `RoomsInv`: the row of a room agrees with its members,
no two rooms that exist have one code, and a Join past its check has its person
admitted to the room it will write (`JoinsAdmitted`), which need not be the room
that has the code by then.

**The argument for the limiter.** `LimiterInv`: a request that waits was timed at
most `MaxWait` ago, so a bucket's last time is at most that far ahead of the time
its visitor was last seen. With `IdleBucketsFull` a visitor that is dropped has a full bucket, so
dropping it leaves `Level`, the bucket as it would be now, alone (`DecideMoves`);
a decision made late takes at most `MaxWait` less from it. The rate follows by
`Level` and what was granted together never exceeding `Full` and the time.

**The argument for locks.** `LocksInv` says for each kind of transaction which rows
it has yet to lock (`Plan`), why it may hold a media (`MediaHeld`), and, but for
expiry and drop, that what it holds comes before what it waits for (`Upward`). An
expiry holds the session and the room of an upload that is open; a transaction
that held its media would have to hold that session, hold that room, or have found
the upload closed. In a ring without a drop no expiry waits, so the rank of the
row waited for grows from each transaction to the next, and there are only four.

**The argument for the transfer of parts.** `PartsInv`: the parts sent so far are those
below the offset of the batch, under their own numbers, and each part the bucket has,
from whichever attempt and however late, is the piece of the file its number says. That
these pieces cover the file, without a gap and with a last piece that is not empty, is
arithmetic (`PartsCover`, `Chunks`): so the parts a Complete lists are neither refused
nor joined to anything else (`Joins`).

**The argument for the queue.** `QueueInv` says of each file who acts on it: one that
waits for its first try has no other, and so no upload (`WaitsForFirst`); the server's
uploads go by how far the tries are: one that is open, unless an answer was lost, belongs
to a try that still sends, completes or aborts it, and a file shown as done has one that
is ready (`UploadFollows`); without haste one try at most is under way, and its controller
is the one that "cancel" reaches (`OneTry`); and without haste and lost answers one upload
at most is ready, never of a file shown as failed (`StoredOnce`). It is proved file by file:
a step touches one file, and starting the next only puts files that wait in a lane.

**The argument for the gallery.** `WalkInv`: the list and the pages under way are well
formed whatever overlapped (`PageKept`), and while `orderly` the list descends, nothing
steady is missing above its cursor, and every answer still fits the list it will meet
(`WalkFits`, `CallFits`). A page is the newest items below its cursor, found by their
rank: `Counted` and `NewestOfSet` show that ranks number a finite set without gaps, and
`PageFromTop` that a full page from the top reaches as far down as a list of the same
length. `Newest` and `Without` are defined by ranks for this reason: of the community
modules' SortSeq and of SelectSeq the provers know nothing.

The three parts of the page go on one at a time in the run (`WholePageSpec`).
`PartsAlwaysAgree`, `QueueLeavesNothing`, `QueueTellsTruth` and `WalkIsComplete` are
theorems of each part's own specification, which allows all of its steps at any time;
`RoomPageTypes` and `PageKeepsAll` state them of the composition, by `PageInv`, the three
invariants together: a step of the one is a stutter of the others.

**Only model-checked.** Liveness under fairness is out of the prover's reach
(`DueRoomsGo`, `AbandonedUploadsEnd`, `TxnsEnd`, `FirstPageFresh`,
`WorkEnds`). Every invariant, every action property and every refinement that a
passing run checks is proved.

## 6. Plan

Done: the upload life cycle with its abstract specification, counters, limits
and refinement; sessions and tabs, rooms and members, the rate limiter, the row locks,
gallery paging, the upload queue and the transfer of parts: modelled, checked and
their safety proved.

Next, in this order:

1. An abstract queue (a file is waiting, sent, stored or given up) that `UploadQueue`
   implements, and the refinement proved from `QueueInv`.
2. The head-of-line blocking of the room queue (`cleanup/service.go` 160) as a
   liveness property under a fairness that lets one room's removal always fail.

**Not modelled, and why.** Cryptography of passwords, Telegram's signature and
access tokens: checks of one value, without state. Routing, configuration, the
migrations runner: wiring. Rendering, dialogs and the viewer: no logic of the
system. Listing and reading operations (rooms, members, previews, downloads)
change nothing; of the gallery's reads the page is modelled because a client
builds on it.
