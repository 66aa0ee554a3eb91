# startlink: verification project

TLA+ models of startlink, the campaign messaging system of this repository (Go;
the code is under `internal/`, `cmd/` and `pkg/`), with the TLC runs that check
them and the TLAPS proofs about them. `PROJECT.json` lists the components, runs,
hazards and theorems in machine-readable form and maps every definition to the
lines it models.

## 1. The system and its parts

A business service creates a *campaign* (a row of `main_tasks`). Scheduler
processes turn its audience into *shards* (rows of `sub_tasks`), and shards into
messages on a queue. Pusher processes take messages from the queue and hand them
to vendor channels. Vendors answer later with receipts. Around this pipeline
stand services with tables of their own: templates, segments, suppression lists,
preferences, limits, the console's users, roles, sessions and notifications.
MySQL and Redis are the only shared state; every process may stop at any
statement and be started again.

| Component | State it keeps | Operations | Talks to |
|---|---|---|---|
| Campaign API (`app/campaign`) | `main_tasks` (status, version) | Create, Copy, UpdateDraft, Publish, Pause, Resume, Cancel, Retry, progress | MySQL, Redis counters, webhook |
| Splitter (`scheduler/splitter.go`, `worker.go` loopSplit) | split lease on the main task, `sub_tasks` rows | MarkMainTaskRunning, takeover, Split, runSplit | audience provider, MySQL |
| Claim loops (`scheduler/worker.go` loopClaim) | claim on a shard (status, worker_id, claimed_at) | ClaimSubTask, processSubTask, publishMsgs | MySQL, message queue, aggregator |
| Aggregator (`scheduler/aggregator.go`) | `sub_task_done`, Redis mark set and counter hash | OnSubFinished, finalizeIfDone | MySQL, Redis, notifications |
| Reaper (`worker.go` loopReap) | none | ListFinishableMainTasks, FinalizeStale | MySQL, aggregator |
| Redis stream (`adapter/mq/redis_stream.go`) | stream, pending list, dead-letter stream | Publish, Consume, reclaim, ack, trim | Redis |
| Push gateway (`push/gateway.go`) | status cache (300 ms), `push_records`, dedup keys | Handle, sendFallback/Parallel/AllSuccess, sendOne, doSend | MySQL, Redis, vendors |
| Receipts (`app/callback`) | `push_records`, receipts | Handle | MySQL |
| Limits (`adapter/redis/quota.go`, `client.go`) | token buckets in Redis and in the process, frequency counters | Wait, ObserveThrottle, AllowAll | Redis |
| Templates (`app/template`) | `push_templates` with a version column, `template_versions` | Create, Update, Submit, Approve, Reject, Disable, Enable, Rollback, Delete | MySQL |
| Segments (`app/segment`, `adapter/audience`) | `audience_segments` with a cached member count, the member table | Create, Import, Clear, Refresh, Delete, ResolveExcludeUserIDs | MySQL |
| Suppression lists (`app/segment/suppression.go`) | a table, and Redis sets the send path asks | Add, Remove, RebuildSuppressionCache | MySQL, Redis |
| Preferences (`app/preference`) | `user_preferences`, `consent_logs`, a cache per process | Upsert, Delete, Resolve | MySQL |
| Console access (`auth/session.go`, `repo/auth.go`) | `auth_users` with session_version, roles and their permissions | CreateUser, UpdateUser, UpsertRole, login, verify | MySQL |
| Seeding (`auth/seed.go`) | none; the permission, role and user tables | Seed at the start of every API process | MySQL |
| Exports (`app/campaign/ops.go`) | `export_jobs`, files, four slots in the process | CreateExport, runExport | MySQL, disk |
| Trace recorder (`app/trace/recorder.go`) | a bounded buffer, `trace_events` | RecordAsync, loop, Close | MySQL |
| Notifications (`app/notify`, `handler/notification.go`) | `notifications`, channels of open streams | Create, MarkRead, publish, Broadcast, Stream | MySQL, Redis |
| Rules (`domain/`, `config/retry.go`) | none | windows, ramp-up, cron, retry backoff, channel strategy | pure functions |
| Vendors, HTTP, configuration, web console | none | I/O, wiring | HTTP |

What makes it hard is that nothing holds a lock over two statements. A claim or
a lease is a row with a time stamp that somebody else may take over while its
holder still works; a main task is read, and its status, version and counts are
used several statements later; results live in MySQL *and* Redis; queue entries
are delivered at least once; and Pause, Resume and Cancel may come between any
two steps. The services have the same shape on a smaller scale: read, check, and
write in a later statement; a table and a cache or a Redis set that follows it.
`PROJECT.json` "hazards" lists the places where this bites.

What each component must guarantee:

- *claim loops*: a result is written by the holder of the claim only, a written
  result stays, every shard gets one although workers crash;
- *aggregator and reaper*: a shard is counted once, a campaign is closed when and
  only when all shards have results, is announced once, a final status is final;
- *splitter*: shards become visible only when the split is complete, a takeover
  sends no page of the audience twice, a cancelled campaign leaves no shard behind;
- *gateway and stream*: a user gets a message at most once per channel unless its
  outcome was lost, an acknowledged message has a recorded outcome, a message is
  finally settled;
- *Create and drafts*: one biz_id names one campaign, a repeated request succeeds
  again, a published campaign keeps its form;
- *Retry*: the counters it rebuilds close the campaign when the reset shards are
  finished, and not before;
- *templates*: a campaign copies only what a reviewer has seen, a revision means
  one content for ever;
- *segments*: the cached count is the number of members, an exclusion list leaves
  nobody out or says so;
- *suppression and preferences*: the sets and caches the send path asks say what
  the tables say, or said less than a ttl ago; the consent log explains the row;
- *access*: somebody who may edit users and roles remains, a revoked cookie stays
  revoked;
- *seeding*: the built-in roles get the codes of each version, administrators'
  changes survive restarts and upgrades, the first accounts get their roles;
- *exports*: a finished list is complete and no slot is lost;
- *trace recorder*: handlers never wait, and an orderly end loses no event it took;
- *limits*: no bucket or window lets more through than it is configured for;
- *notifications*: the console shows the true unread count again after each change;
- *rules*: next send time within a window, monotone ramp-up, bounded backoff.

## 2. Modules

| Module | Models | Runs |
|---|---|---|
| `SubTaskPipeline` | claim loops, aggregator, reaper, Pause/Resume/Cancel of one split campaign | `pipeline_*` |
| `CampaignLifecycle` | the abstract promise: a campaign is closed once, from running, when every shard has reported | refined in `pipeline_races` |
| `CampaignRetry` | Retry with realignCounters, composed with the whole of `SubTaskPipeline` | `retry_undisturbed` |
| `SplitLease` | the split of one campaign by several processes and goroutines | `split_*` |
| `Delivery` | one user's message from the Redis stream to the vendors and back | `delivery_*` |
| `DeliveryPromise` | the abstract promise: one vendor call at a time, none after a cancellation or while an acceptance is known, and what a row shows only the vendor takes back | refined in `delivery_all` |
| `CampaignAdmin` | Create, Copy, UpdateDraft, Publish of one biz_id | `services` |
| `TemplateCenter` | review, versions and snapshots of one template | `services` |
| `SegmentAssets` | one segment, its members and the walks over them | `services` |
| `SuppressionList` | the suppression table and its Redis sets | `services` |
| `PreferenceCenter` | one user's preferences, the consent log, the resolver's cache | `services` |
| `AccessControl` | users and roles, and the guard for the last manager | `services` |
| `UserSessions` | logins, cookies and their revocation for one user | `services` |
| `ChannelLimits` | the token buckets of one channel and the global one | `services` |
| `FrequencyWindows` | the frequency limits of one user | `services` |
| `NotifyStream` | the unread count from the table to the open streams | `services` |
| `AuthSeed` | the seeding of permissions, roles and users by starting processes | `services` |
| `ExportJobs` | export jobs, their slots and files | `services` |
| `TraceRecorder` | the buffer of trace events up to the end of the pusher | `services` |
| `SubTaskPipelineProofs` | typing; counting, closing, results, announcement, the refinement | TLAPS |
| `CampaignRetryProofs` | `CampaignRetry`, on top of `SubTaskPipelineProofs` | TLAPS |
| `SplitLeaseProofs`, `DeliveryProofs` | the split; the delivery | TLAPS |
| `ContentProofs` | `CampaignAdmin`, `TemplateCenter`, `PreferenceCenter` | TLAPS |
| `AudienceProofs` | `SuppressionList`, `SegmentAssets` | TLAPS |
| `ConsoleProofs` | `AccessControl`, `UserSessions`, `NotifyStream`, `AuthSeed` | TLAPS |
| `BackgroundProofs` | `ExportJobs`, `TraceRecorder`, `ChannelLimits`, `FrequencyWindows` | TLAPS |
| `MCPipeline`, `MCRetry`, `MCSplit`, `MCDelivery`, `MCServices` | instances for TLC: symmetry sets, settings, values that are records | |

The three models of the pipeline meet at narrow interfaces, so they are checked
apart: `SplitLease` ends where the shards become claimable, which is where
`SubTaskPipeline` begins (`InitRows`); `SubTaskPipeline` publishes a shard's
messages, perhaps twice after a claim timeout, and `Delivery` begins with one or
two copies of one message on the stream (`CopySets`). Pause, resume and cancel
appear in all three, as the update of the main task each of them reads. Retry
works on the same rows and counters as the claim loops and the reaper at the same
time, so `CampaignRetry` EXTENDS `SubTaskPipeline` and its next-state relation
contains all of it.

The services meet the pipeline, and each other, only through values that are
copied once: a campaign copies a template's body and a segment's code when it is
created, the gateway asks a set, a cache or a bucket. They share no variable, so
`MCServices` does not interleave them; its initial state chooses the service that
runs and the others stay as they begin. That is their product without the steps
that could not influence each other, and it keeps one TLC run for all of them.
`AuthSeed` ends where `AccessControl` finds its tables filled.

### SubTaskPipeline

| Model | Code |
|---|---|
| `mainStatus`, `version`, `subTaskDone`, `subTaskTotal`, `userCounts`, `expired` | the `main_tasks` row |
| `subStatus`, `workerId`, `stale` | the `sub_tasks` rows: status, worker_id, whether claimed_at is past the claim timeout |
| `marked`, `redisDone`, `redisSucc`, `redisFail` | the set `starlink:task:{id}:sub_finished` and the counter hash |
| `pc`, `held`, `outcome`, `snap`, `verdict` | a loopClaim goroutine or the reaper; what it read or computed and has not yet used |
| `enqueued`, `cancelPc`, `notified` | shards in the queue, Service.Cancel between its two updates, announcements sent |

A worker claims (`ClaimSubTask`), passes the first gate, publishes, renews the
claim or loses it, passes the second gate and writes its result (`Settle`); then
OnSubFinished goes step by step: read the main task (`AggRead`), mark
(`AggMark`), count (`AggCount`), Redis counter (`AggRedis`), and
finalizeIfDone: read (`FinRead`), compare-and-set (`Cas`), re-read and second
attempt (`Reget`), announce (`Notify`). The reaper lists and enters at `FinRead`.
Each action is one statement, so every other thread may act in between. A failing
statement (`ClaimLoopDbError`, `AggDbError`, `AggRedisError`, `FinError`) takes
the error path of the code at that place, including the roll-back of the mark.

### CampaignRetry

| Model | Code |
|---|---|
| `retryPc`, `task`, `listed`, `extra`, `newSubs`, `resets`, `summary` | a call of Service.Retry: where it is, the campaign it read, the users and shards it found, SummarizeSubTasks |
| `carries`, `record`, `dedup` | `sub_tasks.user_ids`, the status of a user's push record, the dedup keys |
| `retries`, `reopened`, `disturbed`, `setting` | bound and histories |
| `summed` | history: which shards the counters a call has read or summed stand for |

One action per statement: the status test, both lists, ResetFailedSubTasks, the
insertion of the retry shard, ClearDelivered, ReopenMainTask with its WHERE, and
realignCounters (`SummarizeSubTasks`, `RealignMain`, `SetSubDone`); when somebody
else reopened the campaign, the counters it read are written back
(`SyncStaleCounters`). `PushUser` is what the gateway makes of a published shard,
so that users a channel refused are there to retry. `counted` and `cached`, the
histories of `SubTaskPipeline` that say which shards sub_task_done and the Redis
count stand for, follow the counters: whatever a call writes there stands for
`summed`. `RetryStops` is an error or a
crash between any two of them.

### SplitLease

One campaign, several scheduler processes, each with `Slots` goroutines. The main
task carries status, version, split_owner, the age of the lease and
sub_task_total; the rows are counted per page of the audience. A splitter takes
the campaign (`MarkMainTaskRunning`, `ClaimStaleSplit`), reads it, deletes old
rows, then per page checks the status, renews the lease and inserts
(`CreateSubTasksWithLease`, one transaction), and writes the totals (`Meta`,
`Final`, `Touch`, `Patch`, `Open`). Errors of Split lead to `FailRead`, `Fail`,
`Clear` and, after a failure, to the inbox message (`Tell`); errors the code drops
(the deletion, the totals of a page, `Touch`, the lease's clearing) only skip the
statement. The pipeline behind it is reduced to `ShardDone` and `Close`.

### Delivery

One user, one campaign, `NumChannels` channels. The stream holds the entries with
a copy of the message; each has a delivery count, an idle flag (claim_min_idle_ms
has passed), an age flag (DeferredMaxAge) and a fate. A consumer goroutine takes
an entry (`Deliver`, `reclaimOnce`), runs `Handle`, and acknowledges it, leaves it
pending or buries it (`Ack`, `onHandlerFailure`). Inside, each channel has its own
program counter, because sendParallel and sendAllSuccess run sendOne of all
channels at once: `Dedup` (HasDelivered), `ClaimDelivery` and `TakeRow` (insert,
read, take over), `Check` (unsubscription, limits, token), `Gate` (forced read of
the campaign), `Send` / `SendFails`, `ReadRecord` / `WriteRecord`
(UpdateRecordDelivery is a read and an unconditional write), `MarkDelivered`.
`classifyParallelOutcomes`, `classifyAllSuccessOutcomes` and `SequentialResults`
turn the results of the channels into the result of Handle.

The history variables `reached`, `known`, `twice` and `unrecorded` say what the
vendor accepted, whether the acceptance came back and was not lost, and which
ignored update failed. They are read by properties only.

`ImplementsPromise` maps the detailed state to that of `DeliveryPromise`: the calls
are the sends that are in `Send`, a channel is shown when its row says sent,
delivered or clicked, and `known` is the history above. Claims, dedup keys, the
stream and the queue's bookkeeping are no part of the promise: their steps stutter.

### The services

Each module keeps the rows, and for each request in flight a record of its step
and of what it read and is about to write (`tplCall`, `segCall`, ...): a handler
is cut at every statement that reads or writes shared state, and nowhere else.

| Module | State | Code | Steps |
|---|---|---|---|
| `CampaignAdmin` | `admTask`; `admUsable`, `admAvail` | the row with the biz_id; the template's review and Limiter.AvailableQPS | Create: look-up, template, quota admission, insertion, second look-up; a draft's edit and publication: read with checks, then the write by id |
| `TemplateCenter` | `tplRow`, `tplVersions` | `push_templates`, `template_versions` | the page shown, the handler's read and check, updateCAS or conflict, saveSnapshot |
| `SegmentAssets` | `segRow`, `segMembers`, `segRefs`, `segWalk` | segment, members by id, campaigns that refer to it, resolver or counter on its way through the pages | wipe, BulkUpsert, count, update of the count, deletion; per page count and list |
| `SuppressionList` | `supDb`, `supRedis` | the table, the sets | table, then set; rebuild: batch read, batch added |
| `PreferenceCenter` | `prefRow`, `prefConsent`, `prefCache`, `prefReader` | row, latest consent per field, cache entry, Resolve on its way | read and apply, write of all columns, log, invalidation; miss, read, fill |
| `AccessControl` | `accUser`, `accRole` | `auth_users`, roles with or without rbac.manage | decision with its guards, write |
| `UserSessions` | `sesUser`, `sesCookies` | enabled and session_version, cookies handed out | Authenticate, IssueCookie; read, UPDATE with `session_version + 1` |
| `ChannelLimits` | `limBucket`, `limShrunk` | the buckets in Redis and in each process, the shrunk rate's key | the global token, ratesFor and adaptMult, the channel's token; degradation, deadline |
| `FrequencyWindows` | `frqCount` | counter and expiry of each key | the script of AllowAll as one step |
| `NotifyStream` | `ntfUnread`, `ntfWire`, `ntfClient` | unread rows, the Redis channel, the hub's channels | change, CountUnread, publish, Broadcast; a stream counts, then subscribes |
| `AuthSeed` | `sedPerm`, `sedRole`, `sedGrant`, `sedUser`; `sedProc` | the four tables; each process's place in Seed | every count, list, insertion and replacement of the four phases; a duplicate key or a failing statement ends the process |
| `ExportJobs` | `expJob`, `expFile`, `expSlot`, `expRun` | `export_jobs`, the files, exportSem, the goroutines | slot, insertion, each statement of runExport, each page, Flush, the mark |
| `TraceRecorder` | `trcChan`, `trcHand`, `trcLoop`, `trcMain` | the channel, the event being written, loop, main | RecordAsync, the loop's selects, write, Close and os.Exit |

**Histories that name an exception.** Where the code gives a promise only to
requests that do not overlap, the model contains the overlap, and a history
variable (`segDoubt`, `supDoubt`, `prefDoubt`, `accDoubt`, `ntfDoubt`, `admRaced`,
`crossed`, `disturbed`, `sedUnsure`, `sedSkipped`) records that it has happened. The
property then excepts exactly those states, and no more: the doubt is on the entry, field, stream or
row concerned, and where a later request that runs alone repairs the damage the
history is reset, so the repair is part of what is checked. The weakened part is
listed in section 8.

## 3. Runs

| Run | Question | Bounds |
|---|---|---|
| `pipeline_faults` | Does the inductive invariant of the proofs hold under faults, and was every successful shard enqueued? | 2 shards, 2 workers, reaper, 1 crash, failing statement, lost Redis or receipt |
| `pipeline_races` | Pause, resume, cancel, expiry, claim takeover and crash against each other: closed when finished, announced once, life cycle implemented | the same, 1 pause, 1 slow worker, 1 fault |
| `pipeline_recover` | Does every shard get a result and the campaign close after a crash? | 1 crash, 1 pause, fair |
| `pipeline_verdict` | Is the verdict that of the shards' results? **No** | no faults at all |
| `pipeline_lost` | Does a campaign close after a failed increment? **No** | 1 failing statement, fair |
| `retry_undisturbed` | Does a retried campaign close again, and only when its shards are finished? | 1 worker, 1 reaper, 2 shards of which Retry may insert one, and one of four settings: two calls, a reaper, a failing statement, a cancellation; fair |
| `split_faults` | Is the lease a gate and does every split end without slow splitters? | 3 processes, 3 pages, 2 of crash, failing page, cancel; fair |
| `split_stall` | No orphan shards, no final status overwritten, with slow splitters | 2 processes, 2 pages, 1 stall, 1 pause, 1 fault |
| `split_gate` | Do claim loops see complete splits only? **No** | 1 pause, nothing else |
| `delivery_all` | Is a message sent once, accounted for and settled, and does the delivery implement its promise, which a cancellation stops? | 2 entries, 2 handlers, 2 channels, 4 modes, any 2 of 14 disturbances or a second copy |
| `delivery_twice` | Can two handlers send the same message? **Yes** | 2 copies, 1 crash, 1 channel |
| `services` | Does each service keep its promise with two requests at once, failing calls and expiring caches? | below |

Bounds of `services`: two requests (processes, for the limits) and two values
(contents, users, entries, fields, digests) everywhere. Templates: 5 writes of
the row, 2 of them new revisions, enough for a rollback. Segments: page size 1
with at most 2 pages of an expansion and 1 of a count, so that both limits, of
pages and of users, cut a list of two. Suppression: batches of 1, 2 faults.
Preferences: ttl 1, 3 requests, 1 failing log. Create: 4 requests; a hint of 2
users against a quota of 1 or 2. Access: 2 users, 2 roles, 1 failing read.
Sessions: 3 changes, 2 logins, cookies that live 2 of 4 ticks. Limits: 2 processes,
a burst of one token globally and two on the channel, so that both buckets run
empty; keys that expire after 2 ticks, 3 ticks, 2 failing calls. Frequency: three keys with limits 1, 2
and none, windows of 2 and 3 ticks in 5. Notifications: a channel buffer of 1, 2
rows, 1 read, 1 failing call. Seeding: 2 processes on an empty database or on the
one of a version with one code less, 2 roles of which one holds the new code, 2
accounts; 1 stop, 1 change by an administrator, 1 failing look-up. Exports: 2 jobs
for 1 slot, 3 records in pages of 2, so that a walk has a full page, a partial one
and an empty one; 2 failing statements, 1 restart. Trace events: 2 handlers, 5
events for a buffer of 2, 1 failing insertion.

Why the bounds are enough: every hazard of the list needs at most two actors that
disagree on one row and one or two faults; with two shards the last one and
another one are told apart, with three pages the first, a middle and the last
one, with two channels a first and a next one. MaxDelivery 2 lets a message be
retried and be buried. What the proofs cover holds beyond them, for any
constants. The bounds are the constants `MaxPauses`, `MaxSlow`, `MaxStalls`,
`MaxFaults`, `DuplicateCost`, `Settings` and the `Max...` constants of the
services; they appear in guards of the environment's actions and of the actions
that begin a request only (`MaxTplVersion` and `MaxTplRevision`: of the write).
Deadlock is not checked because a finished campaign, an acknowledged message or a
service out of requests really stops.

The four settings of `retry_undisturbed` together would be too large for one run;
each is a combination in which something can go wrong: two calls for one campaign,
a reaper that closes what the call reopens, a statement that fails half-way, a
cancellation. `setting` is chosen by the initial state and stays.

Symmetry is used for safety and action properties only; the runs with liveness
have none. In `services` it permutes the two requests and the two values, which
no definition tells apart; users and roles of `AccessControl`, and roles, codes
and accounts of `AuthSeed`, are not permuted, since some of them are built in.
Other services than `AuthSeed` begin with the empty tables of seeding only.

What the failing runs show:

- `pipeline_verdict`: sub_task_done is incremented before the result reaches the
  Redis hash; the worker that completes the count may read the hash without the
  other's failure (`scheduler/aggregator.go:139`).
- `pipeline_lost`: after a failed increment the mark is rolled back for a replay
  that no caller makes; the campaign stays running (`aggregator.go:79`).
- `split_gate`: pause and resume put a campaign back to pending under a running
  splitter; the old one clears the lease of the new one without an owner test.
- `delivery_twice`: ClaimDelivery takes a row over without testing again what it
  read; two handlers that read it failed, queued or stale both send
  (`adapter/repo/task.go:1086`). `DeliveredStays` needs one handler per row too:
  two of them may overwrite a receipt.

`SentOnce` holds in `delivery_all`, where no time limit passes while a handler
works and the second copy uses up the disturbances; that is the protection the row
and the dedup key give, and `delivery_twice` shows where it ends.

## 4. Fairness

Only weak fairness is used. *Goroutines run*: each loop of a process that is up,
and each call of Retry, takes its next step. *Time passes*: claims, leases and
pending entries of holders that are gone get old, the status cache expires,
entries reach DeferredMaxAge. *Periodic jobs*: loopSplit and loopReap poll by
ticker, and every round of Consume reads both the idle pending entries and the
new ones, so none is passed over for ever. Nothing is assumed of users, vendors
and faults: Resume, Cancel, Retry, receipts and crashes may never happen. In
`delivery_all` a paused campaign therefore stays paused, and EntrySettles holds
through the age limit of deferred messages. The service modules state safety
only: each handler is a straight line of statements, and what must eventually
happen there is that a cache entry expires, which `PreferenceFresh` says as a
bound on its age.

## 5. Proofs

| Theorem | Statement |
|---|---|
| `Typing`, `SplitTyping`, `DeliveryTyping` | every reachable state is well-typed |
| `CountsAreShards` | `CountInv`: every count stands for distinct finished shards |
| `NeverOvercounts` | sub_task_done never exceeds the finished shards |
| `ClosesWhenFinished` | the aggregator closes a campaign only when all shards have results |
| `Implements` | the pipeline implements `CampaignLifecycle` |
| `SuccessAfterQueue` | a successful shard's messages are in the queue |
| `ResultsStay` | no late worker, release, takeover or cancellation changes a written result |
| `NotifiesOnce` | the end of a campaign is announced at most once |
| `RetryRealigns` | an undisturbed Retry returns with the counting invariant restored |
| `RetriedClosesWhenFinished` | an undisturbed Retry or none: a closed campaign has a result for every shard, old, reset or new |
| `NoOrphans` | a finished cancellation leaves no pending shard |
| `SplitKeepsStatus` | final statuses and pauses survive every splitter |
| `LeaseIsGate` | when `Steady`: a shard is claimable only from a complete split |
| `TakeoverSendsOnce` | when `Steady`: a split taken over sends no page twice |
| `CloseIsComplete` | when `Steady`: a closed campaign has reached every page |
| `OpenNeverFails` | when `Steady`: no splitter fails a campaign whose split is complete |
| `Delivered` | a delivered row or dedup key means a vendor accepted the message |
| `CancelStops` | no vendor call begins once the campaign is cancelled |
| `OneCopySentOnce` | when `OneCopy`: no message is accepted again after an acceptance the handler lived to know of |
| `CopiesSentOnce` | when `Undisturbed`: the same for any number of copies |
| `OneCopyResolved` | when `OneCopy`: an acknowledged message has an outcome |
| `DeliveredIsKept` | when `OneCopy`: a delivered row only moves forward |
| `KeepsPromise` | when `OneCopy` or `Undisturbed`: the delivery implements `DeliveryPromise` |
| `CreateAgrees`, `PublishedStays` | repeated Creates of one biz_id agree; a published campaign keeps its form and its end |
| `ApprovedIsWhatWasSeen`, `RevisionNamesContent` | a usable template is what its reviewer saw; a revision names one content |
| `CacheWithinTTL`, `LogExplainsRow` | a resolved preference is younger than the TTL; the log explains the row |
| `CountIsMembers`, `ExpansionIsComplete` | the count of a segment is that of its members; an expansion leaves nobody out |
| `SetsFollowTable` | the suppression sets are as the table is |
| `SomebodyManages` | an enabled user with rbac.manage remains |
| `RevokedStayRevoked` | an accepted cookie belongs to a login since the last change |
| `BadgeIsTrue` | a stream shows the number of unread rows |
| `SeedIsKept` | what administrators took from a role stays taken; seeded roles and accounts are as defined |
| `GrantsAreEarned` | a bucket grants its burst and what its rate earns, no more |
| `WindowsAreKept` | a key counts the sends since its window began, never more than its limit |
| `ExportsAreComplete` | a successful export has every record; slots return |
| `NothingAcceptedIsLost` | accepted trace events are stored before the pusher ends |

The assumptions are those on the constants, evaluated by every run: finite sets,
natural bounds, NoSub and the like outside their sets. No theorem assumes
anything of the numbers of shards, workers, pages, channels, copies, requests,
users or entries, and the bounds on faults are arbitrary. `SplitTyping`,
`DeliveryTyping`, `NeverOvercounts` (a consequence of `CountInv`, which
`pipeline_faults` checks), `RetryRealigns` and `CancelStops` (part of what
`ImplementsPromise` says) are proved only; no run repeats them. The exceptions named by
the histories of section 2 are part of the statements.

Three hypotheses name what the environment must not do, because without them
the statements are false (`split_gate`, `delivery_twice`):

- `Steady` (split): no splitter outlives its lease, no API call pauses and no
  statement fails. Crashes, takeovers, cancellations, failing pages, and pauses for
  capacity with their Resume remain, with any number of processes, goroutines and
  pages. `split_gate` needs one pause by the API and nothing else; a
  statement that fails breaks it when its error is dropped, as the deletion's is
  in a takeover, or the update's to failed after a split that gave up; and a stall
  lets two splitters work at once (`split_stall` checks what is left then).
- `OneCopy` (delivery): the message is on the stream once and no time limit passes
  while a handler works on it. Crashes, redeliveries, cancellations, expiry,
  failing statements, lost keys and late receipts remain.
- `Undisturbed` (delivery): no time limit passes while a handler works, and the
  disturbances are deferrals, a Redis that fails or has lost its keys, and
  trimming. Copies and handlers are any number. `delivery_twice` needs
  two copies and a crash, which neither hypothesis admits together.

Of a constant only one assumption is about the configuration: `LimAssumption`
asks that a bucket fills within the life of its key, 120 s (`quota.go:38`). The
burst is the rate where none is given (`config.go:621`) and no shipped
configuration gives more. With a larger burst a key that expires gives back more
than was earned.

*Counting.* `NoOvercount` is not inductive: it says nothing of a worker that has
written its result and not yet counted it. `CountInv` adds the *tickets*: each
worker between the write of its result and AggCount holds one finished shard, no two the same,
none of them counted already, and a snapshot of finalizeIfDone in flight counts
no more than the shards counted now. Only the write of a result (`WriteResult`)
creates a ticket, and only for a shard it moves out of an unfinished status in the
same statement; only AggCount spends one. Closing follows: the compare-and-set succeeds on a snapshot in which
done reached the total. The refinement maps the rows to the set of reported
shards and uses the same invariant for the step `Close`.

*Results.* `PublishedInv` adds to `SuccessWasEnqueued` that a worker waiting to
write success has its shard's messages in the queue. `ResultsStay` is an action
property of the same steps: a result is written only WHERE worker_id is the
writer's and the shard is running, and every other update of a shard's row has a
WHERE on an unfinished status.

*Announcement.* `NotifyInv`: of the threads past a successful compare-and-set and
the cancellation between its two updates, at most one is there at a time, only
while the campaign has ended, and none once it has been announced. The
compare-and-set from a status that is not final is what lets one through.

*Retry.* A call resets rows, reopens the campaign and only then sums and writes the
counters, so `CountInv` does not hold while it runs, and nothing that uses the
counters may run either: `disturbed` is set when something does. `RetryInv` follows
the two counters through an undisturbed call. `Calm`: while all calls are idle
`CountInv` holds, and while one is not, nobody else is at work and `Stage` says how
far it has come: after `SummarizeSubTasks` the summary is that of the rows as they
still are, after `RealignMain` the main task's counters are those of the summary, and
SetSubDone completes `CountInv` by the Redis count;
with every thread idle there are no tickets and no snapshots to account for. A call
that finds nothing to retry has changed nothing. A cancellation may run at any time;
a cancelled campaign is not closed by a verdict, and `CancelledInv` says that until
then no shard is cancelled, so that the shards SummarizeSubTasks counts as done are
those with a result. Between the calls the pipeline's own steps keep `CountInv` for
whatever rows there are, which is why `Counting` and `Closing` speak of `Rows` and
not of `Subs`.

*No orphans.* The insertion is one transaction that finds the campaign running,
a cancelled campaign never runs again, and the API cancels the rows after it
cancelled the campaign; `CancelInv` adds "past its first statement the
cancellation finds the campaign cancelled".

*Splitting.* `SplitInv` has five parts. `OneSplitter`: at most one goroutine is at
work, because a lease is taken over only from a holder that has stopped. `Owns`: who
works holds the lease, or has lost it to a cancellation and will not write. `Wrote`:
what rows and messages there are, page by page, as far as the goroutine at work has
come; the cleaning before a second split removes what the first left. `Phases`: what
holds of status, lease and total before, during and after the split. `Settled`: who
is about to pause for capacity has opened the campaign, so a pause finds the split
complete and Resume sends it back to running. All four theorems follow from `Phases`
and `Owns`.

*Sent once.* With one copy `OneWorker` says that at most one handler has the
message, in an entry that is pending and not idle; redelivery needs an idle entry,
and an entry becomes idle while a handler is up only by a time limit. `KnownInv`
then says that whoever is between claim and write has its row in "sending", and that
an acceptance that is known is in the row or in the hands of who will write it; `OutcomeInv` adds, for `AckedIsResolved`, what is still open for whoever
acknowledges. With many copies and few disturbances the row itself is the lock:
`Untaken` says that a row in "sending" has a handler in its critical section, so
ClaimDelivery passes one. `DeliveredStays` follows from `KnownInv` too: the late
update of a send has no guard, but its handler holds the row in "sending".

*The delivery's promise.* Each step of a handler is one step of `DeliveryPromise` or
a stutter. That a call begins only where no acceptance is known and no other call is
under way is `HolderKnows` with `OneHolder`, which each of the two hypotheses gives on
its own (`OneWorker`, `Untaken`). `ShownInv` adds the other direction of `KnownInv`: what a row
shows, or a handler is about to write, is known. So the update that writes sent
is the step `Show`; a crash or a failing statement loses only what no row shows; and a
receipt is the only step that takes a row back.

*Delivered.* The statement is not inductive, because a handler past the vendor
call carries the success in its hands: `AcceptedInv` adds `SuccessInHand`, that
whoever is about to write sent or to set the dedup key got the success from the
vendor or from a delivered row.

*Cancellation.* Only `Gate` leads to `Send`, and it passes a running campaign
only; this needs typing and no further invariant.

*Create.* `AdmInv` adds what requests in flight may rely on (`CallsKnow`): a
request on its second look-up finds a row, since nothing deletes campaigns, and a
request repeated after a success is still at its first look-up, where the row it
asked for is waiting; so neither the template nor the quota can refuse it.

*Managers.* A guard decides on what it reads and the write comes later.
`AloneIsSound` says that a decision nobody overlapped is still right: no other
request is in flight, hence nothing it read has changed. Then each kind of change
keeps a manager: the guard counted one more manager than the change removes
(cardinalities of `Managers` and `EnabledIn`), or the change removes none.

*Sessions.* `VersionCounts`: session_version is one more than the number of
changes. This rests on the UPDATE incrementing the stored number; with the number
the request had read, two changes at once would count as one and a cookie between
them would be accepted again.

*Suppression.* `Alone` says which requests work on which entries, `Knows` what a
request and a rebuild in flight have established of the entries they have had to
themselves since they began (`clean`): for those, what is still to be written to
the sets is what the table says.

*Templates.* Version and revision of a write are one more than what was read, and
the WHERE clause tests the version, so what a request has read is still the row as
long as its write can succeed. The snapshots, those written and those a request
has still to write, form a function from revisions to contents.

*Preferences.* Each value on its way to an answer, in the cache or in a reader's
hands, carries the time it was read at, and the row has said it at that time or
since; the history keeps until when each value was in the table. The log's part
has the shape of the suppression list: one request at a time on a field that is
not in doubt.

*Publication.* A request that is in flight when the campaign is published may still
write what it read before; the property excepts what happens after two requests
overlapped in this way (`admRaced`). Every other request reads a status that is not
draft, and its handler returns.

*Segments.* The count is what the same request counted after its own change. For the
walk: after n full pages of a list that nobody changes the users found are its first
n times page-size members, by induction over the pages as the steps of the model, not
over the list.

*Badge.* The last event in a client's channel, or the one on the wire before it,
carries the number of unread rows; excepted is who has changed the rows and not yet
published. A channel that is full drops the event and the doubt stays on the stream.

*Seeding.* Of a code in a role's definition one of four things is true once role and
code are there: it is granted, an administrator took it away, it was left open, or a
process has still to grant it, while it fills the role or because it inserted the
code itself. The last is never true of a code that was taken away, since whoever
inserted it before has granted or lost it and the change marks the code if not. Who
fills the roles knows every code, who replaces a role's codes has read all of them, or
the code is left open: that is where two processes could have undone each other. A
role that is not there is with a process that creates it or its accounts are left
open, so the viewer's role that replaces a missing one never counts. Nobody seeding
means that no process holds anything, which gives the property.

*Buckets.* The debt, grants less what was earned since, and the tokens in the bucket
together never exceed the burst. A request that computed a lower rate refills less
than was earned. A key that expired was not touched for 120 s and had filled up.

*Frequency windows.* The counter of a key that has not expired is the number of sends
let through since its window began (`Windowed`): the script sets the expiry with the
first increment and no other, so whatever was sent before lies before the window. All
keys are tested before any is incremented, in one script, hence a refusal counts
nowhere. The sends are a set of numbered events, so that the next one adds one to
its cardinality.

*Exports.* The records that were there at the start and are missing from the file
are behind the last id of the run: a page takes the smallest of those behind it, and
only an empty page ends the run. The slots are counted by the runs under way
(`SlotPerRun`), whichever statement ended them.

*Trace events.* Accepted events are in the channel, in hand, stored or failed;
handlers have returned before Close, and the loop leaves when the channel is
empty after it was closed.

## 6. What is only model-checked

- Liveness (`ShardsFinish`, `ClosesOrUncounted`, `RetriedCloses`, `SplitEnds`,
  `EntrySettles`) is out of the prover's reach.
- The failing runs' properties (`VerdictMatches` and the others of section 3) are
  refuted by TLC, not by a proof.
- Outside `Steady`, `OneCopy` and `Undisturbed` the properties of the split and of
  the delivery are checked under the bounds of `split_faults` and `delivery_all`
  only, which admit some of what the hypotheses exclude.

## 7. Abstractions

- A failing statement is one that was not applied; one that was applied and
  reported an error is covered by a crash after the step.
- A shutdown is a crash: goroutines stop at any statement.
- A page is "a page with eligible users": sampling, exclusion, blacklist and
  channel intersection decide which pages have some.
- The main loop of a process that waits for splitSem is an additional slot.
- In `Delivery` the status "running" stands for every status the gateway lets
  pass, "suppressed" for the four statuses of IsSuppressedLike, `recent` for what
  the 300 ms cache may still return. `Gate` merges the forced read with the first
  read of doSend right after it. The modes conditional and cost_priority resolve
  to single or fallback over the channels they select and order.
- A vendor that reports a failure in a receipt withdraws its acceptance; one that
  lets a call time out may have accepted it.
- In `CampaignRetry` a shard carries one user, the retried users fit into one
  shard, and the gateway's answer for a user is sent or failed.
- In `CampaignAdmin` what campaignRequestMatches compares is one digest, into which
  the segments of the request are already resolved; the scheduler and Cancel appear
  as the status going on (`AdmProceeds`).
- In `TemplateCenter` title, body and channel contents are one content; in
  `PreferenceCenter` a field is opted out or not, and the consent log is reduced to
  its latest entry per field.
- In `AccessControl` a role holds rbac.manage or not. What logins do with the
  enabled flag and the version is in `UserSessions`, which takes a change as
  decided and models its write.
- In `ChannelLimits` the clocks of the processes agree, time is in ticks and tokens
  in units, and every bucket of the instance refills within the 120 s after which
  its key expires (see section 8). The shares of the priorities are fixed rates.
- In `SegmentAssets` ids grow with insertion, as auto-increment keys do, and a
  dynamic segment's rules are left out.
- In `SegmentAssets` BulkUpsert is one step, although it writes 500 rows at a time:
  the states between two batches are those of a shorter import. In
  `SuppressionList` BulkAdd is one step; its batches of 500 share a transaction.
- In `AuthSeed` all processes are of one version, an administrator changes one code
  of a role at a time (the guards of UpsertRole are in `AccessControl`), and the
  one-time migration of the old override files, which is skipped in a database
  without them, is left out.
- In `ExportJobs` the file has its contents at Flush, and an export of failures,
  which lists the 200 most frequent ones, has no records to miss.
- Template rendering errors, experiment groups and formatting are left out.

Not modelled, and why:

- *retry policy, send windows, ramp-up, cron*: pure functions of a time or an
  attempt with table tests of their own; `Delivery` takes their answers as
  nondeterministic choices. Nothing reads the ramp-up after it was validated and
  stored, and no service uses the cron schedule;
- *channel strategy*: pure selection and ordering; `Delivery` takes its result as given;
- *other queues*: `memory.go` lives in one process, `rocketmq.go` wraps a client
  library, the priority router picks a stream by a message's priority;
- *vendors, webhooks, HTTP handlers, configuration, logging, web console*: I/O and
  wiring around the services modelled here;
- *progress, lists, synchronous exports, estimates, dry runs, test sends*: they
  read, or answer without changing a campaign.

## 8. Other deviations seen in the code

These were met while modelling and have no run of their own. Paths are under
`internal/`.

Pipeline:

- `scheduler/aggregator.go:143`: when Redis lost the counters, the verdict falls back to
  user counts that receipts may not have filled yet.
- `adapter/repo/task.go:636` ReleaseSubTask does not test worker_id.
- `scheduler/worker.go:190`: a process takes over its own stale lease; both of its
  goroutines pass every owner test and may split the same pages.
- `scheduler/worker.go:233`: a late splitter fails a campaign that has been opened, since an
  empty split_owner is not taken for a lost lease.
- An old splitter that clears the lease leaves the campaign without a splitter
  when its compare-and-set to failed has missed.
- `scheduler/worker.go:246`: a splitter that gives up writes the inbox message that the
  campaign failed (`Tell`) whether or not that compare-and-set changed the row. A campaign
  paused after the splitter's last read stays paused, is reported as failed, and can be
  resumed, where `scheduler/aggregator.go:245` speaks of a campaign that reached a final
  status. No property covers the inbox message of a splitter.
- `adapter/repo/task.go:224` re-splits campaigns that have shards as long as
  sub_task_total is 0, where README.md:1035 of the repository says they are not.
- `app/campaign/service.go:1111` (realignCounters): SummarizeSubTasks may count a
  shard a worker has just finished, and that worker then counts it again; the
  campaign is closed with a shard still pending, where docs/创建活动主流程.md:259
  has it close when all shards are in the queue. Two calls of Retry at once have
  the same effect. `RealignedClose` and `RetriedCloses` except these overlaps.

Delivery:

- README.md:1117 says that paused messages stay pending until the campaign is
  resumed; they are buried after DeferredMaxAge (24 hours by default).
- Errors of UpdateRecordStatus are ignored for every outcome but success: the
  message is acknowledged and its row stays sending (`unrecorded`).
- Marking a cancelled or expired message skips a row that is in flight, so the row
  of a crashed handler stays sending.
- A message whose row a crashed handler left in flight may use up its deliveries
  (five, 30 s apart by default) about when the row becomes stale (two minutes),
  and be buried.
- `push/gateway.go:793`: "delivery in progress" counts as a failure of the channel,
  so a redelivered message is sent on the next channel of a fallback while the
  first still waits for its vendor; the comment at gateway.go:577 describes a
  fallback that stops at the first success.

Services:

- `app/campaign/ops.go:506` and `600`: UpdateDraft and Publish write by id alone. A
  second Publish in flight sets a running campaign back to pending, an edit in
  flight changes a published one (`admRaced`).
- `app/campaign/service.go`: the segments of a request are resolved before the
  look-up by biz_id, and its webhook target validated, so a repeated Create fails
  when its segment has been deleted or disabled, or its target refused, since.
- `app/template/service.go:226`: Delete removes the row by id after the status
  check; a submission or approval in between is lost with it.
- `app/preference/service.go:144`: of two requests in flight the later one undoes
  what the earlier one changed, though the comment at line 137 says that only the
  fields of the request are written (`prefDoubt`).
- `app/segment/members.go`: of two requests in flight the one that counted first may
  store its count last; the next import, clearing or refresh repairs it (`segDoubt`).
- `app/segment/suppression.go`: a rebuild adds rows that are deleted while it runs,
  and removes nothing; a repeated removal repairs the set (`supDoubt`).
- `auth/session.go`: two role moves or disablings at once may both find a second
  manager, and a failed read of a role's permissions skips the guard (`accDoubt`).
- `auth/session.go`: a login that has checked the password before a change, and
  reads the row after it, gets a cookie of the new version (`crossed`).
- `auth/seed.go:97`: syncBuiltinPermissions inserts the codes of a new version and
  grants, in later statements, only what the same run has inserted. A process that
  stops or fails in between leaves codes that no later start grants to any built-in
  role, admin included, though the comment at seed.go:25 and the test at
  seed_sync_test.go:63 promise the grant. Two processes that start at once can do
  the same to each other without a fault: one lists the missing codes, the other
  inserts one of them first, and the first one ends with a duplicate key. `SeedHolds`
  excepts the codes concerned (`sedUnsure`).
- `auth/seed.go:126`: the permissions of a role are replaced by what was read plus
  the new codes, so a change made in between by an administrator or by another
  seed is undone (`sedUnsure`).
- `auth/seed.go:159`: of two first starts at once one may fill the roles from a
  catalogue that the other is still inserting; the codes that come later are not
  granted. A stop among the roles leaves some of them out for ever (`sedUnsure`),
  and `seed.go:234` makes an account a viewer when its role is not there yet or
  cannot be read, the first administrator included (`sedSkipped`).
- `app/campaign/ops.go:814`: after thirty minutes the statement that marks the job as
  failed has the same expired context; the job stays running, as do jobs under way
  when the process stops.
- `cmd/pusher/main.go:132`: os.Exit runs no deferred call, so a pusher that ends by a
  consumer's error loses the events in its buffer.
- `adapter/redis/quota.go`: a bucket's key expires after 120 s and is then full; a
  bucket that needs longer to refill grants a whole burst early.
- `handler/notification.go:92`: a stream counts before it subscribes and misses what
  is published in between; when that count fails, nothing is sent and the stream is
  subscribed all the same (`ntfDoubt`).
- `domain/message.go:189`: the comment says that ramp_up raises the enqueue rate; it is
  validated and stored only.

## 9. Plan

Done: the pipeline, Retry on top of it, the split, the delivery, and the services
around them; every safety and action property of a passing run is a theorem, those
of the split and the delivery under the hypotheses of section 5. What is left, in
this order:

1. *Rules*: retry backoff, send windows and channel ordering as operators against
   reference definitions over bounded inputs.
2. The receipt's search of its row by provider_id, and progress with its reading of
   Redis and MySQL.
