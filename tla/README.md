# SafeDrive in TLA+

SafeDrive encrypts files into "envelopes" (a directory whose encrypted name
carries the file's name, size and secret) whose content is cut into *volumes*
(objects) on a storage provider, and serves them back over HTTP: a download
plans its range as *chunks*, fetches several at once from the volumes, decrypts
them, keeps their ciphertext in a block cache and delivers one ordered body.
This directory models the parts of the Rust backend (`src/src/`) where order,
concurrency, failure and arithmetic decide whether the caller gets the right
bytes, and the ones that talk to the cloud drives: path and link caches, tokens,
retried uploads, shares. TLC checks them on small instances; TLAPS proves the
safety of some of them for every instance ("Proofs").

## The system

| component | code | state it keeps | operations | model |
| --- | --- | --- | --- | --- |
| Download scheduler and serializer | `engine.rs` 530-918 | fetch tasks, a bounded channel per chunk, `active`, `active_per_volume`, `outstanding`, the response channel | start, fill window, reap a completion, receive, send on, advance, abort and join | `StreamScheduler`, `OrderedStream` |
| Range parsing and planning | `engine.rs` 103-252, `files.rs` 1693-1713 | none | `parse_range`, `plan_chunks_with_head_count`, `load_layout` | `RangePlan` |
| Chunk fetcher | `engine.rs` 962-1365 | position, attempts, output batch, cache batch, keystream | one range request with retries, cache reads, cache writes | `FetchChunk` |
| Adaptive concurrency, learned limits | `engine.rs` 260-540 | `current`, probe state, learned profile | observe failure, delivered | the limit in `StreamScheduler` |
| Persistent block cache | `cache.rs`, `engine.rs` 404-438 | `file.bin`, `meta.json`, `bitmap.bin`; entry with bitmap, parts, generations | open, cached ranges, write range, persist bitmap, drop, clear | `BlockCache` |
| Upload pipeline | `engine.rs` 1406-1655, `files.rs` 43-75, 1414-1592 | the volume in hand, pending puts | make directory, cut, put, wait, clean up | `UploadPipeline` |
| Path resolution and path cache | `files.rs` 207-450, 745-1130, `vault.rs` | path -> node cache, the mkdir lock, the set of paths being uploaded | resolve, list, ensure_dir, upload, rename, delete | `Namespace`, `DirectoryTree` |
| Stream layout cache | `files.rs` 1794-1828, `state.rs` | layouts for five minutes, probe locks | probe once, reuse | planned |
| Copy and move | `routes/copy.rs`, `webdav.rs` 275-360 | the file and volume in hand | plan, remove the old destination, copy or re-encode, clean up, delete the source | `CopyMove` |
| Data source registry, settings | `registry.rs`, `settings.rs` | list in memory and JSON on disk | update, save, rotate credentials | `Registry`; settings planned |
| Root password migration | `routes/ds.rs` 344-463 | `prev_password`, root envelopes | update, migrate | `Registry` |
| Leaf naming, disguise headers | `naming.rs`, `disguise.rs` | none | name, resolve, header length | in `UploadPipeline`, `FetchChunk` |
| Cache warming | `files.rs` | one detached task per path | begin, stop | planned; its stream is mode "warm" |
| Drive adapters: files | `adapters/aliyundrive.rs`, `adapters/quark.rs` | `PATH_IDS`, `DOWNLOAD_URLS`, shared by all requests | list, read, mkdir, rename, delete, put, rapid upload | `RemoteTree`, `PathWalk`, `AliyunDrive`, `QuarkDrive` |
| Baidu adapter: transfers | `adapters/baidupan.rs` | `UPLOAD_SLOTS`, cached links, host health | spool, precreate, send blocks, create; locate, race, retry | `BaiduUpload`, `BaiduLinks` |
| Credentials | the three adapters, `aliyun_web.rs`, `aliyun_apps.rs`, `state.rs` | `TOKENS`, `TOKEN_LOCKS`, `COOKIES`, the record | use, renew, persist, repeat a request | `Credentials`, `AliyunTokens`, `BaiduTokens`, `QuarkCookies` |
| Login by QR code | `routes/aliyun_qr.rs`, `routes/baidu_qr.rs`, `SourceModal.tsx` | the code on the page | create, poll, exchange | `QrLogin` |
| Sharing and import | `routes/share.rs`, `share_codec.rs`, `import_share` | the link and what was taken over | export, transfer, rename | `Shares` |
| WebDAV, localfs and webdav adapters, other routes | `routes/webdav.rs`, `adapters/` | none | translate requests | MOVE and COPY in `CopyMove` |
| Crypto and name envelopes | `crypto/` | none | ciphers, codecs | keystream offset only |
| Transfer statistics, start-up, frontend | `transfer.rs`, `main.rs`, `web/` | counters | display | not modelled |

**How they interact.** `stream_file` resolves a path to an envelope, probes its
layout (list the leaves, compare their total with the size in the envelope),
parses the Range header, and starts the scheduler. The scheduler spawns one
fetch task per chunk; a task and the serializer share only the chunk's channel
(plaintext) and the completion channel (one record per task). Fetch tasks share
the cache entry of the file with the tasks of every other stream on it.
`upload_file` makes the envelope, runs the pipeline, deletes the envelope on
failure, and only then puts the path into the path cache; a reader may list the
envelope at any moment in between. Every request makes an adapter from the
record of its data source; what the adapters of one account share is global:
tokens under a lock per account, ids and links of paths, the permits of
uploads. A renewed token goes back to the record through the persister of
`state.rs`, whose other writer is the settings page (`Registry`).

**What is hard, and what makes each part correct.**

* *Scheduler.* Chunks finish in any order, completion records arrive before or
  after the data, counters are decremented by hand on two paths, a window and
  two concurrency limits can starve the one chunk the client is waiting for,
  the client may leave at any point. Correct: the body is the range in order
  and whole unless it ends in an error; the limits hold for the tasks
  themselves; counters equal what they count; the window always holds the chunk
  waited for; nothing is started or delivered after the end; every response ends.
* *Fetcher.* Cache hits, misses, retries, timeouts, short and long answers in
  any mixture. Correct: each byte delivered comes from its place in its object
  and is decrypted at its own keystream offset; the cache gets ciphertext at the
  offset it belongs to; at most four attempts and no byte asked for twice.
* *Cache.* Two locks with a gap between them, a flush that snapshots under one
  lock and renames under another, entries that outlive a clear, crashes between
  any two file operations. Correct: a hit means the bytes are there, in memory
  and after a restart; nothing covered is forgotten; a flush never goes back.
* *Upload.* Overlapping puts, late responses, short objects, cleanup that fails,
  requests that vanish. Correct: nothing but a whole file is readable; success
  means readable; no put outlives the reply; the pipeline ends.
* *Paths.* A path is resolved by a chain of listings, the first of them saved by
  a cache; every answer may be old when it is used, others rename and delete the
  ancestors meanwhile, check and creation are two calls. Correct: one request
  after the other does exactly what it would on a plain tree, whatever is
  cached; a request acts on a node that was at its path while it ran; two
  uploads into a new folder make one folder; a path that is there is found.
* *Copy.* Three ways a file may go, each with its own checks; the destination is
  removed before the copy is planned; source volumes are zipped with destination
  names; a directory fails in the middle. Correct: success means whole files; a
  move never deletes what is not whole elsewhere; nothing protected is replaced.
* *Record and root password.* Handlers, the adapter's token refresh and uploads
  change one record and one root directory; a password change is a saved
  transition, a listing, a rename per envelope and a second save, any of which
  may fail. Correct: every envelope opens under one of the recorded passwords;
  the record holds the last token its provider gave.

* *Drives.* A path is walked folder by folder over ids other requests have
  remembered; the object found is used later; answers are lost after the change
  took effect. Correct: a remembered id is what its path names, an answer Ok
  means done, no call changes anything outside its paths, and a file that can
  be listed is whole.
* *Credentials.* Requests find a token dead at once, refresh tokens work once,
  the process may end between provider and disk. Correct: one renews for all,
  nobody is refused without a cause, and the record that renewed a login last has
  its last token on disk.
* *Baidu.* Blocks and volumes are sent again, futures are dropped anywhere, two
  hosts race for a range while links are withdrawn. Correct: Ok means stored,
  permits come back, links are located once per need, reads fail for a cause.
* *Shares.* The cloud renames what it takes over, in parts, while others import
  and the sharer goes on. Correct: links open, imports that answer Ok are whole,
  nothing else is renamed, what is shown as managed can be found and decoded (the
  code checks only the second).

`PROJECT.json` lists every hazard at its line with the properties that guard it.

## Modules

| module | stands for | how state and actions correspond |
| --- | --- | --- |
| `OrderedStream` | what a download promises | `body` grows by exactly the next unit; ends as "eof" only when whole, as "error" before, or "gone" |
| `StreamScheduler` | `stream_range_cached_mode` with `spawn_one`, `fill_window`, `abort_all` | one variable per local of the function (`active`, `outstanding`, `perVol` = `active_per_volume`, `limit` = `adaptive.current`, `opened` = `client_window_opened`); `pc` is the await the serializer is at. `Start`/`FillDone` is one iteration/the end of `fill_window`, `Reap` the `finished_rx` arm, `RecvItem`/`RecvFailure`/`Advance` the chunk arm, `SendItem` the send, `CloseBody`, `SendError`, `NoticeGone` and `Finish` the ways out; `FetchItem`, `FetchGiveUp`, `FetchReport`, `FetchPanic`, `FetchStopped` are the fetch task seen through its channels |
| `RangePlan` | `parse_range`, `stream_file`'s bounds, `plan_chunks_with_head_count` | operators and recursive functions, with the reference `Requested` (set of bytes an RFC range asks for) and `Home` (volume and offset of a byte) |
| `FetchChunk` | `fetch_chunk`, `append_output`, `flush_output_batch`, `flush_cache_batch`, `split_cache_segments` | the state that decides one chunk: position, segment, attempts, batches; `pc` names the await; a byte is the pair of the object offset it came from and the keystream offset it was decrypted with |
| `BlockCache` | one key of `CacheStore` with its `CacheEntry`s and `CacheWriteback` | `dir`/`data` are the files, `entry` the objects in memory, `spc` where each stream is between the locks of `open`, `write_range` and `persist_bitmap`; `Crash` keeps the files only |
| `UploadPipeline` | `volume_plan`, `upload_file`, `upload_stream_planned`, and the reader's `resolve_leaves`, `load_layout`, `check_layout_total` | locals `vol` = `vol_idx`, `sent` = `sent_in_vol`, `received`, `pending`; `put`/`chan`/`eof` are the spawned puts and their channels; `folder`/`objects`/`stored` are the storage |
| `CopyMove` | `copy_path`, `copy_node`, `copy_file`, `plan_source`, `remove_existing`, `plan_dest`, `copy_object`, `copy_foreign_node`, and `move_copy` across data sources | `task` is the request with what the source holds; `pc` the await of the file in hand: `plan`, `remove`, `dest`, `volumes`, `clean` carry volumes over, `open`, `replace`, `upload` re-encode, `fcheck`, `fcopy` take foreign objects; `Indexed` is whether the leaf template of a data source tells volumes apart, `Put` a put under it; `dest` is what lies at each destination, `cached` the path cache entries there |
| `DirectoryTree` | what the file operations promise | a set of plain paths; `Succeeds` and `After` of each operation in one step |
| `Namespace` | `find_child`, `resolve`, `resolve_cached_dir`, `locate_any`, `list_dir`, `ensure_dir`, `upload_file` up to the envelope, `rename_path`, `delete_path`, `PathCache`, the mkdir lock | `disk` holds encrypted paths: a name is what it decrypts to and the key (secret of the parent) that opens it; `cache` is `PathCache`; `call` is a request, `pc` the await it is at, `stage` what it resolves the path for. `Answer` takes the listing, `Descend`, `Leaf`, `EnsureNext`, `ListChildren` use it later; `Lost` is the retry of `resolve_cached_dir`; `Create`, `Discard`, `Rename` change the storage; `Fail` is any failing call, `Others` other programs. `came`, `again`, `seen`, `alone`, `before` are history for the properties |
| `Registry` | `Registry` (`update`, `preserve_live_credentials`, `update_credentials`, `save`), `update` and `migrate_root_envelopes` of `ds.rs`, the root key an upload takes | `memory`/`file` are the record in the mutex and on disk: `password`, `prev` = `prev_password`, `token` = a rotating field, `seed` its `...Seed`; `task` is an update with the locals it keeps (`old`, `previous`), `pc` the step before which it can be interrupted: `transit`, `list`, `rename`, `save`. `Rotate` is `update_credentials`; `BeginUpload`/`EndUpload`, `Delete` change the root meanwhile. `stray`, `mixed`, `stale` record the exceptions |
| `RemoteTree` | a drive that names objects by id | `tree`: each id's state, parent, name, parts; ids are never reused |
| `PathWalk` | what the two drive adapters have in common: `folder_id_from`, `list_folder`, `stat`, `download_url`, `trash`, `upload_parts`, `evict_path_ids` | `cur` is a request, `pc` its await; `leg` what it walks for (`root`, `main`, ...), `at`/`pre`/`rest` the walk; `pathIds`, `links` the global caches; `doubt` the paths whose last change was never confirmed |
| `AliyunDrive`, `QuarkDrive` | the operations that differ: making a folder, moving, writing, rapid upload | actions over `PathWalk`; Quark renames in two requests, looks again when a folder exists already |
| `Credentials` | provider, record, disk, process of one account | `live` is `TOKENS` (or what an adapter holds), `record`/`saved` the registry, `cur` a request; refresh tokens are pairs of login and number; `owed` is history: the data source whose record is to hold the last token of a login, or one of four `Reasons` why nobody has it; `older`, `unsaved` record two more exceptions |
| `AliyunTokens`, `BaiduTokens`, `QuarkCookies` | `access_token`, `call`, `WebClient`; `xpan_request`, `refresh_access_token`, `device_code_grant`; `call`, `absorb_cookies` | one action per await; `Lock` is the second look under the lock |
| `QrLogin` | the QR routes, `exchange`, `silent_grant`, the polling page | `code`, `given` at the provider, `shown`/`page` on screen, `poll` the request for each code |
| `BaiduUpload` | `upload_sized`, `upload_spooled`, `upload_block` | `volume`/`tries` are the two retry loops, `block` each block's future, `sem`/`free` the semaphore of the account, `confirmed`/`reported` progress |
| `BaiduLinks` | `locatedownload`, `download_response_tracked`, `get_range_tracked` | `links` the cached answer, `lock` the path lock, `read` a range read: `try` its round, `order`/`asked`/`lost` the race |
| `Shares` | `share_export`, `encode`/`decode_plain`, `share_import`, `import_share` of the drives | a name is item, key and a number the cloud adds; `dest` the directory imported into, `imp` an import, `wrong` in it the entries it took a wrong name for; a data source has its switches and its leaf template (`format`) |
| `MC...` | constants for TLC; `MCTransfer`, `MCDrives`, `MCCredentials` and `MCCloud` put several modules side by side, a behaviour being about one of them (`kind`, `drive`), the others' variables idle | plans, headers, files; symmetry where streams are interchangeable |
| `...Proofs` | theorems about `StreamScheduler`, `Registry`, `BlockCache`, `Namespace`; `TransferProofs` about `FetchChunk` with `RangePlan`, `CopyMove`, `UploadPipeline` and the whole of `MCTransfer`, `DrivesProofs` about `PathWalk` with both drives, `CredentialsProofs` about `AliyunTokens` and `QrLogin`, `CloudProofs` about `BaiduUpload`, `BaiduLinks` and `Shares` | see below |

Composition. `StreamScheduler` refines `OrderedStream` (`Abstract`, a refinement
mapping from the plan's first offset and length). `FetchChunk` EXTENDS
`RangePlan` and starts from every chunk of every plan it makes. The fetch task
in `StreamScheduler` is the outside of `FetchChunk`: items in order, then a
record, or a record after giving up. A stream in `BlockCache` is a fetch task's
use of the cache. `Namespace` is measured against `DirectoryTree` (`ExactAlone`);
`Create` is the whole of `UploadPipeline` seen from outside.

Operators such as `LimitHalved` or `CleanAndGoOn`, which nothing uses,
stand beside the definitions they are variants of: each is a plausible mistake
in that place of the code, and shows that the property paired with it in
`PROJECT.json` ("mutants") would notice it.

## Runs

| run | instance | shows |
| --- | --- | --- |
| `stream` | one or two volumes, plans of 3 and 5 chunks, 2 threads, 1 per volume, all three modes (88,000 states) | all safety properties, `QuietAfterEnd`, refinement of `OrderedStream`, and that every stream ends where the window feeds the head |
| `stream_bulk_volumes` | bulk download, two chunks in the first volume and three in the second | **violation** of the claim of `engine.rs` 592: the window fills with chunks of the second volume while the chunk waited for is not started |
| `block_cache` | two streams, blocks of two units, files of 3 and 5 units (a short last block), crashes (368,000 states) | hits are real, counts match, nothing forgotten, flushes durable and monotone |
| `block_cache_clear` | the same with clear while a stream writes | **violation** of `SettingsPage.tsx` 210: a bitmap of the removed file comes to describe the new one |
| `transfer` | fetches: volumes `<<4>>` and `<<2,0,3>>`, seven Range headers, headers of 0 and 2 bytes, every set of cached blocks, two attempts; uploads: files of 0, 3, 4 units, volumes of 1 to 3, even and random cuts, items of 1 to 3, two pending puts; copies: a file or a directory of up to two files of up to two volumes between any two of six kinds of data source (615,000 states) | plans are exact, each byte right, only whole files are readable, no put outlives the reply, a move loses nothing but files that do not fit, what is protected stays, fetches and uploads end |
| `copy_half` | the copies with one file | **violation** of `copy.rs` 321: half a file is copied and reported as a success |
| `namespace` | two requests at a time of thirteen, over six paths three levels deep, an empty tree and one of a directory, a directory and a file; three requests or changes by others, four if nothing overlaps (2.1 million states) | alone exact, no twin directories but by a rename, other programs or a directory the storage made again, nothing found that was not there |
| `registry` | two updates at a time and three in all, three passwords, two envelopes, two logins of three tokens (3.7 million states) | every envelope opens, the last token stays |
| `drives` | two of seven operations over five paths, three levels, six ids, one part of three tries, an Aliyun and a Quark drive, caches empty or full at first (804,000 states) | remembered ids are right, Ok is done, only the paths of a call change, listed files are whole |
| `drive_roots` | two data sources of one account, one rooted at the top and one in a folder | **violation** of `aliyundrive.rs` 200: ids are shared between roots, and a call acts on an object of the other |
| `credentials` | two requests, two data sources, two adapters, two logins, three grants; two QR codes (8.6 million states) | refusals have a cause, the record that renewed has the last token on disk, one renews for all, a code is exchanged once |
| `cloud` | two uploads of three slices and one under two permits, two tries; two reads over two hosts, three answers of links, two reads per range; two items with two keys imported twice at once between three kinds of data source, from listings that show any part of what came (3.8 million states) | Ok is stored, permits come back, links are located once, reads fail for a cause, links open and decode, imports are whole and touch nothing else |

**Bounds.** `T`, `P`, `MaxSplit`, `ChanMin`, `ChanMax`, `OutCap` stand for the
settings and the constants 8, 128 and 8: with two threads and one per volume
every limit is reached, refused and released; a plan of five chunks is longer
than the window of three, so the window fills, moves and empties; lengths 1 and
2 against channels of 2 leave chunks inside their channel, and `LargeChunk`
leaves one outside. In `FetchChunk` blocks, batches and splits of 1 to 3 bytes
put every boundary (volume, chunk, block, batch, answer) before, at and behind
every other. `Attempts` is 2 for 4: a first attempt, a retry and the end of
retries. In `BlockCache` two streams are enough for both critical sections to
interleave and for a flush to overtake a flush; sizes 3 and 5 with blocks of 2
give one and two full blocks and a short one, and a changed size. `block_cache`
explores up to the moment a directory is removed under an open entry (CONSTRAINT
`NotOvertaken`), because the properties say nothing behind it and
`block_cache_clear` looks there. `MaxPending` is 2 for 4. In `CopyMove` two
files let a directory fail after one of them, two volumes let a file fail after
one; the six kinds of data source cover both values of every test in the code (`managed`,
volumes, the comparison of encryption and disguise, whether the leaf template tells
volumes apart); a switch of disguise beside encryption would make no pair that goes
another way. `NothingLost` leaves out the files that `copy_half` is about (`Unfit`):
carried over volume by volume to a plain data source, or to one with disguise only,
where `leaf_names` repeats one name. In `Namespace` the thirteen requests are those whose
paths meet: each changes what another resolves, renames go up, down and across,
over free and taken names. Three overlapping calls let two interleave over what
a third cached; four in sequence fill the cache, move what it names, and use
both the old and the new path. The error "缓存缺失" of `enc_path_of` (`Gap`) needs a
hole two levels above a cached pair, which no sequence here leaves. A name made
during a run may sort before or behind every other (`Fresh`), because names are
encrypted under random secrets. In `Registry` three passwords are an old, a new and
another; three updates let one fail, one retry it and one overlap; three tokens
of a login are the first, one between and the last, which is what
`preserve_live_credentials` can and cannot tell apart. `registry` explores up to
the first exception (CONSTRAINT `Regular`); what a property still says behind
the other one's exception is proved. In `drives` two calls put every step of one
between two steps of the other; `Apart` keeps those apart that the code does not
order (a path one changes and the other uses), and paths in `doubt` for the five
minutes a lost answer leaves them uncertain; a rename goes to a free name that
is not inside the renamed folder, a folder is not made where a file is, and the
provider refuses to move onto a taken name. `credentials` explores everything
within its bounds: two logins, of which the second is the user's next, and three
access tokens, so that one is renewed twice. In `cloud` a host that did not fail lately
is as good as any other (the score adds latencies), two tries stand for three, and what
an import finds in the directory is at most one entry, the shared one itself or one an
earlier import brought (`ShareInit`). Two items and two imports let one land under
the number the cloud adds to keep names apart, and be taken for the other.
`BlockCache` numbers entries and inodes from
finite sets large enough that one is always free.

**Fairness.** A fetch task always moves: its waits on storage are under start
and idle timeouts, there are four attempts, and its sends end when the channel
is drained or dropped; hence weak fairness of each task. The serializer is one
task the runtime schedules: weak fairness of `Serialize`. The caller reads on
(`ClientTake`), or leaves, which needs no fairness: hyper drops the body when
the connection breaks. Panics, failures and leaving are never fair. For
`TransfersEnd` the channel of a fetch is drained or closed (whether it is, is the
scheduler's business), the body of an upload goes on or breaks (the connection
decides, the code has no timeout of its own there), and a storage answers a put
whose stream has ended; crash and abandonment are never fair.

## Proofs

`StreamSchedulerProofs` proves, for every set of plans, every limit and every
channel size that satisfies `PlanAssumption` and `LimitAssumption` (plans are
non-empty gapless sequences of non-empty chunks, limits are positive):

* `TypeCorrect`, `CountersCorrect` (`CountersMatch`),
  `LimitsHold` (`ConnectionLimits`), `InOrder` (`BodyInOrder`), `HeadFed`
  (`WindowFeedsHead`), `Quiet` (`QuietAfterEnd`), and `Refines`: the scheduler implements `OrderedStream`.

None of these is inductive alone. The invariant `Inv` joins five parts:
`CursorInv` (what the serializer's place says about head, counters and status),
`TaskInv` (how far each task is, and that chunks before the head are whole),
`BodyInv` (the body is the chunks before the head and the units received of it,
less the one in hand), `BoundInv` (limits and window) and the two counter
equations. A saturating subtraction is a real subtraction only because the
counter equals a cardinality that contains the element removed, which is why the
counters must be in the invariant. `GapInv` says that in playback the chunks held lie within
T of the head, because the scan reaches no further, and that with one volume or
with max_threads <= max_per_volume the chunks started are a prefix of the plan,
because no chunk is ever skipped for its volume's sake; either way T + 1 chunks
cannot be held without the head among them. Each part is preserved
by one lemma with one step per action (`TypeFetch` and `TypeSerialize`, `TaskStep`,
`CursorStep`, `CountStep`, `BodyStep`, `GapStep`); `Invariance` combines them with PTL.

The refinement maps `first` and `total` to the plan; `SendItem` is `Deliver`
(from `BodyInv`), `CloseBody` is `End` (the chunks before N + 1 are all of the
range, by the telescoping sum in `ChunksBeforeEnd`), `SendError` is `Fail`, `NoticeGone` is
`Leave`, and everything else stutters.

`RegistryProofs` proves `TypeCorrect`, `EnvelopesStayOpen` (`EnvelopesOpen`) and
`LastTokenKept` (`TokenIsLast`) for every set of passwords, envelopes and
handlers and every number of logins, rotations and updates
(`RegistryAssumption`). `EnvelopesOpen` alone is not inductive: a `Finish`
forgets the old password, so what matters is that nothing is under it any more.
`Open` says of every update under way that each envelope not yet under its new
password is still `Ahead` of it (to be listed, or listed and to be renamed), and
that updates under way agree on the password. `TypeInv` adds `Twofold`: the two
passwords of a record differ, or a retry would wait for envelopes of its own
password. `Kept` adds to `TokenIsLast` that the seed is the first token of its
login and that later logins are unused: a sound token that is neither stored nor
seed can then only be the first of a later login (`SubmittedKept`), and becomes
its own seed.

`BlockCacheProofs` proves `HitsAlwaysReal` (`HitsAreReal`), `LastOneStores`
(`Durable`) and `NoRollback` (`NeverRolledBack`) for any number of streams, sizes of
a file and sizes of a block (`SizeAssumption`, `StreamAssumption`). All three are
promises that end when a clear overtakes a stream, so the invariant is `Shape` and
`Turns`, which always hold, and `Quiet`, which holds until then: the registered entry
is the one every stream holds and stands for the directory (`Registered`); what is on
disk is part of the snapshot a flush has in hand, that part of what is in memory, and
that part of the data (`WholeOnDisk`, `WholeInMemory`, `InHand`); one stream flushes
at a time (`OneFlush`). `Durable` needs one fact more, `Pending`: as long as the
bitmap on disk lags behind memory, some stream has yet to pass the flush that brings
it. A last flush that finds its generation passed gives that promise over to whoever
raised the generation, and this is where the order of `SetBits` and `Snapshot` counts.
The constraint `NotOvertaken` of the run is not needed here, nor is `Regular` of the run
`registry` above.

`CountsAreRight` (`BlocksCounted`) holds whatever a clear overtakes. Its invariant
(`CountInv`) says of every entry that `bytes_cached` is the sum over the marked
blocks, where the sum is `Cardinality` of their units, and of every flush that the
snapshot in its hand is part of the bitmap it was taken from (`SnapsLag`). Sizes are
numbers of 64 bits in the code, so `SizeAssumption` asks for finitely many.

`TransferProofs` first proves `FetchedExactly` (`BytesExact`): whatever is cached, cut,
late, short or repeated, every byte handed to the player or to the cache is the one of
its place, for every layout, header, Range, split, block and batch
(`FetchAssumption`, `SplitAssumption`). The plan is a loop of turns
(`Turns`, as the code's `while`): the chunks made so far follow one another and lie in
their volumes (`Pushed`, `TurnOK`), the last turn has no byte left. The fetch keeps what is
delivered and what waits in either batch as runs of bytes (`Stretch`): a run of bytes at
their places stays one when it is cut, glued or split at a block (`StretchCut`,
`StretchGlued`, `Halves`). `FetchInv` says that output, batch and position follow one another.

It then states the properties of the run `transfer` for every instance
(`TransferAssumption`). `PlansAreExact` (`PlansExact`) adds that the volumes of
an upload have the size of the file with its headers: the limits of `volume_plan` are
positive, an even cut rounds up and a random one leaves a positive rest (`EvenCuts`,
`RandomCuts`, `PlansFit`). `PutsAreAwaited` (`PutsAwaited`) and `ReadersFindWholeFiles`
(`WholeOrNothing`) rest on `UpInv`: what went into the channel of a put is the cut of
the file that belongs to the volume (`Cut`), a stored object is that cut or a part of it, a
volume that was opened is in hand, pending, done or failed, and failure removes the
folder or leaves it recorded as residue. That the reader's total is right makes every
object whole, as none is longer than its plan and a hole would have to be made up for
(`SumsCompare`). `CopiesLoseNothing` (`NothingLost`) and `CopiesKeepExisting`
(`KeepsExisting`) rest on an
invariant that follows a file: its destination is empty once it was cleared, then holds
the first volumes in order (`FirstVolumes`), and as many as the source has when
`Zipped` is reached, because a file with a hole never gets so far; files before it
are whole (`Behind`). A file that finds too few names
(`Unfit`) is excepted: at a plain destination `Zipped` is less than the source has, at one
with disguise only every volume is put in the place of the one before.

`NamespaceProofs` proves `TwinsOnlyCame` (`TwinsCame`, which includes the type
invariant) and `FoundAlwaysWasThere` (`FoundWasThere`) for any clients, paths and
requests, any number of calls and any storage to start with that is `WellMade`
(`NamespaceAssumption`, `TreesAssumption`: each directory leads to its entries, keys
and secrets fit, no directory starts with two entries of a name). Nothing in either
rests on the cache being right, and the invariant `NamesInv` says so little of it that
this can be read off (`CacheOK`: a cached node has the name of its path). What carries
`TwinsCame` is the lock and the secrets. Whoever makes a directory holds the lock, and
the listing it goes by, though old, showed every directory that is under its key now
and that did not come by a rename or from another program (`Listed`): a new one would
have had to come from a holder of the lock. That two directories in one place are under
one key is by construction of a name; that the listing was of the same place is not,
because a renamed directory keeps its secret and with it the key of all below.
Secrets are therefore unique among the nodes of the storage (`Uniq`), so a key has one
place at a time. One thing breaks this: `mkdir` and `rename` make missing ancestors
(`create_dir_all`), so a request that resolved its parent before a rename away from
there makes the old name again, and two directories share a secret. `again` records
these. `FoundWasThere` adds `ReadSaw`: the node a read has at hand was on the storage, at
the path of the read, while the answer of the last listing was taken, since the last
segment is never taken from the cache and a child is listed only under a node that is
there, with its names (`SeenStep`).

An earlier form of `TwinsCame` made no exception for `again`. It is false at five calls,
two more than the run explores, and the attempt to prove it is what showed that: rename
a directory away, let a late upload make it again, delete the one and rename the other
back while `mkdir` is between its listing and its request.

*Sums and loops.* `SumTo`, `Offset` and `Turns` are recursive functions, and the
library's induction theorems take an operator the provers cannot instantiate. The
lemma `Induction` of `TransferProofs` says the same of a set of numbers (a set with 0 and
the successor of each of its members has all of them); it follows from the
theorem of `WellFoundedInduction` about sets. `SumsExist` and `LoopsExist` construct
the function from its finite approximations, after which `SumToIs`, `OffsetIs` and
`PlanOK` unfold it one turn at a time.

`CredentialsProofs` proves `RefusedOnlyForCause` (`RefusedForCause`),
`LoginIsOnDisk` (`OnDisk`) and `RenewsWhatIsDead` (`NoNeedlessRefresh`) of both Aliyun
clients (`AliyunSpec`; the open platform's steps are some of those of the web client)
for any number of requests, data sources and logins, from `CredentialsAssumption`,
`NamesAssumption`, `NilAssumption` and `ReasonsAssumption`. That a request is refused
only for a cause rests on who has the last refresh token: one request renews at a time
and with the token in memory (`Alone`); as long as the last token of a login is owed to a
data source, and memory did not begin with an older record, memory has it but for the
answer under way (`Newest`). `OnDisk` follows one token: from the answer (`InFlight`) into the
record of the data source that asked (`Store` writes that one, and then the whole file),
and from there to disk (`Written`, `Filed`), so that it can be missing only while it is under
way, after a write that failed, or when that record has become one of another login.
A restart takes a token away from the one it is owed to just in these cases (`Crash`).
`OneRenews` (`OneRenewsForAll`) is
`RenewsWhatIsDead` for the specification of the run, in which Baidu and Quark
take their turns too: the steps of an Aliyun behaviour are those of `AliyunSpec`
(`AliyunSteps`). `CodeExchangedOnce` (`ExchangedOnce`) holds for any set of codes: a
code that was exchanged has its answer under way, or the page has had it and asks no
more (`Spent`).

`CloudProofs` proves `LocatedOnce` (`OneLocateForAll`) and `FailsForCause`
(`ReadFailsForCause`) for any number of reads, hosts, answers and attempts
(`HostsAssumption`: there are two hosts at least, as `Candidates` takes two). Links
that are cached are the last that were located, and every answer that is cached no
more was withdrawn or aged (`Accounted`); this survives `RaceLost` because only the
links the read used are invalidated. In its second round a read has links that were
not withdrawn when it began, or a cause (`Raced`).

Of uploads it proves `NoPermitLost` (`PermitsComeBack`) and `UploadsStored`
(`OkIsStored`) for any number of
uploads, sizes, settings, blocks and attempts (`UploadsAssumption`). Besides the
balance itself the invariant says that a block is under way only while its upload
sends (`Shape`: whatever ends the sending has to have counted the permits), and that
who is at work uses a semaphore somebody made (`Users`: a new one starts with nobody
on it). A step is measured by one equation, permits gained against blocks no longer
under way (`BlockMoves`), which is the balance of every semaphore by counting the
upload's own requests apart (`Counting`). For `OkIsStored` the progress of a volume is
bounded by the blocks that are done in it and the volumes before (`Bounded`, `Spans`),
and `create` is reached only with every block done.

Of imports it proves `ImportsAreWhole` (`ImportIsWhole`), `ImportsStayApart`
(`OthersUntouched`) and `EveryLinkWorks` (`LinksWork`) for any entries, keys, data
sources and any number of imports of one link (`SharesAssumption`: the entries that
are shared were not made in the directory they are imported into). Listings may show
any part of what came; only `LinksWork` has the hypothesis that nobody forces an import,
and `SharesForced.cfg` shows what happens otherwise. The
invariant `SharesInv` follows the name of every entry: an import that renames has
exactly the items of its list, each of them once, those it has come by and a key of
the link opens have names under `Home`, the others the names it read (`Renaming`), and
`seen` is how many they are; an import that took a wrong name says so (`wrong`), and what
is renamed in the place of an entry keeps who brought it and which item it is. That this
makes `link.managed` in the end rests on the
selection: which entries are foreign never changes, the list of an import is part of
what was selected, so as many as the link says are all of them (`Selected`). A free
name is found among as many as there are entries and one more (`NameIsFree`, by the
pigeonhole principle), which also bounds the numbers the cloud adds (`Few`). The keys
of a link are a fold over the selection: `FoldsExist` constructs it, and `FoldsKeys`
shows that a key is in it once. `CloudTypes` (`TypeOK`) is the type invariant of all three
kinds, for which `UploadTyped` and `LinksTyped` bound the attempts, the progress and
what is known of hosts (`SomeHost`: the places by health are all different, so there
is a host at each), and which says that no two entries of the directory have one name.

The constants that bound counters (`MaxLogins`, `MaxGrants`, `MaxAttempts` and the
like) stay in the guards of the specifications proved about, and the theorems hold for
each value of them.

`DrivesProofs` proves `RememberedIsTrue` (`CacheTrue`, which includes the type
invariant), `OkMeansDone` (`OkIsDone`), `ListedHasAllParts` (`ListedIsWhole`) and
`OnlyItsPaths` (`TouchesOnlyItsPaths`) for either drive, any number of requests at a
time and in all, any ids, paths, parts and any tree to start with that a drive can hold
(`WellKept`, in `PlantedAssumption`: no two objects of a name in a folder, every folder
reached from one that was made, listed files whole). `SourcesAssumption` asks that a path
is requested only if the one above it may be, and `DrivesAssumption` that an upload to
Quark has a part, as `quark.rs` 1176 sees to.

All of them are stated under `OneRoot`, and not by choice: `folder_id_from` remembers
ids under the path it has walked, whether it walked from the top to the root of the
source or from the root to the folder, so that the key does not say which. The
hypothesis is that all sources have the same root, that the first folder on the way to
it has a name no request uses, and that nothing of that name lies in the root. Without
it a call can act on what another path names, as `drive_roots` shows; under it
`NamedIsActedOn` (`ActsOnNamed`, the property that run refutes) is proved. A data source
at the top of its drive satisfies it, and so does the instance of `drives`.

The invariant `DrivesInv` has a part for each of the things that must fit. The tree stays
one a drive can hold (`Kept`). Every call is where its program counter says (`Known`): a
walk is at the object of the path it has come, what is left of it leads to its goal, and
what a call is about to trash, move or fill is the object its path names. That this
survives the steps of the others is the discipline of `Begin`: a path that a running
call changes is neither one another uses nor above one (`AllApart`), so an effect, which
`Touched` confines to the paths of a call and the folders it makes, leaves every other
place as it was (`StepOK` proves both at once, since each needs the other). Remembered ids
are exact but for keys below a path in `Unsure`: paths in `doubt`, and those of a call
that has changed something and has not evicted it (`changed`). The step that is hardest
is Quark's rename, which moves and then names: between the two requests the object has
its old name in the new folder, nothing may be remembered there (`Bridged`), and no
two calls may pass through one name. `Sure` says that a call which answered a failure
has put its paths on record first, without which `doubt` would not cover what it left.
Walks are by names, one folder at a time: `ObjectAt` is a fold, `Folds` constructs it for
every prefix, and the lemmas after it say what a change of the tree does to the object at
a path (nothing, unless the path goes through the object that changed).

Model-checked only: liveness (`StreamEnds`, `TransfersEnd`: fairness is outside the
prover) and `ExactAlone` of `Namespace`, which compares a whole call that ran alone with
one step of `DirectoryTree`.

## What the checks found

1. Bulk and warm-up downloads over several volumes can stand still when
   max_per_volume < max_threads (`engine.rs` 705, run `stream_bulk_volumes`).
2. Clearing the cache under an open stream can turn holes into cache hits
   (`cache.rs` 273, run `block_cache_clear`).
3. Copying from a data source with volumes only to a plain one copies the first
   volume and reports success; a MOVE then deletes the source (`copy.rs` 498, run
   `copy_half`). From one with volumes and disguise to one with disguise only every
   volume is put under one name, and the last one stays (`naming.rs` 48, 153;
   `copy.rs` 390); the run has both.
4. Data sources of one Aliyun account with different root folders share the ids of
   equal paths, and can delete or rename each other's objects (`aliyundrive.rs`
   577, run `drive_roots`).

**Further disagreements.** Eight more configurations each check one property that
states what the repository says and that TLC finds violated; they are kept here to
be run by hand (`tlc -config X.cfg Module`):

| configuration | property | the code does | against |
| --- | --- | --- | --- |
| `StreamLargeChunk.cfg`, `MCStreamScheduler` | `EveryStreamEnds` | with `max_split` above 8 MiB fetches wait on their channels, keep every connection, and the head chunk is never started (`engine.rs` 619) | `engine.rs` 614: the buffer takes a whole chunk, a fetch ends without waiting |
| `NamespaceStale.cfg`, `MCNamespace` | `AbsentIsTrue` | the listing of the last segment is outside the retry for stale ancestors: a path that is there is answered as absent (`files.rs` 240) | `files.rs` 213 and 357: a stale ancestor makes the chain be resolved anew |
| `Relogin.cfg`, `MCCredentials` | `NewLoginUsed` | tokens in memory go before those of a record saved later, and their next refresh overwrites the new login (`aliyundrive.rs` 253, `aliyun_web.rs` 131) | `aliyun_web.rs` 679: "请重新扫码获取官网令牌" (scan again) |
| `BaiduRetry.cfg`, `MCCloud` | `RetryLeadsElsewhere` | the list is sorted by health first and rotated by the number of reads afterwards, so the host that stalled can come first again (`baidupan.rs` 1108) | `baidupan.rs` 377: a retry of a range starts with another host |
| `BaiduQuota.cfg`, `MCCloud` | `AccountQuota` | two data sources of one account with different `uploadThreads` replace each other's semaphore and use both (`baidupan.rs` 307) | `baidupan.rs` 67: one quota per account |
| `SharesForced.cfg`, `MCCloud` | `ShownIsReadable` | a forced import between an encrypted and an unencrypted managed data source renames the entries under the key of the directory: they show as managed, with bytes nobody can read (`share.rs` 260, 299) | `share.rs` 262: "确认强制导入后内容将按外来条目显示" (shown as foreign entries) |
| `SharesTemplate.cfg`, `MCCloud` | `ShownIsReadable` | an import compares encryption and disguise, not the leaf template: from `{s}.{i}.bmp` to `{s}.bmp` the entries are renamed under the key of the directory and show as managed, but `resolve_leaves` looks for other names and finds no volume (`naming.rs` 176) | `share.rs` 269: "用伪装设置相同的数据源导入" (a data source with equal disguise can import it) |
| `Restart.cfg`, `MCCredentials` | `RestartKeepsLogin` | of two data sources of one account only the one that renewed writes its record (`state.rs` 184); after a restart the first request of the other brings its older refresh token into `TOKENS` (`aliyundrive.rs` 253), the provider refuses it, and the request fails though a record has the good one | `registry.rs` 186: "避免服务重启退回已作废的旧令牌" (a restart must not go back to a token that is no longer good) |

What `registry` excludes is also worth knowing, because nothing in the code
rules it out. An envelope is lost to the record when an upload took its key
before a change and writes after the listing (`files.rs` 166, `ds.rs` 451), when
a second new password is chosen before the first change is finished (`ds.rs`
401), or when two updates with different passwords overlap. And
`preserve_live_credentials` takes a settings page opened between two rotations
for a new login, since its token is neither the stored one nor the seed, and
brings the dead token back (`registry.rs` 337), although the comment at
`registry.rs` 314 names pages opened before a rotation as its purpose.
`update_credentials` and the answer of the provider are one step in `Rotate`: a
crash between them loses the token whatever the registry does.

Other things the models had to leave out or permit, each a choice no line of the
repository speaks about: `rapid_put` answers "not written" although it has trashed
the object of that name before (`aliyundrive.rs` 1157); `put` over a folder, and
`mkdir` where a file is, answer Ok (`aliyundrive.rs` 777, `folder_id_from`); a
rename at Quark is two requests and can end between them; when the query of the
membership fails, slices are small and a large file has more blocks than Baidu
takes (`baidupan.rs` 1322); refusals by a block's own error code are retried like
failures; an import that is repeated into the same directory ends at a name that is
taken; what an import leaves behind when a check fails afterwards stays; of a
share at Baidu only the first page is read. An import that has no names to rebuild (the
data source is not managed, or nothing in the link is) never compares what came with
what the link says: entries that have gone from the share are not missed, and it answers
Ok (`share.rs` 290, 333). An entry that Quark's listing does not show after the transfer is
taken to have kept the name it has in the share (`quark.rs` 1083-1098); if the cloud gave
it another, the import renames whatever has that name, and `ImportIsWhole` and
`OthersUntouched` except it by name (`wrong`). The program ends a login of its own web
client when the silent grant spends the token on the settings page and drops what comes
for it (`aliyun_qr.rs` 198, `aliyun_web.rs` 685), which `RefusedForCause` excepts ("grant"), as
it does the record of a sibling (`older`). A new login saved into the record that is owed
another login's token replaces it, which is what the user asked for.

Taken for granted, because the code does: refresh tokens of Aliyun are JWTs, so an
account has one name, one entry in `TOKENS` and one lock (`Process`; otherwise
`aliyundrive.rs` 243-247 names it by the token itself, and every record and every
rotation gets a lock of its own); a create at Aliyun that is no instant transfer answers
with an upload id (without one `upload_parts` ends in Ok without `complete`,
`aliyundrive.rs` 891, 1099-1107); a cloud refuses a rename to a name that is taken
(Aliyun is not told how to treat one within a directory, `aliyundrive.rs` 942); a
download host of Baidu answers 403 or 404 only for links that were withdrawn, and there
are two hosts at least (`baidupan.rs` 1083, 1203).

In the drives a call that walked before another one renamed or deleted what it had
walked through does act on the object it found. Nothing in the source orders such
calls, so no property could hold of them: `Apart` keeps them out, and what `drives`
shows of overlapping calls is about calls whose paths do not meet, besides everything
one call after the other may do with what was remembered.

## Not modelled, and why

Bytes of ciphers, name codecs, image headers and links are data the properties do
not tell apart. Statistics, logging, wording and the frontend (but for the page that
polls a QR code) have no part in any property. The probing arithmetic of
`AdaptiveConcurrency` is a nondeterministic move of the limit within 1..T, which is
weaker than the code, so the safety results carry over. The local and WebDAV
adapters, and the operations of Baidu that are one request by path, have no state
between requests: they are the environment of the other models (any call may fail;
any get may stall, be short or long; any put may fail, keep a part or commit). A
plain (unmanaged) file records no size, so there is nothing an interrupted upload
of one could be compared with. The layout cache and the warm-up tasks are reads
over state that other modules have (`Namespace`, mode "warm" of `StreamScheduler`).
Settings are one record under one lock, written like the registry's. Signing,
cookies' parsing and regional hosts are formats.

## Plan

Done: the download path, the cache, the upload pipeline, copying, the namespace,
the registry with the root password, then the cloud drives: files, tokens, logins,
Baidu's transfers, shares. To come, in this order:

1. The layout cache with its single-flight probe, MOVE and COPY within one data
   source, objects that no key opens, on top of `Namespace`.
2. An upload of `Namespace` under two root keys, the path cache over a migration.
3. `AdaptiveConcurrency` in detail, warm-up tasks, settings, leaf names.
4. Proofs: `Namespace` (`ExactAlone`), what is left of the credentials (Baidu,
   Quark), and the refinement of the scheduler's fetch task by `FetchChunk`.
