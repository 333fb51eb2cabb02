# A verification project for the MPEG-DASH server

The program takes encoded frames of up to two camera streams, packs them into
fragmented MP4 segments, and keeps a live window of segment files and playlists
(MPD files) in a directory that a web server hands out. This directory holds
TLA+ models of it, configurations that check them with TLC, and proofs for TLAPS.
Paths below are relative to the repository.

## The system

| Component | State | Operations | Code |
|---|---|---|---|
| Segmenter, one per stream | `dash_playlist_t`: gate (`i_timestamp`, `var_timestamp`), counters; `dash_mpd_t`: the open segment (`dts`, `raw`), the list of segments, `max_segment_duration` | `mp4_onvideo`, `mp4_onread`, `dash_mpd_input`, `dash_mpd_flush`, `dash_adaptation_set_segment`, `dash_mpd_onsegment`, `dash_mpd_playlist`, `dash_mpd_destroy` | `dash.cpp`, `dash-mpd.cpp` |
| Published files | segment and MPD files; per stream a global list of entries (MPD file, segment file) and its mutex | publication by the worker; `thr_del_mpd`, `del_mpd_stream0/1` | `dash-mpd.cpp`, `dash_worker.cpp` |
| Process | `done`, `count_pthread`, `mtx`, `cond`, the parameter blocks | `main`, `dash_server_worker`, `on_sigterm`, `del_all_dir_files` | `main.cpp`, `dash_worker.cpp` |
| Frame reader | `track_id`, `start_init`, `track_video`, decoder configuration | conversion of a frame, `h264_read_frame`, `h265_read_frame`, `init_h26x_read_frame` | `h264.cpp`, `h265.cpp` |
| fMP4 writer | tracks with samples, clusters, fragments; an index of fragments | `fmp4_writer_create`, `_add_video`, `_add_audio`, `_write`, `_save_segment`, `_init_segment`, `_destroy` | `src/fmp4-writer.c` |
| Memory buffer | bytes, offset, capacity, sticky error | the `mov_buffer_*` callbacks | `dash-mpd.cpp`, `include/mov-ioutil.h` |
| Boxes | none | writers and readers of MP4 boxes | `src/mov-*.c` |
| File reader | headers, sample table, position | `mov_reader_*` | `src/mov-reader.c` |
| Parameters | the parameter block, written before the worker exists | `get_param`, `get_frame_num_video` | `param.cpp` |

How they interact: `main` starts one worker thread per active stream and, once
enough playlists are out, the deleter thread. A worker polls the encoder
(`avi_get_frame`), runs the frame reader, which calls `mp4_onread`, which feeds
`dash_mpd_input`; a key frame that the gate lets through closes the open segment:
the fMP4 writer serialises it into the memory buffer, the handler writes the
segment file and the next playlist, adds an entry to the stream's global list and
counts down `count_pthread`. The deleter walks the same lists. `done`, cleared by
a signal, a changed configuration, a starving stream or the expired wait of
`main`, ends all loops.

What is hard:

* three threads share two lists, the directory, a counter and a mutex that `main`
  uses without locking it;
* files are deleted by their place in a list while clients still read them;
* the order within a flush (close, hand out, link, count) decides what a playlist
  says;
* a segment has to begin with a key frame, be neither tiny nor endless, and leave
  no hole behind it, whatever the distances of the encoder's key frames;
* frames are in a ring that the encoder overwrites while a worker asks for them by
  number;
* bytes are converted twice (lengths to start codes and back), and sizes and offsets
  are patched into files by position;
* anything may fail: a conversion, an allocation, the buffer, a file, a thread, the
  reading of the parameters.

What makes each part correct is stated with the modules below. The full list of
hazards, with their lines and the properties aimed at them, is in `PROJECT.json`.

## Modules

| Module | Models | Abstraction |
|---|---|---|
| `DashMpd` | the segmenter of one stream; one frame is one action, since all of it runs in one call on the worker's stack | time in a coarse unit; a segment is its timestamp, its duration and what its file holds; the fMP4 writer is "a save succeeds or fails", with the buffer's sticky error |
| `MpdStore` | both workers' publication step by step against the deleter; every file operation, lock and list operation is a step | a segment is its number; content of files is the list of segments an MPD names and whether it was closed |
| `LiveWindow` | what the server promises its clients: complete playlists, numbers that go up, segments that stay as long as one of the newest playlists names them | abstract; `MpdStore` implements it |
| `Lifecycle` | `main`, the workers' life and the start-up barrier; every access to `done`, `count_pthread`, `mtx` is a step | what a worker publishes is reduced to whether it counts or announces; the deleter is its loop |
| `FrameReader` | one turn of the worker's loop with a frame | a NAL unit is its type |
| `StreamWorker` | `get_param` and the worker's loop against the encoder's ring; extends `FrameReader`, whose `OnFrame` is its step on a frame | a frame is its number and its NAL unit types |
| `AnnexB`, `MCAnnexB` | the same turn of the loop byte by byte: start codes, conversion, tables of parameter sets, both decoder configuration records | frames shorter than 256 bytes |
| `Fmp4Writer`, `MCFmp4Writer` | the fragmented MP4 writer from the first track to its end, and the reader's functions for fragments | the fixed part of a box is one cell of the file, a byte of media is one cell; `moov` is one cell, which `MovFile` opens |
| `MovBuffer`, `MCMovBuffer` | the buffer a segment is written into, with sizes patched in it | bytes with a small radix, size fields of four of them |
| `BoxTree` | what box writers rely on: nested boxes, each behind its size | abstract; `MovBuffer` implements it |
| `MovFile` | the boxes of a movie written byte by byte, in the library's layout and in others, and the walk of `mov_reader_box` over them | fields nobody reads are zeros; 64-bit numbers wrap at a smaller limit |
| `MovReader`, `MCMovReader` | from the bytes of `MovFile` to the reader's table of samples, and seeks | media data is left out, only where it lies matters |
| `DashMpdProofs` | theorems about `DashMpd`: under all failures, and about the time line and its steps | |
| `MpdStoreProofs`, `LiveWindowProofs` | theorems about `MpdStore`; that it implements `LiveWindow` | |
| `LifecycleProofs` | theorems about `Lifecycle` | |
| `StreamWorkerProofs` | theorems about `StreamWorker` and `FrameReader` | |
| `Fmp4WriterProofs`, `Fmp4FileProofs` | theorems about `Fmp4Writer`: its state and what a fragment does box by box; the files it makes and the segments of the server | |
| `MovBufferProofs` | theorems about `MovBuffer`; that it implements `BoxTree` | |

### DashMpd

| TLA+ | Code |
|---|---|
| `Start` | `init_dash`, `mp4_onvideo`: creates the object, adds the adaptation set and hands out its init segment, which counts as a first playlist |
| `OnRead` | `mp4_onread` and all it calls: `Gate` (the test on `i_timestamp`/`var_timestamp`), `Input` (`dash_mpd_input`) with its cases `Cut` (key frame), `FlushOnly` (an empty buffer), `Extend` |
| `Flush`, `CloseSegment`, `Slide`, `OnSegment`, `Playlist` | `dash_mpd_flush`, `dash_adaptation_set_segment` and its window, `dash_mpd_onsegment`, `dash_mpd_playlist` |
| `Destroy` | `dash_mpd_destroy` |

`Encoder` is the environment: frames come strictly later than their predecessors
and key frames at distances from `Gops`. The failures `EmptyFrames`,
`SaveResults`, `OpenResults` are sets, so that a run or a proof says which it
allows.

Properties: `TimelineContiguous` (no hole up to the open segment),
`TimelineOrdered` (no overlap and no shared file name, under all failures),
`SegmentBounded` and `SegmentNotTooShort` (the gate neither lets a segment grow nor
cuts too early), `SegmentsStartWithKey`, `AnnouncedCoversListed` (the MPD is written
before the segment being closed is linked and counted), `PlaylistFresh` (how far the newest
MPD is behind the camera) and `PlaylistsAdvance` (a property of steps).

`NewMpd` announces what `dash_mpd_playlist` does: the longest duration so far in whole seconds,
cut off, but at least one. Clients that ask again after this period, or that buffer as much, are
therefore short of a listed segment by up to a second: `AnnouncedCoversListed` says that it
is always less. A segment of 1999 ms is listed next to a period of one second; and `timeShiftBufferDepth`,
`N_COUNT` times the period plus one, may be less than the listed segments last together. The longest duration never
falls, so a single long segment is announced for as long as the stream lives. No property denies these three.

What the gate amounts to: key frames at least `GATE` apart all cut. Closer ones are
added up; the one that reaches `GATE` does not cut yet, the next one does, and its
distance stays in `var_timestamp` for the segment it opens. With a fixed distance a
segment is therefore never shorter than `GATE`, with distances that vary it may be
shorter by as much as they do (`Jitter`).

### MpdStore

`WriteSegment` .. `LinkSegment` are the steps of a worker from
`dash_mpd_onsegment` back to `dash_adaptation_set_segment`; `PassOver`,
`PickVictim`, `UnlinkMpd`, `UnlinkSegment`, `RemoveEntry` those of one
`del_mpd_stream0/1`. `PassOver` and `PickVictim` take the lock and walk in one
step: the lock is held, nobody sees the walk. The two functions of the deleter
are the same text for two streams, hence one set of actions with `turn`.

Properties: `NewestPlayable` (whoever holds one of the newest playlists finds the
MPD and every segment in it), `ListExclusion`, `NothingLeaks`; liveness: `BacklogDrained`.
`KeepsPromise` is the refinement: with `Window`, the files and lists seen as a client
sees them, every step of the threads is a step of `LiveWindow` or a stutter, also when
files cannot be created. A playlist is out when its file is closed; a segment whose
`fopen` failed never was there. How many playlists are safe is said with the
constants of the code: with `N_COUNT` 2 and `FILES_MPD_COUNT` 4 the newest four playlists
stay, and no segment named in the newest three is withdrawn, one fewer than the list
would suggest because the newest entry's file may still be open.

### Lifecycle

`main` calls `pthread_cond_timedwait` on a mutex it does not hold. POSIX leaves that
undefined; the model does what glibc does with a normal mutex: `CallWait`
releases it whoever holds it, `Relock` takes it, and `main` never lets go of it
again. `Hung` is the state this leads to: a worker that passed the unlocked test of
`count_pthread` waits for `mtx` while `main`, which holds it, waits for the
worker. While main waits nobody owns the mutex, and main may have taken it away
from a worker inside: `count_pthread--` is therefore two steps, `LoadCount` and `CountDown`, between which
the other worker may count as well, and one of the two is lost. The model shows that

* with one stream, `Hung` needs an expired wait (`HangNeedsTimeout`);
* with two streams both can pass the test at 1, the counter goes to -1
  (`CountBound` says no further) and a process that started may hang at once;
* a wake-up can be lost between `TestCount` and `CallWait`; the process then shuts
  down after its deadline;
* apart from `Hung`, every request to stop is carried out (`ShutdownCompletes`);
* the directory stays empty after the sweep (`SweptClean`), if `scandir` let it happen at
  all: else the files stay (`Sweep`, `ScanResults`), by the code; and only the failure to
  create the second worker frees parameters that are in use
  (`ParamsOutliveWorkers`).

### FrameReader

`OnFrame` is one turn of the loop: `InitReadFrame` on the first frame, then
`ReadFrame`, one `mp4_onread` per slice. `NoAbort` holds for encoders with one slice
per frame; a sample is the set of the places of its NAL units in the frame (`SampleAt`), which is
all that `keyframe` and the properties ask for. `sliced_frames` shows the frame of two slices that reaches `assert(0)`
in `mp4_onread`. `KeyIffIrap` states what the test of the first NAL unit amounts to, under the
named assumption `Announced` about the encoder: SPS first in H.264, a prefix SEI first in
H.265 (the two's types have the low bits the code looks for).

### StreamWorker

| TLA+ | Code |
|---|---|
| `GetParam`, `Outcomes` with `Report`, `Block`, `Blocks` | `get_param` with every return it has, as `main` uses it: `status` is unsigned, so the worker starts whatever was reported, with what the block holds |
| `Scan` | the loop of `get_frame_num_video` over the encoder's list, newest frame first, said without the loop: the newest I frame that is old enough, else the oldest there is; without an I frame it reads `prev_last_I`, which was never set, so any number or the end of the process may come of it |
| `Read`, `NoData` | the loop of `dash_server_worker`: a frame that is held is read, `-ENODATA` is counted up to a limit. Any other error changes nothing and is asked again: no action |
| `Encode` | the encoder, outside: one more frame, the oldest is gone |

`InTime`: whoever finds a random access point in the list also finds the frames behind it, unless
the worker comes late by more than the ring holds beyond one distance of such points.
`StartsDecodable`: if `get_param` reports success, the stream begins with a
key frame and the configuration has every kind of parameter set. `EndsOrLost`: a stopped encoder ends
the worker, unless the frame it asks for is gone; such a worker asks for ever. What is
behaviour of the code and denied by nothing: that hang; that an error of `get_param` starts a
stream in the middle of a group of pictures; that a configuration that cannot be read leaves
0, the number of H.265, as the encoder (`misread`; what the wrong reader then makes of the bytes
is not followed up).

### AnnexB

`Mark` is the worker's conversion to start codes, `SetUp` one turn of the loop of
`init_h264_read_frame`/`init_h265_read_frame`, `ReadUnit` one of `h264_read_frame`/`h265_read_frame`.
`annexbtomp4` is `mpeg4_annexbtomp4` and `hevc_annexbtomp4` with their handlers, `AvcRecord` and
`HevcRecord` are the two `..._decoder_configuration_record_save`. `BytesComeThrough` ties the
module to `FrameReader` (an instance, `Reader`): whatever zeros, threes and ones the NAL units
hold, each slice makes the sample that `FrameReader` says, with every NAL unit whole and behind
its length; an overfull table makes it empty. `RecordHoldsSets` reads the record as a player would
and finds the parameter sets of the first frame and the stream's profile and level.
`OnlyKnownAborts` names the four ways in which an assert can fail; one is surprising: the assert on
the entry of a parameter set of H.265 is indexed by the type's number, so sets that fit may
fail it once they fill more than half of the room.

### Fmp4Writer

| TLA+ | Code |
|---|---|
| `Setup` | `fmp4_writer_create`, `fmp4_writer_add_video/audio`, `fmp4_writer_init_segment`, and what `dash_mpd_add_video_adapation_set` does with their results |
| `Write` with `BeforeKey`, `Take`, `Store`, `Cluster` | `dash_mpd_input` behind its flush; `fmp4_writer_write`: a fragment ahead of a key frame, growing the table, copying the data, `fmp4_writer_cluster` |
| `Save` with `SaveSegment`, `Fragment`, `WriteMfra` | `fmp4_writer_save_segment` and `fmp4_write_fragment` |
| `WriteSidx`, `WriteMoof`, `WriteTraf`, `WriteTrun`, `SizeIndex`, `WriteMdat`, `WriteRound`, `WriteCluster`, `PutData`, `Freed` | the functions of these names, `mov_write_trun`, the loop that patches `referenced_size`, and the interleaving loop with the loops inside it: what it writes and what it frees |
| `Destroy` | `fmp4_writer_destroy` |
| `Samples`, `ReadMoof`, `ReadTraf`, `ReadTrun`, `ReadEntry`, `Content` | `mov_read_moof`, `mov_read_tfhd`, `mov_read_tfdt`, `mov_read_trun`, `mov_buffer_read` |

A position in the model's file is a number of cells, so that an offset or a size is
right or wrong exactly as in the code, where it is a number of bytes. `limit` says
how far the buffer's memory can grow and is chosen once: the capacity never
shrinks and the error is sticky, so the first refusal is the only one. `Callers` says who
uses the writer: with `segment` the server (one video track, `ServerAssumption`; a flush ahead of
each key frame), without it any caller that keeps to the header.

`SavedIsWhole` is the contract the server relies on: a save that reports no error
has put all samples since the save before into the file, and they can be read back
with their times and bytes. The library's own reader gets the times only as long as they fit in
one word: from 2^32 on `mov_read_tfdt` has `mov_buffer_r64` misplace the upper word (`r64`, `ReadTfdt`).
What `fmp4_write_tfdt` has written is right, so another reader is not limited. At a thousand ticks a second,
as the server calls it, one word lasts 49 days. `IndexSpansSegment` and `EntriesLeadToFragments` say the
same of the two indexes, `MemoryOwned` of the heap, `NoAbort` of the
clusters; `MemoryOwned` includes that no table outgrows what was allocated for it. What the writer does and no property denies:

* the first sample of every `trun` is marked as a sync sample. For the server's one
  track this is right (`SyncSamplesAreKeys`), since its only cluster begins with the
  key frame, unless there was no memory for that key frame; with two tracks it is wrong
  in the middle of a group of pictures;
* the last sample of a fragment has duration 0; only the next `tfdt` restores the time;
* in segment mode the table of index entries grows with the stream and is never read;
* if `fmp4_writer_add_video` fails the server goes on, every write is refused with
  -ENOENT, and the segments are empty;
* the server never calls `fmp4_writer_destroy`, so the writer is leaked.

### MovBuffer and BoxTree

`w8`, `w16` and `w32` write most significant byte first, each byte with a write of its own, as
`mov-ioutil.h` does. `Open`, `Write`, `Close` are the ways in which box writers use the buffer: a size field
of 0, content, and `mov_write_size` when the box is complete. `Take` and `GiveUp` reset it
as `dash_mpd_flush` does. `BoxTree` puts a box together in full before it becomes part
of the one around it. `Contents` maps the buffer and the list of open boxes to its stack,
and `ImplementsBoxes` checks that every step of the buffer is one of `BoxTree` or a
stutter, until an error is reported. `FailsForSize` says when that is: a file that leaves
one byte of `maxsize` free never fails for its size, a larger one never goes through; one
that fits exactly fails if a size is still to be patched, since `mov_buffer_seek` refuses
`maxsize`. What is written is always inside of what is allocated.

### MovFile and MovReader

`MovFile` has one operator per function of the library: `WriteMoov`, `WriteTrak`, `WriteStsd`,
`WriteEsds`, `WriteStbl` and so on for `fmp4_write_moov` and what it calls, `WriteStsz`, `WriteStsc`, `WriteStco`,
`WriteStss` for the tables of plain files (the runs of `stts` and `ctts` are prepared outside of the
code that is compiled). A writer returns its bytes and, apart from them, the size it reports to the
box around it, as in the code: nothing but the sums makes the two agree. The layout also has what other
programs do and the reader provides for: headers of version 1, `co64`, `moov` behind the
media data, a box of size 0 at the end of the file, boxes of 64-bit size, empty boxes, unknown boxes, `uuid`.
`Walk` and `Parse` are `mov_reader_box` and its table of functions, with the assert on what each
has consumed.

`MovReader`: `Create` is `mov_reader_create` over those bytes (`ReadFile`, then `mov_track_build`,
`mov_index_build`, `mov_fragment_build` and the durations), `Seek` is `mov_reader_seek`. The
flags of samples are memory nobody has written, so a video without `stss` may come out with any
set of key frames. `HeaderReadsBack`, `SamplesReadBack` and `CompositionKept` are about
reading, `TracksInStep` about seeking. `Unreadable` names the files that fail an assert or are refused:
an empty box at the end of a container that has to be read to its end, a `uuid` with no more than
its name, more brands than there is room for, a `moov` of size 0, a `trex` ahead of its track; an
aborted walk of any other file violates `HeaderReadsBack`, and so does one of these that goes
through. An expected violation shows that a seek may land behind the key frame (`SeekLandsOnSync`).

What the reader does and no property denies: an empty edit delays the samples twice, in
`TrackBuild` and in `FragmentBuild`; with a version of 1 it is not recognised at all; and
`mov_buffer_r64` misplaces the upper word of a 64-bit number (`r64`, for `tfdt` see Fmp4Writer), so that samples beyond one
word of offsets are not found; the files of the run stay below. The server does not use the
reader.

`Movies` is any set of files; `MCMovReader` varies one thing at a time: `Layouts` (bytes, times
and chunks), `Compositions` (composition offsets and empty edits), `Films` (an audio
track ahead of a video with any key frames, with and without `stss`), `OddBoxes` (a box of another
program at either end of each container), `Sensible` (the other choices of layout), `Coded` (every
codec with configurations of several lengths). A file's handlers are `vide` and `soun` there; `ReadStsd` also
has what the code does with the entries of others (`SkipEntry`) and `EsFields` what it does with a
stream that depends on another, but no file of the run has them. `SamplesReadBack` and `CompositionKept`
look at distances of times, so the doubled delay below passes them.

## Runs

| Run | Module, configuration | Bounds | Shows |
|---|---|---|---|
| `camera` | `DashMpd_camera.cfg` | gate 5, key frames 1, 2 or 4 apart, time up to 30, a second of 8 | contiguous, key-framed segments, neither too long nor too short; playlists not far behind |
| `segmenter_failures` | `DashMpd_failures.cfg` | gate 2, distances 1 or 3, time up to 8, a second of 2, every failure | order, announced period, steps of the MPD |
| `store` | `MpdStore_clean.cfg` | both streams, 6 segments each, `FILES_MPD_COUNT` 1 | exclusion, no leaks, liveness |
| `store_failures` | `MpdStore_failures.cfg` | one stream, constants of the code, 9 segments, failing files | playability while the deleter works; `LiveWindow` is implemented |
| `life_cycle` | `Lifecycle.cfg` | no stream, one or both; `N_COUNT` of the code, at most one poll without data in a row, `scandir` failing or not | hangs, barrier, counter, freed parameters, sweep, shutdown |
| `frames` | `StreamWorker.cfg` | both codecs, up to 4 NAL units ahead of the one slice; a ring of 4 frames, random access points 2 or 5 apart, 8 frames, one poll without data in a row | beginning, key frames, asserts, end |
| `bytes` | `MCAnnexB.cfg` | frames of up to 4 NAL units of 9 kinds per codec; tables of 2 and 3 sets, 50 bytes for sets, 70 for a sample | bytes, records, full tables, asserts |
| `sliced_frames` | `FrameReader_slices.cfg` | two slices | the assert fails (expected violation) |
| `writer` | `MCFmp4Writer.cfg` | the server: 5 samples, 3 saves, any allocation failing, memory that ends at once, in the middle of a file or at `maxsize`; a film of two tracks: 6 samples in any order, 2 saves; the same with 3 samples when memory is short. Clusters of 2, tables growing by 2 and 1, times up to 21 in words of 12 | segments are whole, sync samples, both indexes, memory |
| `buffer` | `MCMovBuffer.cfg` | radix 3, `maxsize` 13, boxes two deep, growth of 4 beyond what is needed | `BoxTree` is implemented, size errors |
| `reader` | `MCMovReader.cfg` | 2081 files: 4 samples of 1 or 2 bytes in chunks of up to 3, two distances; offsets -2, -1, 1; audio and video with any key frames, five timestamps; every container with a box of another program, lengths 0, 1, 16, 17; both versions, every order | files are read back or known not to be, composition times, tracks stay in step |
| `keyframe_seek` | `MCMovReader_keyframe.cfg` | one video, any key frames | the seek lands beside the key frame (expected violation) |

Why the bounds are enough: the segmenter forgets everything but the gate, the open
segment and the window, so a time in which the window turns over several times
visits all relations between them. Distances below the gate are in `camera`, where the sum
matters; below and above it in `segmenter_failures`, where segments last several seconds and parts of one; `SegmentsBounded` is proved for all. The store needs more entries than the deleter passes over, plus a
backlog: with `FILES_MPD_COUNT` 4 the sixth entry is the first to go and 9
segments give a backlog; the two-stream run lowers the constant to keep both lists
busy. In `Lifecycle` only the count of streams, not the count of frames, matters: a worker
publishes without limit. The frame reader's state is two counters that
move together, so a few frames of every shape suffice; the ring has room for two random
access points or, with distance 5, at times for none, and comes round twice. The
tables of `AnnexB` are smaller than a frame has parameter sets, so each overflows by one.

The writer's rules change when a cluster is full, a table is full, a key frame
comes, a save is over: with clusters of 2, tables that grow by 2 and five or six samples
each of them comes more than once, in every order for two tracks. For the server
each sample may be refused, which also varies the distances between those that
were taken. Fragments begin before and behind the last time that fits in one word. The buffer's constants put the border `maxsize` inside of a size field,
of data and of a patched field. The reader's tables merge neighbours that are equal:
four samples have every pattern of equal and unequal neighbours, among them the
return to an earlier count (1, 2, 1). Among the lengths of the boxes added, 0 decides whether a
header that ends its container is read, 16 is the name of a `uuid`.

Deadlock is checked everywhere but in `Lifecycle`, where the process really can hang, and in
`StreamWorker`, where a worker can wait for a frame that is gone and an encoder may stop.

Fairness. `MpdStore`: the deleter's loop never blocks for good and a worker inside
the handler goes on (`WF` on both); nothing makes a segment come. `Lifecycle`: every
thread that can run does, and time passes (`Expire`); nothing makes a frame or a
signal come, a wake-up without a signal is possible before the deadline and never
required. `StreamWorker`: the worker polls in a loop with a sleep, so it goes on when it can
(`WF` on `Read \/ NoData`); nothing makes the encoder deliver. `EndsOrLost` therefore covers an
encoder that stops at any moment.

## Proofs

Every theorem is about all values of the constants that their named assumptions allow, and
where it says "whatever fails", about every combination of failures. What is
assumed beyond that is in the theorem's `ASSUME` and in the table. All invariants named `IInv` or
`...Inv` were checked by TLC before they were proved.

| Module | Theorem | Property | Assumes in addition |
|---|---|---|---|
| `DashMpdProofs` | `TypeCorrect`, `SegmentsBounded`, `TimelineIsOrdered`, `AnnouncedIsEnough` | `TypeOK`, `SegmentBounded`, `TimelineOrdered`, `AnnouncedCoversListed` | nothing |
| | `TimelineIsContiguous`, `SegmentsBeginWithKey`, `SegmentsNotTooShort` | `TimelineContiguous`, `SegmentsStartWithKey`, `SegmentNotTooShort` | `EmptyFrames \subseteq {FALSE}`: no conversion comes out empty |
| | `PlaylistsOnlyAdvance` | `PlaylistsAdvance` | nothing |
| | `PlaylistsAreFresh` | `PlaylistFresh` | `EmptyFrames \subseteq {FALSE}`, `SaveResults \subseteq {TRUE}`, `OpenResults \subseteq {TRUE}`: nothing comes out empty or fails |
| `MpdStoreProofs` | `TypeCorrect`, `ListsExclusive`, `NewestStayPlayable` | `TypeOK`, `ListExclusion`, `NewestPlayable` | nothing |
| | `NothingIsLeaked` | `NothingLeaks` | `FALSE \notin OpenResults`, `N_COUNT = 2`: no file fails, the code's constant |
| `LiveWindowProofs` | `PromiseKept` | `KeepsPromise` | `FILES_MPD_COUNT >= N_COUNT - 1`; the code has 4 and 2 |
| `LifecycleProofs` | `CounterIsBounded`, `HangsOnlyAfterTimeout`, `RunningMeansPublished`, `SweptStaysClean`, `ParamsAreFreedLast` | `CountBound`, `HangNeedsTimeout`, `RunMeansPublished`, `SweptClean`, `ParamsOutliveWorkers` | nothing |
| `StreamWorkerProofs` | `FramesAreStillThere` | `InTime` | nothing |
| | `AssertsHold` | `NoAbort` | `OneSlice` |
| | `KeysAreIraps`, `StreamsStartDecodable` | `KeyIffIrap`, `StartsDecodable` | `OneSlice`, `NoLookalike` |
| `Fmp4WriterProofs` | `AssertsHold`, `MemoryIsOwned` | `NoAbort`, `MemoryOwned` | nothing |
| `Fmp4FileProofs` | `EntriesAreRight`, `IndexIsWhole`, `SyncSamplesAre` | `EntriesLeadToFragments`, `IndexSpansSegment`, `SyncSamplesAreKeys` | nothing |
| | `SegmentsAreWhole` | `SavedIsWhole` | `SEGMENT`: the caller is the server |
| `MovBufferProofs` | `FailsOnlyForSize`, `BoxesAreNested` | `FailsForSize`, `ImplementsBoxes` | nothing |

The additional assumptions are about the environment and each is needed. A conversion that
comes out empty flushes the open segment in the middle (`FlushOnly`), by the code. A save that fails ends
the list, and an MPD that cannot be written is left out: then no playlist is fresh. A file that
cannot be opened leaves its segment without an entry. With two slices per frame the code
aborts (`sliced_frames`), and type 0, which no H.264 encoder makes but which is TRAIL_N in
H.265, fails an assert of `h265_read_frame`: `OneSlice` excludes both. `mp4_onread`
recognises an H.265 key frame by the low bits of its first NAL unit's header; types 7 (RADL_R) and 55 have the
bits of a prefix SEI, so that a frame that begins with one would be taken for a key frame:
`NoLookalike` says the camera does not send them, and TLC finds `KeyIffIrap` violated
as soon as it does.

### DashMpd

One inductive invariant, `IInv`, carries the first four. None of the
properties is inductive alone. A bound on listed segments needs a bound on the open
one, and this needs to know what the gate has accumulated since it opened:
`i_timestamp - dts <= var_timestamp + Slack` with `var_timestamp <= 2 * (GATE - 1)`
(`OpenInv`, `StreamInv`). `Slack` is there because `i_timestamp = 0` also means "no key frame
yet". The order of the list needs the list to end before the open segment begins
(`Before(root, dts)`), or before the clock when none is open. The announced period
needs `max_segment_duration` to cover the list, which the next MPD copies, cut off to seconds.
`SlideShape` says what linking a segment does to the list; `SlideCovered` and
`SlideOrdered` follow from it, `FlushLists` lifts them to a flush, `GateStep` treats
the gate, and one lemma per action (`StartInv`, `OnReadInv`, `DestroyInv`) puts
them together.

The time line builds on it. Without empty conversions `CleanInv` is inductive on top of
`IInv`: a segment is open from the first frame on, it begins with a key frame where the list ends
(unless the buffer's error has stopped the list), and what `var_timestamp` holds beyond one
distance of key frames has passed since the segment began. The last conjunct is what
makes the lower bound on a duration go through: a cut comes when gate and
time together reach `GATE`, and all of the gate but one distance is time. `AdvanceInv`
says that after an MPD is out the list moves on before the next is made, hence
`PlaylistsOnlyAdvance`.

`FreshInv`, on top of both, counts: where nothing fails, each segment that is closed counts a playlist or
makes one, so with a full window the newest MPD ends where the newest listed segment begins. That the two
segments since then are not both of the longest kind is what needs the gate again: what a key frame adds to
`var_timestamp` when it cuts is what the next segment need not wait for
(`i_timestamp - root[Len(root)].timestamp <= var_timestamp + Longest`).

### MpdStore and LiveWindow

`IInv` has three parts. `LockInv`: who owns a list's mutex follows from where the
threads are, and while the deleter works on an entry, that is the one at place `Kept + 1` (insertion
is excluded, so it stays there until it is removed). `StreamInv(s)` is about one stream:
numbers and segments fall from the head of the list to its tail (`Descending`); of the files on
disk, a higher number means a later segment, and all but the one being written
are complete (`FilesInv`); what is gone of the linked segments is older than
the oldest entry that stays (`SegsInv`). From these `NewestPlayable`: a playlist names a
segment and the `N_COUNT - 1` before it, and with `Descending` these are not older than what
the entry at `Kept` names. A worker's step leaves the other stream alone (`OtherStream`,
`Untouched`), and there is one lemma per action. `NothingIsLeaked` adds `LeakInv`:
each file is named by an entry or is in its worker's hands, and what the deleter
has unlinked does not come back before its entry is gone.

`PromiseKept` shows step by step that `CloseMpd` is `Publish`, `LinkSegment` is `Produce`,
`UnlinkMpd` and `UnlinkSegment` withdraw a playlist and a segment or, if the file
never was there, nothing, and every other step is unseen. That a playlist may be
withdrawn needs enough newer ones on offer: the files of the entries in front of the victim, counted
through a bijection between places in the list and numbers (`Counted`).

### Lifecycle

`IInv` counts who passed the unlocked test: a worker between test and decrement saw the
counter positive (`CountInv`), so it falls by at most one per active stream; what a worker has read and
not yet written back is no lower than what the counter may become. `WaitInv`
follows `main` through its wait: behind it the counter is down or the wait has
timed out, but with two workers it may come up again when one writes back what it read earlier. `PublishInv` ties the counter to what was handed in, `JoinInv` to which workers are
gone when `main` sweeps and frees.

### StreamWorker and FrameReader

`ParamInv` says what `get_param` left: a number found is a random access
point, less than one distance older than what was looked for (`ScanFinds`, from
the remainders of the numbers). `RingInv` bounds the worker's lag by `late` and the distance it
began with; `InTime` is arithmetic from there. `ReaderInv` is the lockstep of the track numbers that
keeps `mp4_onread` from its assert; `FrameOfOneSlice` and `KeyOfFrame` say what one turn of
the loop makes of a frame. `FirstInv` follows the first frame from its choice to the decoder
configuration.

### Fmp4Writer

A table's clusters are found by walking from head to head, and the head of a cluster is told its length
only when the next one begins. So `Parted` says: the complete clusters are the first `offset`
samples, one after the other (`Closed`, for some set of heads), and the sample behind them heads the one being
filled and knows its length so far. `ClusterTracks` treats one more sample in all ways in which
`fmp4_writer_cluster` can go, also when a cluster of one track ends that of the others;
closing the last cluster makes `Closed` hold for the whole table. There the walk, a recursive function
in the model, exists and reaches the end without leaving a sample out: both from the least
number for which it would not (`WalkExists`, `WalkReaches`). Hence the asserts (`AllWellClustered`), and
what a fragment frees is all there is (`AllFreed`). `Whole` adds that the heap is what the tables hold and that an empty
`mdat_size` means empty tables, on which `fmp4_write_fragment` relies when it returns
early; this needs that no caller passes a sample of no bytes. `IInv` says it of every state, one lemma
per call.

The rest is about the file that is made: what a fragment is, box by box, at the end of `Fmp4WriterProofs`, and
whole files in `Fmp4FileProofs`. The functions that write it are recursive; that each has
a value, one step after the other, follows from `UpTo`, and one lemma says it of each function (`PutDataIs`
to `SizeIndexIs`). What a
buffer holds already stays as it is but for data offsets and the extents of an index (`Onto`, put
together from single writes and patches by `OntoPut`, `OntoPatch` and `OntoTrans`). So a moof, once written with a traf for each track that has samples (`IsMoof`,
`WriteMoofDoes`), stays what it is when more is written behind it (`MoofStays`). `Indexed` says that the
tables of entries and the cells agree: each entry leads to a moof with a traf of its time, and unless memory
can be short each traf has an entry. A fragment keeps it (`FragmentIndexed`); a save writes the index out of the tables
(`ClosedIsRight`) and empties both. `FileInv` says it of every state.

For the segments of the server that is not enough: `SavedIsWhole` asks for the content of every cell, for the
functions that read it back, and for what was in the queue of the writer, all in one. `ServerInv` adds `Served` to `IInv`.
Between two calls of the server nothing is in the buffer yet, and the table of the one track
holds what was accepted since the save before, sample by sample (`Kept`, `Filling`): in a single
cluster, since only a write to another track closes one and there is none (so a cluster has no upper
bound, and neither has the sum of sizes, `Sums`, which is a function that the invariant says exists);
and no sample but the first is a key frame, since `dash_mpd_input` saves ahead of each key frame, even if that
key frame is then refused. What is saved is either
nothing or a `Segment`: `Laid` says what is in each of its cells, down to the byte of the sample. That
a save of such a table lays it out so follows the functions of `fmp4-writer.c` one by one; that `Samples` then
finds each sample (its time, if the first of the segment fits in one word) follows those of the reader, with what has been read after `k` entries of the `trun`
as the invariant of the loop (`ReadSoFar`, `SegmentRead`). From `Served` there follow `SegmentsAreWhole` and
`SyncSamplesAre`, and `IndexIsWhole` with what `FileInv` says of every other file: that it has no `sidx`.
`ServerAssumption` stands for `dash_mpd_add_video_adapation_set`, the only function of the server
that adds a track to a writer.

### MovBuffer and BoxTree

`IInv`: the buffer is within its memory (`Good`), the open boxes lie inside of one another
(`Nested`) and everything asked for has been written, or the error is set. `WriteDoes` says what one
`mov_buffer_write` does, `OneAfterAnother` composes two, so that `w8Does`, `w16Does` and
`w32Does` follow the functions of `mov-ioutil.h`; `PatchDoes` is `mov_write_size`, the one place
that goes back. `BoxesAreNested` cuts the flat buffer where boxes are open (`Pieces`) and shows that a size field of 0 adds an empty
piece (`OpenPieces`), data prolongs the last one (`WritePieces`), and patching a size
makes the last two pieces one, with exactly the box that `BoxTree` puts together in between (`ClosePieces`). This holds
for every radix, growth and depth of boxes, so for bytes and the 100 MB of the code too.

### Only model-checked

* liveness (`BacklogDrained`, `ShutdownCompletes`, `EndsOrLost`): out of the prover's reach;
* `AnnexB`, which uses bit operations, `MovFile` and `MovReader`, which are recursive descent:
  the prover cannot use such modules;
* `SavedIsWhole` where the caller is not the server: there files have many fragments in which clusters of several
  tracks take turns, and `Laid` would have to say where each lands; of these files the theorems say what their
  index leads to, and of the server's segments everything;
* where a property of `DashMpd` or `MpdStore` fails by the code under a failure, the runs say so
  by leaving the failure out, as the theorems do.

## Not modelled

* a file with tables and fragments at once, and `mov_reader_getinfo` and `mov_reader_getduration`, which pass
  fields on;
* `leva`, `cslg` and `stz2`, and the functions that read `sidx` and `tfra` for the reader: no
  writer of the library makes the first three, and the reader keeps nothing of the last two that
  anything here uses;
* audio in the server, which has no caller; the text of the MPD beyond what it lists and announces;
* the MP4 file writer and `recorddash.cpp`, which are commented out, and the file buffer, which has
  no caller;
* what the reader of one codec makes of a stream of the other; what a frame rate or size of 0 does
  to the output;
* the libraries for capture, configuration and messages, which are outside of the repository and
  appear as environment (`Encoder`, `Encode`, `Frames`, `Outcomes`, `OnSigterm`, `IpcWait`).

## Plan

The models are complete as far as the lists above say, and the theorems cover every safety property,
step property and refinement of `DashMpd`, `MpdStore`, `Lifecycle`, `StreamWorker` and `MovBuffer`, and
of `Fmp4Writer`, but for what a reader finds in a file of several tracks (`SavedIsWhole` without
`SEGMENT`). That, `AnnexB`, `MovFile` and `MovReader` stay with TLC.
