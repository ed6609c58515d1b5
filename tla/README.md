# A TLA+ verification of deepin-music

deepin-music is a music player: a QML user interface over the library
`src/src/libdmusic`, which keeps a music library in SQLite, imports and analyses
files in threads of its own, and plays a queue of tracks through libvlc and SDL.
This directory models the protocols at its core — the **play queue with its
playback controls**, the **music library with its two worker threads**, the
**playlists and the queue beside them**, the **way of the samples to the sound
device** and the **CD monitor** — checks them with TLC on small instances and
proves most of their safety with TLAPS for all instances.  Paths below are
relative to `src/src/libdmusic/` unless they start with `src/`.

| module | models | proofs in |
|---|---|---|
| `PlayerEngine` | `player/playerengine.cpp` and the backend it sees | `PlayerEngineProofs`, `PlayerEngineQueue` |
| `LibraryQueues` | the queued signal connections between the library's threads | – |
| `MetaImport` | the import thread, `core/dboperate.cpp` | `ImportProofs` |
| `MediaMetaWorker` | the analysis thread, `core/mediametaworker.cpp` | – |
| `Library` | `core/datamanager.cpp`, its database, and the three threads composed | `LibraryProofs`, `ImportProofs` |
| `AnalysisService` | what the analysis promises: the abstract specification `Library` implements | `AnalysisProofs` |
| `Playlists` | the playlists' orders, `core/datamanager.cpp`, with the queue that `presenter.cpp` keeps beside them | `PlaylistsProofs` |
| `SdlAudio` | `player/vlc/sdlplayer.cpp` between libvlc's thread and SDL's | `SdlAudioProofs` |
| `CdaMonitor` | `player/vlc/cda.cpp`, and what presenter and sidebar make of it | `CdaMonitorProofs` |
| `MCPlayerEngine`, `MCLibrary`, `MCPlaylists` | the instances TLC checks | – |

## 1. The system

### Components

**PlayerEngine** (`player/playerengine.cpp`, `vlc/vlcplayer.cpp`).
*State*: the queue `m_metaList`, the playback mode, the loaded track, the
backend's state, the fade setting, one animated property `fadeInOutFactor` with
four animations (pause fade-out, resume fade-in, switch fade-out, switch
fade-in), a counter and a timer that merge rapid presses of Next and Previous, a
cache of "is there a next / previous playable track".
*Operations*: play, pause, stop, next and previous by hand, automatic advance at
the end of a track, selecting a track, adding, removing, moving and clearing
tracks of the queue, changing mode and settings, MPRIS requests, suspend and
resume of the machine.
*Hard*: animations end hundreds of milliseconds after they were started and
others of them, a stop or an edit of the queue may come between; `end()` is
posted by a libvlc thread; files vanish; a machine sleeps with a timer pending.
*Correct when*: presses add up; a stop is final; no sound starts that nobody
asked for; no fade leaves the volume low; the mode decides what follows a track;
the removal of the current track goes on at the right place.

**DataManager** (`core/datamanager.cpp`).
*State*: all tracks (`m_allMetas`), the playlists, the batch of imported tracks
yet to be written, the tasks of the analysis that have no result yet, the flag
`m_dirty`, and on disk the tables and `meta-analysis-pending.json`.
*Operations*: import, add to and remove from playlists, delete, batch write
(`upsertMetasDB`), full save (`saveDataToDB`), load at start, slots for the
threads' signals.
*Hard*: three threads that talk by queued signals only, so that each acts on an
old picture of the others; deletion and re-import of a track that is under way
in both threads; transactions that fail; a process that ends anywhere between
the writes of two files.
*Correct when*: no list names a track that is gone, nothing is lost when the
program thinks all is saved, nothing is parsed twice, no result is applied to
the wrong incarnation of a track, no task is lost.

**DBOperate** (`core/dboperate.cpp`): the import thread; `m_importingHashes`.
**MediaMetaWorker** (`core/mediametaworker.cpp`): the analysis thread; a queue
of tasks, their ids and generations, and the sets that avoid double work.

**Playlists** (`core/datamanager.cpp`, `presenter.cpp`).
*State*: of each playlist two sequences of hashes, `sortMetas` (what is in it) and
`sortCustomMetas` (what it shows in the user's own order), and the kind of order;
the current playlist; beside them the engine's queue.
*Hard*: every operation updates the two sequences, the playlist "play" and the
queue in its own way; imports arrive after what they were asked for has changed.
*Correct when*: the queue is what "play" lists; what is played is what was shown;
no operation hides a track.

**SdlPlayer** (`player/vlc/sdlplayer.cpp`, `player/vlc/MediaPlayer.cpp`).
*State*: the buffer `_data`, the flag `progressTag` that drops what is decoded, the
sound device.
*Operations*: open, play, pause, stop and seek on the GUI thread; libvlc's callbacks
that set the device up, pause, resume and fill the buffer; SDL's that empties it.
*Hard*: three threads, one mutex that covers less than each of them does, calls that
wait for threads, requests that libvlc carries out later.
*Correct when*: samples are heard once, in order, and of the current track; a
paused player is silent and a playing one is heard; no call hangs.

**CdaThread** (`player/vlc/cda.cpp`).
*State*: `m_cdaStat`, the list of the disc's tracks, shared with the GUI thread
without a lock; in the sidebar the entry, in the engine's queue the tracks.
*Operations*: poll, read a disc, announce it, clear; play it; quit.
*Hard*: discs come and go at any moment, the GUI thread handles old statuses.
*Correct when*: the entry is there when a disc is, plays all of it, and nothing of
an ejected disc remains.

**Presenter** (`presenter.cpp`) passes requests of the UI to the engine and the
data manager; **MPRIS** does so from D-Bus.  Tag, cover, lyric and waveform
parsing, bindings, settings and QML are conversions and I/O.

### Interaction

The UI calls the Presenter, which calls DataManager and PlayerEngine on the GUI
thread.  DataManager emits `signalImportMetas` and `signalClearImportingHash` to
DBOperate, which answers with `signalAddOneMeta` per file, then
`signalEnqueueMetaTasks` and `signalMetaBatchFinished`; DataManager forwards the
tasks to MediaMetaWorker, which answers with `signalMetaAnalysisReady`.  All are
`Qt::QueuedConnection`s except `invalidateMetaHash`, a direct call under a mutex.
The backend posts `end()` and its state changes to the engine.

`PROJECT.json` lists every component with its status and every hazard at its
line, with the properties that watch it or the reason why none does.

## 2. The models and the code

### PlayerEngine

Every handler of the engine runs to its end on the GUI thread, so each is one
action; what interleaves is their order.  The record `eng` holds what the
methods of the engine change together (loaded track, backend state, running
animation and the target it switches to, whether the level is full, pending
steps, timer).  A C++ method that others call (`Stop`, `Pause`,
`CancelTrackSwitchFade`, `RequestManualNavigation`, …) is an operator from the
record it finds to the record it leaves, so an action composes them in the order
of the calls.  Where the code draws at random (shuffle) an operator returns a
*set* of outcomes.

- An animation is one field `anim`: starting one stops another *without* its
  `finished()`, as the code's `stop()` calls do.  `FadeOutFinished`,
  `FadeInFinished`, `SwitchFadeOutFinished` are the handlers; `FadeProgress` is
  the moment an animation moves the level.
- `NavigationTimeout` is the timer of the merged presses, `LastProgressShot` the
  single shot 150 ms after the first play of a session.
- `BackendStarted`, `BackendFailed`, `BackendEnded` are libvlc; `BackendEnded`
  only posts an event (`ends`), and `HandleEnd` is the slot that runs later.
  `SdlWriteError` is the error that the code takes for an end.
- `FileVanishes`, `PrepareForSleep`, `WakeUp` are the environment.  The user
  acts only while the machine is awake; the engine's own timers are not so kind.

Left out: position, volume, mute and equalizer, and what MPRIS shows — nothing
modelled depends on them.  The build is the Linux one.  Queues have no
repetition, which is what the data manager hands over (`QueuesAssumption`); a late
import that repeats a track in the queue is in `Playlists`.

### LibraryQueues, MetaImport, MediaMetaWorker, Library

`LibraryQueues` has the three FIFO inboxes and the events' types.  A GUI-thread
slot is one action.  The import is *not*: `slotImportMetas` is a loop that emits
one signal per file while the other threads go on, so `BeginImport`, one
`ImportFile(f)` per file, `EndFiles`, `EmitEnqueue` and `EmitBatchFinished` are
separate actions, and a request carries what DataManager knew when it was
emitted (`known`, `listed`).  In the worker a task is taken (`ProcessNext`) and
answered (`FinishTask`) in two actions, between which the GUI thread may delete
the track; `processNext` calls itself through `QTimer::singleShot(0)`, an event
in the worker's own inbox.

`Library` composes them.  What is known of a track is one of four *qualities*:
nothing, its hash only, its tags, cover and lyrics too.  `mem` is DataManager,
`disk` the database and the file of tasks.  `Ends` loses everything but the disk
and may come between any two steps; `Starts` is the constructor's load.
`RemoveFromAll` is `removeFromPlayList` from "all", "album" or "artist" with
`deleteMetaFromAllMetas`, and posts both clear events.  A transaction of the
database succeeds or is rolled back as a whole (`DbOutcomes`).

Details that are easy to overlook and are in the model: a file that fails to
parse stays in `m_importingHashes`; a track known when its import was asked for
and deleted since is looked up in vain, and the *empty hash* (`NoTrack`) is added
to the playlist; a result changes the *first* copy of its track in
`m_importedMetas`, the batch writes them *in order*; `prepareStartupAssets` runs
some time after the start, and only then tasks reach the worker; tasks whose
path is unsafe stay in the file and are not analysed.

A playlist has no order here; that a save writes only what a playlist *shows* is the
choice `Hidden`, for the lists of `PartlyShown`: `Playlists` shows which these are.

`AnalysisImplemented` is `AnalysisService!Spec` under the mapping `TaskStatus`: the
task a track's generation stands for is *accepted* while the worker has its id or
is at it, *answered* while a result with that generation is on its way, *taken*
when it has been delivered; `held` is `m_metaAnalysisReadyHashes`.  The abstract
specification knows neither queues nor generations.

Left out: albums and artists, `updateMetaCodec`, search, deletion of files from
disk, failures to write the file of tasks and its old format.  The destructors
(`stopWorkerAndDrain`, `requestStop`) are not run by the application: it ends on
SIGTERM or by `forceExit()`, which is `SaveDataToDB` followed by `Ends`, with
further events in between.

### Playlists

Each operation of the GUI thread is one action over the data manager *and* the
queue: `addMetasToPlayList`, `removeFromPlayList` from one playlist
(`RemoveFromOne`) and from the library (`RemoveFromAll`, which goes by index and by
playlist), `sortPlaylist` (`SortPlaylist`, `CustomSort`), `moveMetasPlayList`,
`playPlaylist` with its short way (`IsPlaylistQueueMatched`), `playAlbum`/`playArtist`,
`clearPlayList`, `addPlayList`, `deletePlaylist`, and the import, of which the
answer arrives later (`SlotAddOneMeta`).  Loops that keep part of a sequence are
`Of` (the entries in a set), by way of their positions from the first to the last
(`Ordered`, `At`), a definition that can be reasoned about without induction.  The
engine's `removeMetasFromPlayList`
removes from the back and the presenter's slot from the front; both are kept
(`WithoutLast`, `RemoveFirst`), since a repeated track tells them apart.

`Restart` saves, ends and loads.  There is no second state for the disk: a crash
takes the program to what it last saved, which is a state it was in, reloaded.
All criteria of sorting are one order of the tracks; the playlists not saved, the
search, the tracks of CDs and `clearPlayList("all")`, which no QML calls, are left out.

### SdlAudio

A call of the GUI thread is a sequence of steps, `calling`, each one action; the
others run between them.  Of libvlc, which is external, it is assumed what its
documentation promises and the code relies on: one audio callback at a time;
`play`, `set_pause` and `set_time` are carried out later and in order; `stop` and
`set_media` wait for the callback under way and end the decoding.  SDL's
`SDL_PauseAudio` and `SDL_CloseAudio` wait for its callback, which runs only
while the device plays.  A file may end, or fail to open, whenever libvlc's
thread is between callbacks.  `SDL_audio_cbk` looks at the size without the mutex
(`CallbackLooks`), takes under it (`TakesChunk`, `TakesAll`) and clears under it
again (`CallbackCleans`): three steps.  `resume()`, `CheckDataZeroThread` and
`g_playbackStatus` are dead code: nothing calls `resume()` of this class, and the
status never takes the values the thread waits for.

### CdaMonitor

The thread's loop is cut where it sends a signal or changes what the GUI thread
can see: `Poll` (to the signal of `setCdaState`), `ClearMediaList` (after it),
`GetInputNode`, one `AddTrack` per node, `Announce`.  The statuses wait in
`pending` for `SendCdaStatus`.  The three questions to UDisks2 of one round are one
look at the drive, as the disc is looked at again when it is read.  A disc without a
track that has a duration, and one that cannot be read, are the empty set.  That
a `QList` is assigned by one thread and read by another is a data race, for which
the model has no outcome: each append is one step.

## 3. The runs

State counts are distinct states; the time is for two cores.

| run | cfg | states | what it shows |
|---|---|---|---|
| `direct` | `EngineDirect` | 67,160 (78 s) | fading off, all four modes, an unplayable track: presses, ends, removals, cache |
| `fade` | `EngineFade` | 74,562 (66 s) | fading on: which animation wins, and what it leaves behind |
| `live` | `EngineLive` | 127,750 (40 s) | files vanish, the setting is toggled, the machine sleeps: waiting presses are applied |
| `library` | `LibraryOne` | 130,004 (40 s) | two overlapping imports of one track, everything else that can happen to it; the refinement |
| `library_two` | `LibraryTwo` | 541,872 (55 s) | two imports of two tracks, one of which is not deleted: parsed once, batches, tasks, the steps of the refinement |
| `playlists` | `Playlists` | 49,672 (97 s) | orders, moves, imports, removals, restarts, with the queue beside them |
| `sdl` | `Sdl` | 253,228 (27 s) | the three threads over the buffer and the device |
| `cda` | `Cda` | 4,572 (1 s) | discs, thread, late statuses, sidebar, queue |
| `sleep` | `EngineSleep` | – | a disagreement of engine and comment |
| `resurrect`, `reimport` | `Library…` | – | disagreements of the library's code and comments |
| `shown` | `PlaylistsShown` | – | a disagreement of the playlists' code and comments |

### Properties

*Engine.*
`NoStrandedNavigation`: presses that wait always have the running timer that
applies them.
`PressesAddUp`: merged presses select the track that as many single presses
would, in cyclic modes, across unplayable tracks and while a switch fades.
`EndFollowsMode`, `RemovalKeepsPlace`: where playback goes at the end of a track
and after the removal of the current one.
`CacheCoherent`: every edit of the queue invalidates the cached answers.
`SilentWithoutTrack`, `StopIsFinal`, `NothingPlaysByItself`: no timer, animation
or late event loads or plays anything after a stop or a pause.
`LevelRestored`: no combination of interrupted fades leaves the volume low.
`NavigationApplied` (liveness): every batch of presses is applied or given up.

*Library.*
`EntriesKnown`: no playlist, in memory or on disk, names a track that is not in
the library beside it.
`CleanLosesNothing`: when `m_dirty` is false, so that the exit skips the save,
the database has all that memory has.
`ImportedOnce`: imports that overlap parse a file once, unless the user deletes it.
(A file deleted twice while answers about it are under way may be parsed again
beside an older answer: TLC finds it with four imports and a crash.)
`AnalysisImplemented`: worker, queues and generations implement `AnalysisService`:
a track that is accepted is analysed and taken once, and nothing of a task that was
cancelled is taken, though the track be deleted and imported anew meanwhile; and
(liveness) what is accepted is answered in the end, and what is answered is taken.
The service may cancel at any time, so a task that is dropped counts as cancelled;
that none is dropped while its track still lacks a cover is what `NoTaskLost` says.
`AnalysisSteps` is its part without fairness, for two tracks that share the queue.
`NoTaskLost`: a track without its cover has a task, or one on its way, as long
as the process runs.
`AllListComplete`: a track in the library is in "All Music".

*Playlists.*
`OnlyRepeatsDivide`: no step brings the queue and "play" apart, but one that puts a
track into the queue a second time (a late import does).
`PlaysWhatIsShown`: a playlist played is the queue, also by the short way.
`CustomOrderShows`: in a playlist in the user's order no import, removal or restart
makes the two sequences differ.
`MoveKeepsOthers`: a move loses and doubles nothing and puts what is moved where it
was dropped: at the end, where QML passes an empty `nextHash`, also if the list has an
empty hash; before a track, but for the last that remains.

*SdlAudio.*
`HeardOnceInOrder`: the unlocked look at the size and the late clearing neither
repeat nor reorder samples.
`OldTrackSilent`: after the device is set up nothing of another track is in the
buffer, whatever was being appended when it was opened.
`OpensClosedDevice`: the device is closed when it is opened, whatever the GUI thread
does between the steps of the setup.
`PausedIsSilent`, `PlayingIsHeard`: when all requests have been carried out the last
call decides, however they crossed one another and the setup.
`CallsReturn` (liveness): no call of the GUI thread hangs.

*CdaMonitor.*
`OneEntry`, `EntryPlaysWholeDisc`, `CdTracksAreListed`: the sidebar, the unlocked list
and the queue agree although nothing locks them.
`DiscIsOffered`, `EjectedDiscLeaves`, `ThreadEnds` (liveness): a disc that stays is
offered, one that is gone leaves everything, and quitting ends.

### Bounds, and why they are enough

- *Tracks and queues.*  Three tracks with a queue, its reverse, a one-element
  queue and the empty one: navigation needs a position with neighbours on both
  sides, one unplayable track in the middle shows every skip, and the reverse
  queue makes moves visible.
- *MaxPending = 2 (1 with fading), MaxEnds = 1.*  Two waiting steps distinguish
  "the sum" from "the last press"; a third only repeats.  Two ends queued behind
  one another are two `HandleEnd`s in a row, which the runs contain anyway.
- *FadeSettings* is one value in `fade`, since `LevelRestored` is meant for a
  constant setting; `live` toggles it.
- *Library.*  Every property quantifies over single tracks, and the code treats
  tracks independently except in batches, the file of tasks and the worker's
  queue, hence one run with one track, and one with two of which one is never
  deleted (`Deletable`, the tracks the user may delete, is the other) and the
  user edits no playlist.  Two imports are what overlap and re-import need; three
  of one track that is not deleted (201,903 states) satisfy `ImportedOnce` too.
  One playlist, "play", besides "all" has every role a playlist can have: a
  target, the current playlist, and the copy of it.  `MaxImports` is the only
  counter that is cut; task ids and generations grow with imports.  Two tracks
  that may both be deleted, with failing transactions, two imports and edits
  (4.7 million states) satisfy the safety properties too, but take longer than a
  run should.
- *Playlists.*  Two tracks, the library full at first, one playlist of the user and
  one import: two tracks are what an order needs to be wrong, one import what a late
  answer needs.  Three tracks without an import (56,892 states) satisfy the
  properties too; with one they take longer than a run should.
- *SdlAudio.*  A chunk of two samples separates "as much as is asked for" from "all
  there is"; three samples fill a chunk and leave one over.  Six calls are an open,
  a play, and four that cross it.  The device may fail to open.  `TreeLand`, where the
  device is never closed by `stop()` and `open()`, satisfies the same (242,738
  states).
- *CdaMonitor.*  A disc of two tracks can be half read; with another disc and a blank
  one, and four changes, discs are exchanged while one is read and announced.
- Deadlock is checked in all runs but `sdl`, whose calls and samples are bounded, and
  `cda`, where the program quits.

### Fairness

`PlayerEngine!FairSpec` has weak fairness of `NavigationTimeout` and
`SwitchFadeOutFinished` only: a running `QTimer` and a running
`QPropertyAnimation` end as long as the GUI thread's event loop runs.  Nothing is
assumed of the user or of libvlc.  `Library!FairSpec` has weak fairness of each
of the three threads as a whole: an event loop with events delivers the first of
its queue, but nobody promises a save, another import or a restart.
`SdlAudio!FairSpec` has it of the steps of a call that is under way, of libvlc's
callbacks once begun and of its carrying out of requests, and of SDL's callback;
neither calls nor samples need come.  `CdaMonitor!FairSpec` has it of the thread and
of the GUI thread's handling of statuses; its fairness assumes that a round of the
thread, which talks to UDisks2 and libvlc, returns.

### Findings

Each is a run whose property quotes the repository and is violated by what the
code does.

- `sleep`: a batch of presses or a switch that is pending at suspend plays again
  after the pause (`playerengine.cpp:692`).
- `resurrect`: a track deleted while its import runs stays in `m_importedMetas`
  and returns to the database after a full save has made memory clean
  (`datamanager.cpp:528`).
- `reimport`: a track deleted between its arrival and its analysis task leaves a
  finished hash in the worker; imported again, it is not analysed before the next
  start (`datamanager.cpp:2628`).
- `shown`: a track added to the playlist that is being played is appended to
  `sortMetas` of "play" and not to its custom order, which is what is shown and saved
  (`datamanager.cpp:1555`).

Other places where the models differ from what a name, changelog or comment of the
repository leads one to expect; the properties above exempt them:

- An edit of the queue cancels the timer of the merged presses and not the fade-out
  of their switch, so the next press counts from the track that is being left and one
  press is lost (`playerengine.cpp:531`, against the comment at :761).
- Next with no playable track leaves the current one loaded
  (`playerengine.cpp:786`); `src/debian/changelog:132` says that it stops.
- Removing the current track in RepeatSingle goes on with the one before it
  (`playerengine.cpp:594`); a test's name and comment say the next.
- A move before the last remaining track puts the tracks behind it
  (`datamanager.cpp:1790`).
- Samples decoded before libvlc carries out a seek are appended after `setTime()` has
  cleared the buffer (`sdlplayer.cpp:349`, "clear data when seek").
- A disc exchanged between two polls is not noticed: the tracks of the first one
  stay offered (`cda.cpp:207`).

## 4. The proofs

The theorems hold for all values of the constants that satisfy the named
assumptions (`TracksAssumption`, `QueuesAssumption`, …): any set of tracks — in
the library a finite one, since a task list is ordered by enumerating it — any
queues, modes, playlists and bounds.

**PlayerEngineProofs**: `TypeCorrect`, `NavigationNeverStranded`,
`SilenceWithoutTrack`, `StoppingIsFinal`, `SoundIsAskedFor`,
`CachedAnswerIsCurrent` (for files that stay), `LevelIsRestored` (for one fade
setting of either value).  The inductive
invariant is `TypeOK /\ Sound(eng) /\ NoStrandedNavigation`.  `Sound` adds to
`SilentWithoutTrack` that a switch fading out has a track to switch to: without
it the end of that fade could load nothing and leave the backend playing.
`NoStrandedNavigation` does not hold *inside* `requestManualNavigation`, which
counts the step before it starts the timer, so `Steady` says of each method that
it either leaves steps and timer alone or drops the steps; the methods have a
lemma each, composed in the order of the calls.

For `LevelIsRestored` the strengthening is that without fading nothing is ever
animated (`Untouched`), and per method whether it may leave an animation over a level
that is not full.

**PlayerEngineQueue**: `ModeDecidesWhatFollows`, `RemovalGoesOn`,
`MergedPressesAddUp`, for queues of any length, any deleted files and any number of
presses.  The code counts in indices among the *playable* tracks, the properties speak
of positions in the queue.  The lemmas on `Rank` translate: ranks grow with the
positions (`RankGrows`), each below their number is taken once (`RankTaken`,
`RankOfPlayable`), the nearest playable position behind a track has the next rank
whether the track itself is playable or not (`LaterRank`).  `BeginsAgain` covers the
index in the whole queue that `playNextMeta` falls back to when nothing playable
follows: it is too large, so it is cut off to 0.  A removal shifts positions
(`WithoutOne`, `RemovalShifts`).  The presses are a recursion over neighbours
(`Walked`), which `WalkedTo` brings into closed form, by the least number of presses at
which the two would differ; C++'s truncating `%` is the remainder (`WrapFacts`).  Beside
the engine's invariant they need that the queue stays without repetition
(`QueueInvariance`): in shuffle mode "another index" is another track only then.

**LibraryProofs**: `LibraryTypeCorrect`, `ListsNameKnownTracks`,
`NothingLostWhenClean`, `AllMusicIsComplete`.  The inductive invariant is
`TypeOK /\ Sound(mem, disk, running)`, where `Sound` is `EntriesKnown` and
`CleanLosesNothing` on any memory and disk.  Neither is inductive without types
and the other: the start takes the playlists of the *disk* into memory, so the
disk's must be sound, and a save takes those of memory to the disk.  Three
lemmas carry most steps: `LittleChange` (tracks, lists and flag stay, the disk
only gains rows), `DirtyChange` (the flag is set, so only the lists matter), and
`Handled` (a slot of the GUI thread that takes one event).  `AllMusicIsComplete`
is an action property: `Stays` is proved of each step from the invariant, using
that the user cannot edit "all" by hand.

**AnalysisProofs**: `AnalysisIsImplemented`, the steps of `AnalysisService` under the
mapping `TaskStatus`, for any tracks, imports, deletions, crashes and restarts.  The
invariant `AInv` ties the generations, which the GUI thread writes, to the worker
and its inbox.  Task numbers are never shared
(`TasksCounted`) and each result is there once (`ResultsCounted`).  The part that is
not obvious is `ClearedInTime`: `removeFromPlayList` zeroes the generation at once but
`clearMetaHash` reaches the worker later, and in between an older `enqueueMetas` may
give the track a new, current task.  That task is never begun before the clear:
`m_processScheduled` keeps at most one `processNext` in the inbox (`Scheduling`), which
is there only if the queue had a task before, so it takes that one.  Steps are first
reduced to what they do to these relations (`Quiet`, `Enqueues`), then each is shown to
be one of Accept, Answer, Take, Discard, Store, Cancel, Shutdown or a stutter.

**ImportProofs**: `FilesAreParsedOnce`, `NoTaskIsLost`, from `LInv`, which ties the
events between the data manager and the import thread to their state.  `Kept`, of a
track that is not deleted: as soon as it is known, or an answer about it is on its way,
it is still in `m_importingHashes` or known to the import under way and to all that
wait.  This needs `KnownRises`: an import that forgets the hash of a track, because its
request knows it, has no request behind it that does not.  `Tasked`, of any track: an
answer with tags that no task follows in the queue belongs to the import under way,
which has not handed over its tasks yet (`TaskToFollow`), and a result that is held is
of a track that has it.  Steps are reduced to what they do to one track (`Keeps`,
`Serves`, for most of them `Calm`).

**PlaylistsProofs**: `PlaylistsTyped`, `MovesKeep`, `ShownIsPlayed`,
`OwnOrderShows`, `OnlyRepeats`, for any finite set of tracks, any playlists, moves of any
selection and any number of imports.  The inductive invariant is
`TypeOK /\ AllIsSorted /\ PlayListsOnce`.  `AllIsSorted`, that "All Music" is never in
the user's own order, is what `ShownIsPlayed` rests on: the short way of
`playPlaylist` compares one of its two sequences with the queue, and an "all" whose
`sortMetas` are empty shows neither.  `PlayListsOnce`, that "play" lists each track
once, and of the library only, is what `OnlyRepeats` rests on: queue and "play" are edited by different code, the engine from the back and the presenter
from the front, which comes to the same only for entries there once (`Lost`, `Follows`).
The first part is a theory of `Of`: any strictly increasing way through the positions of a
set is the one (`GoesThrough`, `OfThrough`), from which it distributes over concatenation
(`OfConcat`), composes (`OfOf`) and commutes with what takes one entry out.  A move is two
such parts put together again (`MovedTo`, `Between`, `Rearranged`).

**SdlAudioProofs**: `SdlTypeCorrect`, `DeviceOpenedWhenClosed`, `NoOldTrackHeard`,
`HeardInOrder`, `PausedPlayerIsSilent`, `PlayingPlayerIsHeard`, for any chunk, both
desktops and without the bounds.  Each has its invariant beside the types.  Types need
that a `play` under way has a track.
`OpensClosedDevice` needs that it stays closed from its closing by the setup until it
is opened.  `OldTrackSilent` needs that the block being appended is of the current
track, since libvlc's halt waits for the callback.  `HeardOnceInOrder` needs that what is
in `_data` comes after all that has been heard, but for the moment in which the SDL
callback has taken all and not yet cleared, and that the block being appended comes
after both.  `PausedIsSilent` and `PlayingIsHeard` speak of the moments when nothing is
under way; their invariant `WishInv` says what is still owed in between: which steps a
call of each kind can have left (`CallInv`), and that the last request libvlc has been
given, or that a step of the call will still give it, is the one that decides
(`OutputInv`, `PauseInv`, `PlayInv`), whichever callback is setting the device up.

**CdaMonitorProofs**: `CdaTypeCorrect`, `SidebarAgrees`, `WholeDiscPlayed`,
`NoGhostTracks`, for any discs and any lateness.  The invariant is about the statuses
that are pending: they alternate and end with what the thread has said last
(`TurnsInv`), so the number of entries and pending statuses decide each other; and
what is being filled, with the nodes still to be read, is one disc (`FillInv`).

Model-checked only: liveness (`NavigationApplied`, `CallsReturn`,
`DiscIsOffered`, `EjectedDiscLeaves`, `ThreadEnds`), which is beyond the prover;
the fairness in `AnalysisImplemented`, whose steps are proved.

## 5. Plan

1. *Done:* the engine, the library with its threads and the abstract specification
   they implement, the playlists with the queue, the sound output, the CD monitor,
   their runs and the theorems above.
2. Albums and artists with `updateMetaCodec`: every track is in exactly one album
   and in the albums of its artists (`datamanager.cpp:2269` puts a track into its
   album and removes it again).

Not modelled and not planned: tag, cover, lyric and waveform parsing, bindings of
libvlc and SDL, settings, colour clustering, QML, the Qt multimedia backend and
the Windows media controls; they are conversions, wrappers or the same interface
as what is modelled.
