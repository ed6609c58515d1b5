---------------------------- MODULE PlayerEngine ----------------------------
(***************************************************************************)
(* The play queue and the playback controls of libdmusic                   *)
(* (player/playerengine.cpp), driven by the user, by MPRIS, by the timers  *)
(* and animations the engine starts, by the audio backend (player/         *)
(* vlcplayer.cpp) and by the file system.                                  *)
(*                                                                         *)
(* All of it runs on the GUI thread, one handler at a time, so each handler *)
(* is one action.  What interleaves is their order: an animation or a timer *)
(* started by one handler ends after others ran, and an end-of-track event  *)
(* raised in a libvlc thread is a queued call (ends) handled later.         *)
(*                                                                         *)
(* The state that belongs to the playing engine is one record, eng, and a   *)
(* method of PlayerEngine that other methods call is an operator from such  *)
(* a record to the record the method leaves.                                *)
(***************************************************************************)
EXTENDS Integers, Sequences, FiniteSets

CONSTANTS
    Tracks,        \* the tracks (MediaMeta, told apart by hash)
    NoTrack,       \* the empty MediaMeta
    Queues,        \* the lists the data manager hands over, without repetition
    Missing,       \* tracks that are not playable from the start
    Vanishing,     \* tracks whose file may be deleted while playing
    Modes,         \* the playback modes the user may choose
    FadeSettings,  \* the values base.play.fade_in_out may take
    MaySuspend,    \* whether the machine may be suspended
    CacheQueries,  \* the tracks hasNextPlayableMeta is asked about
    MaxPending,    \* bound on the merged navigation steps
    MaxEnds        \* bound on the queued end-of-track events

PlaybackModes == {"RepeatAll", "RepeatSingle", "Shuffle", "RepeatNull"}

ASSUME TracksAssumption == NoTrack \notin Tracks
ASSUME QueuesAssumption ==
    \A q \in Queues : /\ q \in Seq(Tracks)
                     /\ \A i, j \in DOMAIN q : q[i] = q[j] => i = j
ASSUME FilesAssumption == Missing \subseteq Tracks /\ Vanishing \subseteq Tracks
ASSUME SettingsAssumption == /\ Modes \subseteq PlaybackModes
                             /\ FadeSettings \subseteq BOOLEAN
                             /\ MaySuspend \in BOOLEAN
                             /\ CacheQueries \subseteq Tracks
ASSUME BoundsAssumption == MaxPending \in Nat /\ MaxEnds \in Nat

VARIABLES
    metaList,      \* m_metaList, the play queue
    playbackMode,  \* m_playbackMode
    fadeInOut,     \* m_fadeInOut, the user's setting
    playable,      \* the tracks whose file exists and has a supported suffix
    cache,         \* m_playableMetaCache* and m_has{Next,Previous}PlayableMeta
    ends,          \* end() signals posted by libvlc's thread, not yet handled
    asleep,        \* between PrepareForSleep(true) and PrepareForSleep(false)
    eng            \* the engine proper, see EngineState

vars == <<metaList, playbackMode, fadeInOut, playable, cache, ends, asleep, eng>>

Statuses == {"Stopped", "Opening", "Playing", "Paused"}
Animations == {"none", "fadeOut", "fadeIn", "switchOut", "switchIn"}
MaybeTrack == Tracks \cup {NoTrack}
Target == [track : MaybeTrack, play : BOOLEAN, keep : BOOLEAN]
NoTarget == [track |-> NoTrack, play |-> FALSE, keep |-> FALSE]

(***************************************************************************)
(* media, status  the backend's track and state; playbackStatus() reports  *)
(*                Opening as Stopped                                        *)
(* anim           the one running animation of the fadeInOutFactor property *)
(*                (starting another one stops it without its finished())    *)
(* target         what the running switchOut animation switches to          *)
(* factor         whether the factor is 1.0 or lower                        *)
(* flag           INT_LAST_PROGRESS_FLAG = 1                                *)
(* shot           the QTimer::singleShot(150) of play() runs                *)
(* pending        m_pendingManualNavigation                                 *)
(* navTimer       m_manualNavigationTimer->isActive()                       *)
(***************************************************************************)
EngineState ==
    [media : MaybeTrack, status : Statuses, anim : Animations, target : Target,
     factor : {"full", "reduced"}, flag : BOOLEAN, shot : BOOLEAN,
     pending : Int, navTimer : BOOLEAN]

CacheState ==
    [valid : BOOLEAN, hash : MaybeTrack, next : BOOLEAN, previous : BOOLEAN]

TypeOK ==
    /\ metaList \in Seq(Tracks)
    /\ playbackMode \in PlaybackModes
    /\ fadeInOut \in BOOLEAN
    /\ playable \in SUBSET Tracks
    /\ cache \in CacheState
    /\ ends \in Nat
    /\ asleep \in BOOLEAN
    /\ eng \in EngineState

-----------------------------------------------------------------------------
(* The queue. *)

Queued(q) == {q[i] : i \in DOMAIN q}

\* The positions of the tracks the engine may switch to.
PlayableAt(q) == {i \in DOMAIN q : q[i] \in playable}

\* How many playable tracks stand before position i: the index the track at i
\* has (or would have) in the list of playable tracks.
Rank(q, i) == Cardinality({j \in PlayableAt(q) : j < i})

\* The playable track of index k, counted from 0, as a set of one track.
PlayableOfRank(q, k) == {q[i] : i \in {j \in PlayableAt(q) : Rank(q, j) = k}}

PositionOf(q, t) == CHOOSE i \in DOMAIN q : q[i] = t

\* The playable tracks' index of t, or -1 when t is not among them.
IndexOf(q, t) == IF \E i \in PlayableAt(q) : q[i] = t
                 THEN Rank(q, PositionOf(q, t)) ELSE -1

\* The queue without the tracks of S: its k-th element is the k-th of those kept.
Without(q, S) ==
    LET kept == {i \in DOMAIN q : q[i] \notin S}
        upTo(i) == Cardinality({j \in kept : j <= i})
    IN  [k \in 1 .. Cardinality(kept) |-> q[CHOOSE i \in kept : upTo(i) = k]]

-----------------------------------------------------------------------------
(* The backend: what the engine calls of PlayerBase. *)

\* VlcPlayer::play(): a stopped player opens its media, a paused one goes on.
BackendPlay(r) ==
    [r EXCEPT !.status = CASE r.status = "Stopped" -> "Opening"
                           [] r.status = "Paused" -> "Playing"
                           [] OTHER -> r.status]

\* VlcPlayer::pause(): libvlc pauses only what it is playing.
BackendPause(r) ==
    [r EXCEPT !.status = IF r.status = "Playing" THEN "Paused" ELSE r.status]

-----------------------------------------------------------------------------
(* The methods of PlayerEngine. *)

\* Mutant: the timer is stopped and the steps are kept.
CancelManualNavigation_KeepsSteps(r) == [r EXCEPT !.navTimer = FALSE]

\* cancelManualNavigation()
CancelManualNavigation(r) == [r EXCEPT !.pending = 0, !.navTimer = FALSE]

\* Mutant: only the fade-in of a switch is cancelled.
CancelTrackSwitchFade_FadeInOnly(r) ==
    IF r.anim = "switchIn" THEN [r EXCEPT !.anim = "none"] ELSE r

\* cancelTrackSwitchFade(): the factor keeps the value the animation gave it.
CancelTrackSwitchFade(r) ==
    IF r.anim \in {"switchOut", "switchIn"}
    THEN [r EXCEPT !.anim = "none", !.target = NoTarget] ELSE r

\* QPropertyAnimation::start(): stops the one that runs on the same property.
Start(r, anim, factor) ==
    [r EXCEPT !.anim = anim, !.factor = factor, !.target = NoTarget]

\* QPropertyAnimation::stop()
Halt(r, anim) == IF r.anim = anim THEN [r EXCEPT !.anim = "none"] ELSE r

\* setMediaMeta(meta); keep is m_keepManualNavigation.
SetMediaMeta(r, m, keep) ==
    LET cancelled == IF keep THEN r
                     ELSE CancelTrackSwitchFade(CancelManualNavigation(r))
    IN  [cancelled EXCEPT !.flag = r.flag /\ r.media = NoTrack,
                          !.media = m,
                          !.status = "Stopped"]

\* pause()
Pause(r) ==
    LET quiet == Halt(r, "fadeIn")
    IN  CASE fadeInOut /\ r.anim # "fadeOut" -> Start(quiet, "fadeOut", "full")
          [] fadeInOut /\ r.anim = "fadeOut" ->
                [BackendPause(quiet) EXCEPT !.factor = "full"]
          [] OTHER -> [BackendPause(r) EXCEPT !.factor = "full"]

\* The last lines of play(): the first play after a start pauses again and
\* sets a timer, so that the restored position takes effect.
LastProgress(r) ==
    IF r.flag THEN [Pause(r) EXCEPT !.shot = TRUE, !.flag = FALSE] ELSE r

\* The choice play() and resume() share: the loaded track, or the first one of
\* the queue q when there is none (forcePlay()).
PlayLoaded(r, q) ==
    CASE r.media # NoTrack -> BackendPlay(r)
      [] r.media = NoTrack /\ q # <<>> ->
            LastProgress(BackendPlay(SetMediaMeta(r, Head(q), FALSE)))
      [] OTHER -> r

\* play()
Play(r, q) ==
    LET ready == IF fadeInOut THEN [Halt(r, "fadeOut") EXCEPT !.factor = "full"] ELSE r
    IN  LastProgress(PlayLoaded(ready, q))

\* resume()
Resume(r, q) ==
    LET ready == IF fadeInOut THEN Halt([r EXCEPT !.factor = "reduced"], "fadeOut") ELSE r
        begun == PlayLoaded(ready, q)
    IN  IF fadeInOut /\ begun.anim # "fadeIn" THEN Start(begun, "fadeIn", "reduced")
        ELSE begun

\* Mutant: the backend is stopped and emptied without setMediaMeta().
Stop_BackendOnly(r) == [r EXCEPT !.status = "Stopped", !.media = NoTrack]

\* stop()
Stop(r) ==
    SetMediaMeta([CancelTrackSwitchFade(r) EXCEPT !.status = "Stopped"], NoTrack, FALSE)

\* switchToNewTrackWithFade(meta, playFlag, keepManualNavigation)
SwitchTo(r, q, m, play, keep) ==
    LET free == CancelTrackSwitchFade(r)
        there == SetMediaMeta(free, m, keep)
    IN  IF fadeInOut /\ r.status = "Playing"
        THEN [Start(free, "switchOut", "full") EXCEPT
                  !.target = [track |-> m, play |-> play, keep |-> keep]]
        ELSE IF play THEN Play(there, q) ELSE there

\* Switching to track m of the queue q, or stopping when there is none.
SwitchOrStop(r, q, m, play, keep) ==
    IF m = NoTrack THEN Stop(r) ELSE SwitchTo(r, q, m, play, keep)

\* C++'s %, which truncates towards zero.
CRem(a, n) == IF a >= 0 THEN a % n ELSE -((-a) % n)

\* A remainder moved into 0 .. n - 1, as executeManualNavigation() does it.
Wrap(a, n) == IF CRem(a, n) < 0 THEN CRem(a, n) + n ELSE CRem(a, n)

\* The indices `steps` draws of a random other track may lead to.
ShuffleReach(from, steps, n) ==
    LET reach[k \in Nat] ==
            IF k = 0 \/ n = 1 THEN {from}
            ELSE UNION {(0 .. n - 1) \ {i} : i \in reach[k - 1]}
    IN  reach[IF steps < 0 THEN -steps ELSE steps]

\* Where executeManualNavigation() may go from track cur: a set of tracks, of
\* which NoTrack stands for stop().
NavigationTargets(q, cur, steps) ==
    LET n == Cardinality(PlayableAt(q))
        at == IndexOf(q, cur)
        from == IF at = -1 THEN 0 ELSE at
    IN  CASE playbackMode = "RepeatNull" /\ steps < 0 /\ at + steps < 0 -> {NoTrack}
          [] playbackMode = "Shuffle" ->
                UNION {PlayableOfRank(q, k) : k \in ShuffleReach(from, steps, n)}
          [] playbackMode \in {"RepeatAll", "RepeatSingle"} /\ steps < 0 ->
                PlayableOfRank(q, Wrap(from + steps, n))
          [] OTHER -> PlayableOfRank(q, Wrap(at + steps, n))

\* Mutant: the steps are taken only after the early return.
ExecuteManualNavigation_LateReset(r, q) ==
    IF r.pending = 0 \/ PlayableAt(q) = {} THEN {r}
    ELSE {SwitchOrStop([r EXCEPT !.pending = 0], q, m, TRUE, TRUE) :
             m \in NavigationTargets(q, r.media, r.pending)}

\* executeManualNavigation(): the records it may leave.
ExecuteManualNavigation(r, q) ==
    LET taken == [r EXCEPT !.pending = 0]
    IN  IF r.pending = 0 \/ PlayableAt(q) = {} THEN {taken}
        ELSE {SwitchOrStop(taken, q, m, TRUE, TRUE) :
                 m \in NavigationTargets(q, r.media, r.pending)}

\* Mutant: the last press replaces the ones that wait.
RequestManualNavigation_LastOnly(r, q, steps) ==
    LET asked == [r EXCEPT !.pending = steps]
    IN  IF r.navTimer THEN {asked}
        ELSE {[x EXCEPT !.navTimer = TRUE] : x \in ExecuteManualNavigation(asked, q)}

\* requestManualNavigation(steps)
RequestManualNavigation(r, q, steps) ==
    LET asked == [r EXCEPT !.pending = r.pending + steps]
    IN  IF r.navTimer THEN {asked}
        ELSE {[x EXCEPT !.navTimer = TRUE] : x \in ExecuteManualNavigation(asked, q)}

\* Mutant: an unplayable current track counts as not found.
AdvanceFrom_PlayableOnly(q, cur) == IndexOf(q, cur)

\* The index playNextMeta() starts counting from: the current track's among the
\* playable ones; for an unplayable one in the queue, the index before it, or
\* (a quirk) its index in the whole queue when nothing playable follows.
AdvanceFrom(q, cur) ==
    LET at == PositionOf(q, cur)
    IN  CASE IndexOf(q, cur) # -1 -> IndexOf(q, cur)
          [] IndexOf(q, cur) = -1 /\ cur \in Queued(q) ->
                IF \E i \in PlayableAt(q) : i > at THEN Rank(q, at) - 1 ELSE at - 1
          [] OTHER -> -1

\* playNextMeta(cur, true, ..) after track cur: the tracks it may switch to.
AutoTargets(q, cur) ==
    LET n == Cardinality(PlayableAt(q))
        from == AdvanceFrom(q, cur)
        clamp(k) == IF k = -1 \/ k >= n THEN 0 ELSE k
        later == {i \in PlayableAt(q) : i > PositionOf(q, cur)}
    IN  CASE playbackMode = "RepeatNull" /\ cur \in Queued(q) ->
                IF later = {} THEN {NoTrack}
                ELSE {q[i] : i \in {j \in later : \A k \in later : j <= k}}
          [] playbackMode = "RepeatNull" /\ cur \notin Queued(q) ->
                IF q = <<>> THEN {NoTrack} ELSE {Head(q)}
          [] playbackMode # "RepeatNull" /\ n = 0 -> {NoTrack}
          [] playbackMode = "RepeatAll" /\ n > 0 ->
                PlayableOfRank(q, clamp(IF from = n - 1 THEN 0 ELSE from + 1))
          [] playbackMode = "RepeatSingle" /\ n > 0 -> PlayableOfRank(q, clamp(from))
          [] OTHER -> UNION {PlayableOfRank(q, k) :
                                k \in IF n = 1 THEN {0} ELSE (0 .. n - 1) \ {from}}

AutoAdvance(r, q, cur, play) ==
    {SwitchOrStop(r, q, m, play, FALSE) : m \in AutoTargets(q, cur)}

-----------------------------------------------------------------------------
(* hasNextPlayableMeta(), hasPreviousPlayableMeta() and their cache. *)

NoCache == [valid |-> FALSE, hash |-> NoTrack, next |-> FALSE, previous |-> FALSE]

\* invalidatePlayableMetaCache()
Invalidated == [cache EXCEPT !.valid = FALSE]

HasNext(q, t) == /\ IndexOf(q, t) # -1
                 /\ \E i \in PlayableAt(q) : i > PositionOf(q, t)
HasPrevious(q, t) == /\ IndexOf(q, t) # -1
                     /\ \E i \in PlayableAt(q) : i < PositionOf(q, t)

-----------------------------------------------------------------------------

Init ==
    /\ metaList \in Queues
    /\ playbackMode \in Modes
    /\ fadeInOut \in FadeSettings
    /\ playable = Tracks \ Missing
    /\ cache = NoCache
    /\ ends = 0
    /\ asleep = FALSE
    /\ \E m \in Queued(metaList) \cup {NoTrack} :
          eng = [media |-> m, status |-> "Stopped", anim |-> "none",
                 target |-> NoTarget, factor |-> "full", flag |-> TRUE,
                 shot |-> FALSE, pending |-> 0, navTimer |-> FALSE]

\* What a handler that only works on the engine leaves alone.
OnlyEngine == UNCHANGED <<metaList, playbackMode, fadeInOut, playable, cache, ends, asleep>>

\* What a handler that also changes the queue leaves alone.
QueueAndEngine == UNCHANGED <<playbackMode, fadeInOut, playable, ends, asleep>>

\* The user, the UI and MPRIS act only while the machine is awake.
UserActs == ~asleep

-----------------------------------------------------------------------------
(* What the user and MPRIS ask for. *)

\* playNextMeta(false) and playPreMeta()
Navigate(steps) ==
    /\ UserActs
    /\ eng.pending + steps \in -MaxPending .. MaxPending
    /\ eng' \in RequestManualNavigation(eng, metaList, steps)
    /\ OnlyEngine

PlayNextMeta == Navigate(1)
PlayPreMeta == Navigate(-1)

\* Presenter::play() and Presenter::resume(), with a queue
UserPlay ==
    /\ UserActs /\ metaList # <<>>
    /\ eng' = Play(eng, metaList)
    /\ OnlyEngine

\* Presenter::pause()
UserPause == UserActs /\ eng' = Pause(eng) /\ OnlyEngine

\* pauseNow(), MPRIS Pause
PauseNow == UserActs /\ eng' = BackendPause(eng) /\ OnlyEngine

\* stop(), also MPRIS Stop
UserStop == UserActs /\ eng' = Stop(eng) /\ OnlyEngine

\* playPause(), with a queue
PlayPause ==
    /\ UserActs /\ metaList # <<>>
    /\ CASE eng.status = "Paused" -> eng' = Resume(eng, metaList)
         [] eng.status = "Playing" -> eng' = Pause(eng)
         [] eng.status \in {"Stopped", "Opening"} /\ eng.media # NoTrack ->
               eng' = Play(eng, metaList)
         [] OTHER -> /\ eng.pending < MaxPending
                     /\ eng' \in RequestManualNavigation(eng, metaList, 1)
    /\ OnlyEngine

\* MprisPlayer::playRequested, with a queue; unlike playPause() it pauses at once.
MprisPlay ==
    /\ UserActs /\ metaList # <<>>
    /\ CASE eng.status = "Paused" -> eng' = Resume(eng, metaList)
         [] eng.status = "Playing" -> eng' = BackendPause(eng)
         [] eng.status \in {"Stopped", "Opening"} /\ eng.media # NoTrack ->
               eng' = Play(eng, metaList)
         [] OTHER -> /\ eng.pending < MaxPending
                     /\ eng' \in RequestManualNavigation(eng, metaList, 1)
    /\ OnlyEngine

\* setMediaMeta(hash): only a track of the queue is loaded.
SelectMeta(m) ==
    /\ UserActs /\ m \in Queued(metaList)
    /\ eng' = SetMediaMeta(eng, m, FALSE)
    /\ OnlyEngine

\* signalImportFinished with the track to play now
PlayImported(m) ==
    /\ UserActs
    /\ LET loaded == IF m # eng.media /\ m \in Queued(metaList)
                     THEN SetMediaMeta(eng, m, FALSE) ELSE eng
       IN  eng' = Play(loaded, metaList)
    /\ OnlyEngine

\* setPlaybackMode() leaves the pending steps for the new mode.
SetPlaybackMode(mode) ==
    /\ ~asleep /\ mode # playbackMode
    /\ playbackMode' = mode
    /\ UNCHANGED <<metaList, fadeInOut, playable, cache, ends, asleep, eng>>

\* setFadeInOut() leaves the running animation alone.
SetFadeInOut(on) ==
    /\ ~asleep /\ on # fadeInOut
    /\ fadeInOut' = on
    /\ UNCHANGED <<metaList, playbackMode, playable, cache, ends, asleep, eng>>

-----------------------------------------------------------------------------
(* What changes the queue. *)

\* Mutant: the cached answer survives an added track.
AddMeta_KeepsCache(m) ==
    /\ UserActs /\ m \notin Queued(metaList)
    /\ metaList' = Append(metaList, m)
    /\ eng' = CancelManualNavigation(eng)
    /\ cache' = cache
    /\ QueueAndEngine

\* addMetasToPlayList() of one more track
AddMeta(m) ==
    /\ UserActs /\ m \notin Queued(metaList)
    /\ metaList' = Append(metaList, m)
    /\ eng' = CancelManualNavigation(eng)
    /\ cache' = Invalidated
    /\ QueueAndEngine

\* removeMetaFromPlayList(hash)
RemoveMeta(m) ==
    /\ UserActs
    /\ metaList' = Without(metaList, {m})
    /\ eng' = CancelManualNavigation(eng)
    /\ cache' = IF m \in Queued(metaList) THEN Invalidated ELSE cache
    /\ QueueAndEngine

\* Mutant: the successor of the removed track itself, which is gone.
RemovalAnchor_Itself(q, S, cur) == cur

\* The track removeMetasFromPlayList() takes the successor of: the one before
\* the first position its backward loop visits, and that loop visits them all
\* when S has tracks the queue has not.
RemovalAnchor(q, S, cur) ==
    LET removed == {i \in DOMAIN q : q[i] \in S}
        first == IF S \subseteq Queued(q)
                 THEN CHOOSE i \in removed : \A j \in removed : i <= j ELSE 1
    IN  IF cur \in Queued(q) /\ first > 1 THEN q[first - 1] ELSE cur

\* removeMetasFromPlayList(hashes)
RemoveMetas(S) ==
    /\ UserActs
    /\ LET calm == CancelManualNavigation(eng)
           q == Without(metaList, S)
       IN  /\ metaList' = q
           /\ cache' = IF q = metaList THEN cache ELSE Invalidated
           /\ CASE q = <<>> -> eng' = Stop(calm)
                [] q # <<>> /\ eng.media \in S ->
                     eng' \in AutoAdvance(calm, q, RemovalAnchor(metaList, S, eng.media),
                                          eng.status = "Playing")
                [] OTHER -> eng' = calm
    /\ QueueAndEngine

\* clearPlayList(stopFlag), by Presenter::clearPlayList() with its default TRUE
ClearPlayList ==
    /\ UserActs
    /\ metaList' = <<>>
    /\ eng' = IF eng.media # NoTrack THEN Stop(CancelManualNavigation(eng))
              ELSE CancelManualNavigation(eng)
    /\ cache' = Invalidated
    /\ QueueAndEngine

\* Presenter::moveMetasPlayList(): the queue is cleared, without a stop, and
\* filled again in the new order.
MoveMetas(q) ==
    /\ UserActs /\ Queued(q) = Queued(metaList)
    /\ metaList' = q
    /\ eng' = CancelManualNavigation(eng)
    /\ cache' = Invalidated
    /\ QueueAndEngine

\* Presenter::playPlaylist(hash, m): an album or an artist is always loaded
\* anew, another list only if the queue differs; the search result, played as
\* a whole, starts with its first track (forcePlay()).
PlayPlaylist(q, m, kind) ==
    /\ UserActs /\ q # <<>> /\ m \in Queued(q) \cup {NoTrack}
    /\ LET same == kind # "album" /\ q = metaList
                   /\ eng.media \in Queued(metaList) \cup {NoTrack}
           playFlag == eng.media # m /\ eng.media \notin Queued(q)
           calm == CancelManualNavigation(eng)
           cleared == IF playFlag /\ eng.media # NoTrack THEN Stop(calm) ELSE calm
           queued == IF same THEN eng ELSE cleared
           chosen == CASE m \notin {NoTrack, eng.media} -> SetMediaMeta(queued, m, FALSE)
                       [] m = NoTrack /\ kind = "musicResult" ->
                             SetMediaMeta(queued, Head(q), FALSE)
                       [] OTHER -> queued
       IN  /\ metaList' = q
           /\ cache' = IF same THEN cache ELSE Invalidated
           /\ eng' = Play(chosen, q)
    /\ QueueAndEngine

-----------------------------------------------------------------------------
(* hasNextPlayableMeta() and hasPreviousPlayableMeta(). *)

\* updatePlayableMetaCache(t), within the second an answer lives
QueryCached(t) ==
    /\ cache.valid => cache.hash # t
    /\ cache' = [valid |-> TRUE, hash |-> t, next |-> HasNext(metaList, t),
                 previous |-> HasPrevious(metaList, t)]
    /\ UNCHANGED <<metaList, playbackMode, fadeInOut, playable, ends, asleep, eng>>

\* The answer's second is over: the next query computes it again.
CacheExpires ==
    /\ cache.valid
    /\ cache' = Invalidated
    /\ UNCHANGED <<metaList, playbackMode, fadeInOut, playable, ends, asleep, eng>>

-----------------------------------------------------------------------------
(* Timers and animations. *)

\* m_manualNavigationTimer's timeout.  It repeats every 500 ms from the start of
\* a manual switch, whose fade-out takes 400 ms: that fade-out is over, unless
\* something else has stopped it.
NavigationTimeout ==
    /\ eng.navTimer
    /\ ~(eng.anim = "switchOut" /\ eng.target.keep)
    /\ IF eng.pending = 0 THEN eng' = [eng EXCEPT !.navTimer = FALSE]
       ELSE eng' \in ExecuteManualNavigation(eng, metaList)
    /\ OnlyEngine

\* An animation that lowers the factor has begun to.
FadeProgress ==
    /\ eng.anim \in {"fadeOut", "switchOut"} /\ eng.factor = "full"
    /\ eng' = [eng EXCEPT !.factor = "reduced"]
    /\ OnlyEngine

\* Mutant: the level stays where the fade-out has brought it.
FadeOutFinished_KeepsLevel ==
    /\ eng.anim = "fadeOut"
    /\ eng' = [BackendPause(eng) EXCEPT !.anim = "none", !.factor = "reduced"]
    /\ OnlyEngine

\* finished() of m_fadeOutAnimation
FadeOutFinished ==
    /\ eng.anim = "fadeOut"
    /\ eng' = [BackendPause(eng) EXCEPT !.anim = "none", !.factor = "full"]
    /\ OnlyEngine

\* Mutant: the end of a fade-in plays, as its beginning did.
FadeInFinished_Plays ==
    /\ eng.anim \in {"fadeIn", "switchIn"}
    /\ eng' = [BackendPlay(eng) EXCEPT !.anim = "none", !.factor = "full"]
    /\ OnlyEngine

\* The end of m_fadeInAnimation, and of the switch's fade-in
FadeInFinished ==
    /\ eng.anim \in {"fadeIn", "switchIn"}
    /\ eng' = [eng EXCEPT !.anim = "none", !.factor = "full"]
    /\ OnlyEngine

\* Mutant: the switch ends without m_keepManualNavigation.
SwitchFadeOutFinished_ForgetsKeep ==
    /\ eng.anim = "switchOut"
    /\ LET over == [eng EXCEPT !.anim = "none", !.target = NoTarget, !.factor = "reduced"]
           loaded == SetMediaMeta(over, eng.target.track, FALSE)
       IN  eng' = IF eng.target.play
                  THEN Start(BackendPlay(loaded), "switchIn", "reduced") ELSE loaded
    /\ OnlyEngine

\* finished() of the switch's fade-out: it plays through the backend, not by play().
SwitchFadeOutFinished ==
    /\ eng.anim = "switchOut"
    /\ LET over == [eng EXCEPT !.anim = "none", !.target = NoTarget, !.factor = "reduced"]
           loaded == SetMediaMeta(over, eng.target.track, eng.target.keep)
       IN  eng' = IF eng.target.play
                  THEN Start(BackendPlay(loaded), "switchIn", "reduced") ELSE loaded
    /\ OnlyEngine

\* The 150 ms timer of play(): restores the position and plays again.
LastProgressShot ==
    /\ eng.shot
    /\ eng' = Play([eng EXCEPT !.shot = FALSE], metaList)
    /\ OnlyEngine

-----------------------------------------------------------------------------
(* The backend and the file system. *)

\* libvlc plays what it opened.
BackendStarted ==
    /\ eng.status = "Opening" /\ eng.media \in playable
    /\ eng' = [eng EXCEPT !.status = "Playing"]
    /\ OnlyEngine

\* libvlc cannot open it; VlcPlayer reports no end() for that.
BackendFailed ==
    /\ eng.status = "Opening"
    /\ eng' = [eng EXCEPT !.status = "Stopped"]
    /\ OnlyEngine

\* libvlc reaches the end: its thread posts end() to the GUI thread.
BackendEnded ==
    /\ eng.status = "Playing" /\ ends < MaxEnds
    /\ eng' = [eng EXCEPT !.status = "Stopped"]
    /\ ends' = ends + 1
    /\ UNCHANGED <<metaList, playbackMode, fadeInOut, playable, cache, asleep>>

\* The SDL log callback takes a failed write for the end, and the player goes on.
SdlWriteError ==
    /\ eng.status = "Playing" /\ ends < MaxEnds
    /\ ends' = ends + 1
    /\ UNCHANGED <<metaList, playbackMode, fadeInOut, playable, cache, asleep, eng>>

\* Mutant: the handler is run without a posted end().
HandleEnd_Unasked ==
    /\ ends' = ends - 1
    /\ eng' \in AutoAdvance(eng, metaList, eng.media, TRUE)
    /\ UNCHANGED <<metaList, playbackMode, fadeInOut, playable, cache, asleep>>

\* The slot of PlayerBase::end: playNextMeta(true), whatever happened since.
HandleEnd ==
    /\ ends > 0
    /\ ends' = ends - 1
    /\ eng' \in AutoAdvance(eng, metaList, eng.media, TRUE)
    /\ UNCHANGED <<metaList, playbackMode, fadeInOut, playable, cache, asleep>>

FileVanishes(t) ==
    /\ t \in playable
    /\ playable' = playable \ {t}
    /\ UNCHANGED <<metaList, playbackMode, fadeInOut, cache, ends, asleep, eng>>

\* onPrepareForSleep(true)
PrepareForSleep ==
    /\ MaySuspend /\ ~asleep
    /\ asleep' = TRUE
    /\ eng' = BackendPause(eng)
    /\ UNCHANGED <<metaList, playbackMode, fadeInOut, playable, cache, ends>>

\* onPrepareForSleep(false)
WakeUp ==
    /\ asleep
    /\ asleep' = FALSE
    /\ UNCHANGED <<metaList, playbackMode, fadeInOut, playable, cache, ends, eng>>

-----------------------------------------------------------------------------

UserStep ==
    \/ PlayNextMeta \/ PlayPreMeta \/ UserPlay \/ UserPause \/ PauseNow
    \/ UserStop \/ PlayPause \/ MprisPlay
    \/ \E m \in Tracks : SelectMeta(m) \/ PlayImported(m) \/ AddMeta(m) \/ RemoveMeta(m)
    \/ \E S \in SUBSET Tracks : RemoveMetas(S)
    \/ ClearPlayList
    \/ \E q \in Queues : MoveMetas(q)
    \/ \E q \in Queues : \E m \in MaybeTrack : \E kind \in {"playlist", "album", "musicResult"} :
          PlayPlaylist(q, m, kind)
    \/ \E mode \in Modes : SetPlaybackMode(mode)
    \/ \E on \in FadeSettings : SetFadeInOut(on)

EngineStep ==
    \/ \E t \in CacheQueries : QueryCached(t)
    \/ CacheExpires
    \/ NavigationTimeout \/ FadeProgress \/ FadeOutFinished \/ FadeInFinished
    \/ SwitchFadeOutFinished \/ LastProgressShot
    \/ BackendStarted \/ BackendFailed \/ BackendEnded \/ SdlWriteError \/ HandleEnd
    \/ \E t \in Vanishing : FileVanishes(t)
    \/ PrepareForSleep \/ WakeUp

Next == UserStep \/ EngineStep

Spec == Init /\ [][Next]_vars

\* The timer and the animation run as long as the GUI thread's event loop does.
FairSpec == Spec /\ WF_vars(NavigationTimeout) /\ WF_vars(SwitchFadeOutFinished)

-----------------------------------------------------------------------------
(* Safety. *)

\* Steps the user still waits for always have the running timer that will
\* apply them: no path of the merging leaves a press behind
\* (requestManualNavigation, executeManualNavigation, cancelManualNavigation).
NoStrandedNavigation == eng.pending # 0 => eng.navTimer

\* Without a loaded track nothing sounds and nothing is about to: stop() leaves
\* no fade behind that would load and play a track later.
SilentWithoutTrack ==
    eng.media = NoTrack => /\ eng.status = "Stopped"
                           /\ eng.anim \notin {"switchOut", "switchIn"}

\* Sound that no animation is working on has its full level: whichever fade
\* stopped or cancelled another one, none leaves the volume down.  Only as long
\* as the setting is not changed meanwhile (a run with one FadeSettings).
LevelRestored ==
    eng.anim = "none" /\ eng.status # "Stopped" => eng.factor = "full"

\* What hasNextPlayableMeta() answers from its cache is what it would compute
\* now, as long as no file is deleted: every change of the queue invalidates.
CacheCoherent ==
    cache.valid => /\ cache.next = HasNext(metaList, cache.hash)
                   /\ cache.previous = HasPrevious(metaList, cache.hash)

-----------------------------------------------------------------------------
(* What presses of Next and Previous add up to, in the cyclic modes. *)

\* The playable track next to t in the queue, around its ends; from a track that
\* is not there, the first one forwards and the last one backwards.
NeighbourOf(q, t, step) ==
    LET at == PlayableAt(q)
        here == IF IndexOf(q, t) = -1 THEN 0 ELSE PositionOf(q, t)
        after == {i \in at : i > here}
        before == {i \in at : i < here}
        lowest(S) == CHOOSE i \in S : \A j \in S : i <= j
        highest(S) == CHOOSE i \in S : \A j \in S : j <= i
    IN  IF step > 0 THEN q[lowest(IF after = {} THEN at ELSE after)]
        ELSE q[highest(IF before = {} THEN at ELSE before)]

\* The track the user has arrived at or is being taken to by hand.
Heading == IF eng.anim = "switchOut" /\ eng.target.keep THEN eng.target.track
           ELSE eng.media

\* The track that is `steps` single presses away from t.
Walked(q, t, steps) ==
    LET walk[k \in Nat] ==
            IF k = 0 THEN t ELSE NeighbourOf(q, walk[k - 1], steps)
    IN  walk[IF steps < 0 THEN -steps ELSE steps]

\* The track all presses so far select.
Selected == Walked(metaList, Heading, eng.pending)

\* A press moves the selection by one playable track, and neither the timer that
\* applies a batch nor the end of the fade that delays a switch moves it.  (Steps
\* that wait are counted from a playable track: else their sum may skip the
\* detour over the end of the queue.)
PressCounts ==
    /\ playbackMode \in {"RepeatAll", "RepeatSingle"} /\ PlayableAt(metaList) # {}
    /\ eng.pending = 0 \/ IndexOf(metaList, Heading) # -1
    => /\ PlayNextMeta => Selected' = NeighbourOf(metaList, Selected, 1)
       /\ PlayPreMeta => Selected' = NeighbourOf(metaList, Selected, -1)
       /\ NavigationTimeout => Selected' = Selected
       /\ SwitchFadeOutFinished /\ eng.target.keep => Selected' = Selected

\* Merging rapid presses into batches changes nothing of what they select, as
\* long as nobody changes the queue while a switch fades out: that cancels the
\* timer and not the fade (addMetasToPlayList and the like), and the next press
\* is taken at once, from the track that is being left, so one press is lost.
PressesAddUp == [][ (eng.anim = "switchOut" => eng.navTimer) => PressCounts ]_vars

\* The track that plays, or the one a fade is about to put in its place.
Upcoming == IF eng.anim = "switchOut" THEN eng.target.track ELSE eng.media

\* At the end of a track that is in the queue the mode decides what follows.
EndFollowsMode ==
    [][ HandleEnd /\ eng.media \in Queued(metaList) =>
          LET later == {i \in PlayableAt(metaList) : i > PositionOf(metaList, eng.media)}
              first == CHOOSE i \in later : \A j \in later : i <= j
          IN  CASE playbackMode = "RepeatNull" ->
                      Upcoming' = IF later = {} THEN NoTrack ELSE metaList[first]
                [] playbackMode = "RepeatSingle" ->
                      eng.media \in playable => Upcoming' = eng.media
                [] playbackMode = "RepeatAll" ->
                      IF PlayableAt(metaList) = {} THEN Upcoming' = NoTrack
                      ELSE IF later # {} THEN Upcoming' = metaList[first]
                      ELSE Upcoming' = NeighbourOf(metaList, NoTrack, 1)
                [] OTHER ->
                      Cardinality(PlayableAt(metaList)) > 1 /\ eng.media \in playable
                      => Upcoming' # eng.media /\ Upcoming' \in playable ]_vars

\* Removing the current track goes on with the nearest playable one after it.
RemovalGoesOnWithNext(S) ==
    LET cur == eng.media
        later == {i \in PlayableAt(metaList) :
                     i > PositionOf(metaList, cur) /\ metaList[i] \notin S}
        first == CHOOSE i \in later : \A j \in later : i <= j
    IN  cur \in S /\ cur \in Queued(metaList) /\ later # {} => Upcoming' = metaList[first]

\* So it is when that track alone is removed, in the modes that go forward.  (In
\* RepeatNull, when it is the first of the queue, the first of the rest is
\* loaded even if it cannot be played.)
RemovalKeepsPlace ==
    [][ \A m \in Tracks :
          /\ m \in Queued(metaList) /\ RemoveMetas({m})
          /\ \/ playbackMode = "RepeatAll"
             \/ playbackMode = "RepeatNull" /\ m # Head(metaList)
          => RemovalGoesOnWithNext({m}) ]_vars

\* A stop is final once nothing is on its way: no timer, animation or backend
\* event loads a track again; only the user does.
StopIsFinal ==
    [][ /\ eng.media = NoTrack /\ ends = 0 /\ ~eng.shot /\ eng.pending = 0
        /\ EngineStep
        => eng'.media = NoTrack ]_vars

\* Nothing but a request of the user, the restored position's timer, a batch of
\* presses, an ended track or a switch under way starts a sound; in particular
\* what the user has paused stays so.
NothingPlaysByItself ==
    [][ /\ EngineStep
        /\ eng.status \in {"Stopped", "Paused"}
        /\ eng'.status \in {"Opening", "Playing"}
        => eng.shot \/ eng.pending # 0 \/ ends > 0 \/ eng.anim = "switchOut" ]_vars

\* onPrepareForSleep(): "ensure pause completes before suspend", "do not
\* auto-resume; let the user start playback manually".  (The restored position's
\* timer, which can do so too, is left aside.)
PausedStaysWhileAsleep ==
    [][ asleep /\ asleep' /\ ~eng.shot /\ eng.status = "Paused"
        => eng'.status \in {"Stopped", "Paused"} ]_vars

-----------------------------------------------------------------------------
(* Liveness. *)

\* Every batch of presses is applied, or given up for a later request, however
\* the user and the backend interfere with the fades meanwhile.
NavigationApplied == (eng.pending # 0) ~> (eng.pending = 0)
=============================================================================
