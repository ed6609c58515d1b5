------------------------------ MODULE SdlAudio ------------------------------
(***************************************************************************)
(* SdlPlayer (player/vlc/sdlplayer.cpp): the way of the samples from libvlc  *)
(* to the sound device.                                                     *)
(*                                                                         *)
(*   GUI thread      open, play, pause, stop, setTime: several steps each,   *)
(*                   some of which wait for the other two threads            *)
(*   libvlc thread   decodes; its callbacks set up, pause and resume the     *)
(*                   device and append what is decoded to _data              *)
(*   SDL thread      calls back for the next samples while the device plays   *)
(*                                                                         *)
(* _data is under vlc_mutex, which is never held across a wait: each section *)
(* under it is one step.  That the SDL callback looks at the size before it   *)
(* takes the mutex, and clears after it has given it back, is kept.  libvlc   *)
(* and SDL themselves are external; what is assumed of them:  one libvlc      *)
(* callback at a time; requests to libvlc are carried out later, in their     *)
(* order; set_media() and stop() wait for the callback under way, and end the *)
(* decoding; PauseAudio() and CloseAudio() wait for SDL's.                    *)
(***************************************************************************)
EXTENDS Naturals, Sequences

CONSTANTS
    Chunk,       \* the samples SDL asks for at a time, len
    TreeLand,    \* whether the desktop is one where the device is not closed
    OpenOutcomes,  \* whether SDL_OpenAudio() may succeed, or fail
    MaxSamples,  \* bound on the samples decoded
    MaxCalls     \* bound on the calls of the GUI thread

ASSUME ChunkAssumption == Chunk \in Nat \ {0}
ASSUME DeviceAssumption == TreeLand \in BOOLEAN /\ OpenOutcomes \subseteq BOOLEAN
ASSUME BoundsAssumption == MaxSamples \in Nat /\ MaxCalls \in Nat

VARIABLES
    data,         \* _data
    progressTag,  \* progressTag: what libvlc delivers is dropped
    device,       \* SDL_GetAudioStatus()
    calling,      \* what the GUI thread has still to do in the call it is in
    wish,         \* the last call of it that changed what is to be heard
    calls,        \* the calls so far
    lib,          \* libvlc's player, see LibState
    audio,        \* where the libvlc thread is in its callback
    block,        \* what libvlc_audio_play_cb() has copied last
    callback,     \* where the SDL thread is in SDL_audio_cbk()
    decoded,      \* the samples decoded so far
    heard         \* what SDL has been given, in order

gui == <<progressTag, calling, wish, calls>>
vars == <<data, progressTag, device, calling, wish, calls, lib, audio, block,
          callback, decoded, heard>>

\* A sample: its number in the order of decoding, and the track it is of.
Sample == [n : Nat, track : Nat]

Requests == {"play", "pause", "seek"}

\* output: libvlc has set up its output; track: what it decodes
LibState ==
    [state : {"idle", "opening", "playing", "paused"}, output : {"none", "ready", "failed"},
     asked : Seq(Requests), track : Nat]

Steps == {"cleanMemCache", "CloseAudio", "PauseAudio", "setTag", "clearTag",
          "lib_play", "lib_pause", "lib_stop", "lib_seek", "lib_open"}

TypeOK ==
    /\ data \in Seq(Sample) /\ heard \in Seq(Sample)
    /\ progressTag \in BOOLEAN
    /\ device \in {"stopped", "paused", "playing"}
    /\ calling \in Seq(Steps)
    /\ wish \in {"open", "play", "pause", "stop"}
    /\ calls \in Nat /\ decoded \in Nat
    /\ lib \in LibState /\ (lib.state # "idle" => lib.track > 0)
    /\ audio \in {"none", "append", "clean", "open", "start"}
    /\ block \in Sample
    /\ callback \in {"none", "mid", "all", "clean"}

Init ==
    /\ data = <<>> /\ heard = <<>>
    /\ block = [n |-> 0, track |-> 0]
    /\ progressTag = FALSE
    /\ device = "stopped"
    /\ calling = <<>> /\ wish = "open" /\ calls = 0 /\ decoded = 0
    /\ lib = [state |-> "idle", output |-> "none", asked |-> <<>>, track |-> 0]
    /\ audio = "none" /\ callback = "none"

-----------------------------------------------------------------------------
(* The GUI thread: the calls. *)

Call(steps, what) ==
    /\ calling = <<>> /\ calls < MaxCalls
    /\ calling' = steps /\ wish' = what /\ calls' = calls + 1
    /\ UNCHANGED <<data, progressTag, device, lib, audio, block, callback, decoded, heard>>

\* SdlPlayer::open()
Open == Call(IF TreeLand THEN <<"cleanMemCache", "lib_open">>
             ELSE <<"cleanMemCache", "CloseAudio", "lib_open">>, "open")

\* Mutant: whether anything is open or not.
Play_Unopened == Call(<<"clearTag", "lib_play">>, "play")

\* Mutant: what comes is still dropped.
Play_KeepsTag == lib.track > 0 /\ Call(<<"lib_play">>, "play")

\* SdlPlayer::play(); PlayerEngine::play() has opened a track before.
Play == lib.track > 0 /\ Call(<<"clearTag", "lib_play">>, "play")

\* SdlPlayer::pause()
Pause == Call(<<"setTag", "PauseAudio", "lib_pause">>, "pause")

\* SdlPlayer::stop()
Stop == Call(IF TreeLand THEN <<"lib_stop", "cleanMemCache", "PauseAudio">>
             ELSE <<"lib_stop", "cleanMemCache", "PauseAudio", "CloseAudio">>, "stop")

\* SdlPlayer::setTime()
SetTime == Call(<<"lib_seek", "cleanMemCache">>, wish)

(* The GUI thread: the steps.  Doing(step) is true when it is next. *)

Doing(step) == calling # <<>> /\ Head(calling) = step /\ calling' = Tail(calling)

\* setProgressTag()
SetProgressTag ==
    /\ \/ Doing("setTag") /\ progressTag' = TRUE
       \/ Doing("clearTag") /\ progressTag' = FALSE
    /\ UNCHANGED <<data, device, wish, calls, lib, audio, block, callback, decoded, heard>>

\* cleanMemCache()
CleanMemCache ==
    /\ Doing("cleanMemCache")
    /\ data' = <<>>
    /\ UNCHANGED <<progressTag, device, wish, calls, lib, audio, block, callback, decoded, heard>>

\* SDL's functions for the device, which wait for SDL_audio_cbk() to return.  Pausing
\* a device that does not play, and closing one that is closed, does nothing.
Paused(status) == IF status = "playing" THEN "paused" ELSE status
Started(status) == IF status = "paused" THEN "playing" ELSE status

ChangeDevice ==
    /\ callback = "none"
    /\ \/ Doing("PauseAudio") /\ device' = Paused(device)
       \/ Doing("CloseAudio") /\ device' = "stopped"
    /\ UNCHANGED <<data, progressTag, wish, calls, lib, audio, block, callback, decoded, heard>>

\* What VlcMediaPlayer asks of libvlc.  A pause before the file is open is not asked
\* for (can_pause), nor is a seek (state).
AskLib ==
    /\ LET asked(request) == [lib EXCEPT !.asked = Append(@, request)]
       IN  \/ /\ Doing("lib_play")
              /\ lib' = IF lib.state = "idle" THEN [lib EXCEPT !.state = "opening"]
                        ELSE asked("play")
           \/ /\ Doing("lib_pause")
              /\ lib' = IF lib.state \in {"playing", "paused"} THEN asked("pause") ELSE lib
           \/ /\ Doing("lib_seek")
              /\ lib' = IF lib.state \in {"playing", "paused"} THEN asked("seek") ELSE lib
    /\ UNCHANGED <<data, progressTag, device, wish, calls, audio, block, callback, decoded, heard>>

\* libvlc_media_player_stop() and libvlc_media_player_set_media()
LibEnded(track) ==
    [state |-> "idle", output |-> "none", asked |-> <<>>, track |-> track]

HaltLib ==
    /\ audio = "none"
    /\ \/ Doing("lib_stop") /\ lib' = LibEnded(lib.track)
       \/ Doing("lib_open") /\ lib' = LibEnded(lib.track + 1)
    /\ UNCHANGED <<data, progressTag, device, wish, calls, audio, block, callback, decoded, heard>>

GuiStep ==
    Open \/ Play \/ Pause \/ Stop \/ SetTime
    \/ SetProgressTag \/ CleanMemCache \/ ChangeDevice \/ AskLib \/ HaltLib

-----------------------------------------------------------------------------
(* The libvlc thread. *)

\* libvlc has opened the file; or it has come to its end, or could not open it.
LibProceeds ==
    /\ audio = "none"
    /\ \/ lib.state = "opening" /\ lib' = [lib EXCEPT !.state = "playing"]
       \/ lib.state \in {"opening", "playing"} /\ lib' = LibEnded(lib.track)
    /\ UNCHANGED <<data, device, audio, block, callback, decoded, heard, gui>>

\* A request is carried out: libvlc_audio_pause_cb(), _resume_cb(), or _flush_cb(), which
\* does nothing, for a seek.
LibHandles ==
    /\ audio = "none" /\ lib.asked # <<>> /\ lib.state \in {"playing", "paused"}
    /\ LET rest == [lib EXCEPT !.asked = Tail(@)]
           ready == lib.output = "ready"
       IN  CASE Head(lib.asked) = "pause" /\ lib.state = "playing" ->
                  /\ ready => callback = "none"
                  /\ lib' = [rest EXCEPT !.state = "paused"]
                  /\ device' = IF ready THEN Paused(device) ELSE device
             [] Head(lib.asked) = "play" /\ lib.state = "paused" ->
                  /\ ready => callback = "none"
                  /\ lib' = [rest EXCEPT !.state = "playing"]
                  /\ device' = IF ready THEN Started(device) ELSE device
             [] OTHER -> lib' = rest /\ UNCHANGED device
    /\ UNCHANGED <<data, audio, block, callback, decoded, heard, gui>>

\* Mutant: the device is paused, and stays open.
SetupClose_Pauses ==
    /\ audio = "none" /\ lib.state = "playing" /\ lib.output = "none" /\ callback = "none"
    /\ device' = Paused(device) /\ audio' = "clean"
    /\ UNCHANGED <<data, lib, block, callback, decoded, heard, gui>>

\* libvlc_audio_setup_cb(), in four steps: the device is closed, _data cleared, the device
\* opened (a second try with two channels included), and started 40 ms later.
SetupClose ==
    /\ audio = "none" /\ lib.state = "playing" /\ lib.output = "none" /\ callback = "none"
    /\ device' = "stopped" /\ audio' = "clean"
    /\ UNCHANGED <<data, lib, block, callback, decoded, heard, gui>>

\* Mutant: _data is left as it is.
SetupClean_Skipped ==
    /\ audio = "clean"
    /\ audio' = "open"
    /\ UNCHANGED <<data, device, lib, block, callback, decoded, heard, gui>>

SetupClean ==
    /\ audio = "clean"
    /\ data' = <<>> /\ audio' = "open"
    /\ UNCHANGED <<device, lib, block, callback, decoded, heard, gui>>

SetupOpen(ok) ==
    /\ audio = "open"
    /\ \/ ok /\ device' = "paused" /\ audio' = "start" /\ UNCHANGED lib
       \/ ~ok /\ lib' = [lib EXCEPT !.output = "failed"] /\ audio' = "none"
          /\ UNCHANGED device
    /\ UNCHANGED <<data, block, callback, decoded, heard, gui>>

SetupStart ==
    /\ audio = "start" /\ callback = "none"
    /\ device' = Started(device) /\ audio' = "none"
    /\ lib' = [lib EXCEPT !.output = "ready"]
    /\ UNCHANGED <<data, block, callback, decoded, heard, gui>>

Decoding == audio = "none" /\ lib.state = "playing" /\ lib.output = "ready"
NextSample == [n |-> decoded + 1, track |-> lib.track]

\* Mutant: a paused player goes on.
PlayCallback_IgnoresTag ==
    /\ Decoding /\ decoded < MaxSamples
    /\ decoded' = decoded + 1
    /\ block' = NextSample /\ audio' = "append"
    /\ UNCHANGED <<data, device, lib, callback, heard, gui>>

\* libvlc_audio_play_cb(): the samples are copied, unless they are dropped, ...
PlayCallback ==
    /\ Decoding /\ decoded < MaxSamples
    /\ decoded' = decoded + 1
    /\ IF progressTag THEN UNCHANGED <<block, audio>>
       ELSE block' = NextSample /\ audio' = "append"
    /\ UNCHANGED <<data, device, lib, callback, heard, gui>>

\* ... and appended under the mutex.
AppendBlock ==
    /\ audio = "append"
    /\ data' = Append(data, block) /\ audio' = "none"
    /\ UNCHANGED <<device, lib, block, callback, decoded, heard, gui>>

LibStep ==
    \/ LibProceeds \/ LibHandles
    \/ SetupClose \/ SetupClean \/ (\E ok \in OpenOutcomes : SetupOpen(ok)) \/ SetupStart
    \/ PlayCallback \/ AppendBlock

-----------------------------------------------------------------------------
(* The SDL thread: SDL_audio_cbk(). *)

\* The size, read without the mutex; when there is nothing it returns.
CallbackLooks ==
    /\ device = "playing" /\ callback = "none" /\ data # <<>>
    /\ callback' = IF Len(data) >= Chunk THEN "mid" ELSE "all"
    /\ UNCHANGED <<data, device, lib, audio, block, decoded, heard, gui>>

\* As many samples as are asked for, or as are still there
TakesChunk ==
    /\ callback = "mid"
    /\ LET size == IF Len(data) < Chunk THEN Len(data) ELSE Chunk
       IN  /\ heard' = heard \o SubSeq(data, 1, size)
           /\ data' = SubSeq(data, size + 1, Len(data))
    /\ callback' = "none"
    /\ UNCHANGED <<device, lib, audio, block, decoded, gui>>

\* Mutant: it waits for samples to come.
TakesAll_Waits ==
    /\ callback = "all" /\ data # <<>>
    /\ heard' = heard \o data
    /\ callback' = "clean"
    /\ UNCHANGED <<data, device, lib, audio, block, decoded, gui>>

\* All there is, by now maybe more than it was or more than asked for; it stays there ...
TakesAll ==
    /\ callback = "all"
    /\ heard' = heard \o data
    /\ callback' = "clean"
    /\ UNCHANGED <<data, device, lib, audio, block, decoded, gui>>

\* Mutant: only a device that still plays is cleaned up after.
CallbackCleans_Skipped ==
    /\ callback = "clean"
    /\ callback' = "none"
    /\ UNCHANGED <<data, device, lib, audio, block, decoded, heard, gui>>

\* ... until cleanMemCache(), which also clears what has come after.
CallbackCleans ==
    /\ callback = "clean"
    /\ data' = <<>> /\ callback' = "none"
    /\ UNCHANGED <<device, lib, audio, block, decoded, heard, gui>>

SdlStep == CallbackLooks \/ TakesChunk \/ TakesAll \/ CallbackCleans

-----------------------------------------------------------------------------

Next == GuiStep \/ LibStep \/ SdlStep

Spec == Init /\ [][Next]_vars

\* A call of the GUI thread goes on, and the other two threads run; whether there is
\* another call, or another sample, is open.
Proceeds ==
    \/ SetProgressTag \/ CleanMemCache \/ ChangeDevice \/ AskLib \/ HaltLib

FairSpec ==
    /\ Spec
    /\ WF_vars(Proceeds)
    /\ WF_vars(SetupClose \/ SetupClean \/ (\E ok \in OpenOutcomes : SetupOpen(ok))
               \/ SetupStart \/ AppendBlock \/ LibHandles)
    /\ WF_vars(SdlStep)

-----------------------------------------------------------------------------

\* What is heard is in the order of decoding, and nothing is heard twice, wherever the
\* three threads meet over _data.
HeardOnceInOrder == \A i, j \in DOMAIN heard : i < j => heard[i].n < heard[j].n

\* "close the device that may be open before, so that opening it again does not fail": it
\* is closed when SDL_OpenAudio() is called, whatever the GUI thread does meanwhile.
OpensClosedDevice == audio = "open" => device = "stopped"

\* From the moment the device is set up for a track nothing of another one is heard: not
\* of a block that was being appended while open() cleared _data and halted libvlc.
OldTrackSilent == lib.output = "ready" => \A i \in DOMAIN data : data[i].track = lib.track

\* When all that was asked for has been carried out:
Settled == calling = <<>> /\ lib.asked = <<>> /\ audio = "none"

\* a paused player is silent, even one that was paused too early to pause libvlc,
\* unless the track has ended meanwhile, ...
PausedIsSilent ==
    Settled /\ wish = "pause" /\ lib.state # "idle" => device # "playing" \/ data = <<>>

\* ... and one that was told to play is heard, however calls of pause() and play() have
\* crossed one another, and the setting up of the device.
PlayingIsHeard ==
    Settled /\ wish = "play" /\ lib.state \in {"playing", "paused"} =>
        /\ lib.state = "playing"
        /\ lib.output = "ready" => ~progressTag /\ device = "playing"

\* No call of the GUI thread hangs, whichever threads wait for one another.
CallsReturn == calling # <<>> ~> calling = <<>>
=============================================================================
