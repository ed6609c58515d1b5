--------------------------- MODULE SdlAudioProofs ---------------------------
(* Theorems of SdlAudio, for any size of the chunks SDL asks for, on both kinds *)
(* of desktop, and without any bound.                                        *)
EXTENDS SdlAudio, SequenceTheorems, TLAPS

-----------------------------------------------------------------------------
(* Sequences of samples. *)

\* A sequence cut in two.
LEMMA SplitType ==
  ASSUME NEW s \in Seq(Sample), NEW k \in Nat, k <= Len(s)
  PROVE  /\ SubSeq(s, 1, k) \in Seq(Sample) /\ Len(SubSeq(s, 1, k)) = k
         /\ \A i \in 1 .. k : SubSeq(s, 1, k)[i] = s[i]
         /\ SubSeq(s, k + 1, Len(s)) \in Seq(Sample)
         /\ Len(SubSeq(s, k + 1, Len(s))) = Len(s) - k
         /\ \A i \in 1 .. Len(s) - k : SubSeq(s, k + 1, Len(s))[i] = s[k + i]
<1>1. \A i \in 1 .. Len(s) : s[i] \in Sample
  OBVIOUS
<1>2. Len(s) \in Nat
  OBVIOUS
<1> QED BY <1>1, <1>2, SubSeqProperties

\* The callback takes the front of _data.
LEMMA ChunkTaken ==
  ASSUME data \in Seq(Sample), TakesChunk
  PROVE  \E size \in Nat : /\ size <= Len(data)
                           /\ heard' = heard \o SubSeq(data, 1, size)
                           /\ data' = SubSeq(data, size + 1, Len(data))
<1>1. /\ heard' = heard \o SubSeq(data, 1, IF Len(data) < Chunk THEN Len(data) ELSE Chunk)
      /\ data' = SubSeq(data, (IF Len(data) < Chunk THEN Len(data) ELSE Chunk) + 1, Len(data))
  BY Zenon DEF TakesChunk
<1>2. PICK size \in Nat : /\ size = (IF Len(data) < Chunk THEN Len(data) ELSE Chunk)
                         /\ size <= Len(data)
  BY ChunkAssumption
<1> QED BY <1>1, <1>2, Zenon

-----------------------------------------------------------------------------
(* Types. *)

\* play() is under way only when a track is open.
PlayHasTrack == \A i \in DOMAIN calling : calling[i] = "lib_play" => lib.track > 0

TypeInv == TypeOK /\ PlayHasTrack

\* What a step takes from the front of a call.
LEMMA StepTaken ==
  ASSUME TypeInv, NEW step, Doing(step)
  PROVE  /\ calling' \in Seq(Steps)
         /\ step = "lib_play" => lib.track > 0
         /\ lib'.track >= lib.track /\ lib'.track \in Nat => PlayHasTrack'
<1>1. calling \in Seq(Steps) /\ calling # <<>> /\ calling' = Tail(calling) /\ calling[1] = step
  BY DEF Doing, TypeInv, TypeOK
<1>2. 1 \in DOMAIN calling
  BY <1>1
<1>3. \A i \in DOMAIN Tail(calling) : i + 1 \in DOMAIN calling /\ Tail(calling)[i] = calling[i + 1]
  BY <1>1
<1>4. lib.track \in Nat
  BY DEF TypeInv, TypeOK, LibState
<1> QED BY <1>1, <1>2, <1>3, <1>4 DEF TypeInv, PlayHasTrack

\* The calls of the GUI thread, each with the steps it consists of.
LEMMA CallsType ==
  ASSUME TypeInv, Open \/ Play \/ Pause \/ Stop \/ SetTime
  PROVE  TypeInv'
<1>1. /\ wish' \in {"open", "play", "pause", "stop"} /\ calls' = calls + 1
      /\ UNCHANGED <<data, progressTag, device, lib, audio, block, callback, decoded, heard>>
  BY DEF Open, Play, Pause, Stop, SetTime, Call, TypeInv, TypeOK
<1>2. /\ calling' \in Seq(Steps)
      /\ \A i \in DOMAIN calling' : calling'[i] = "lib_play" => lib.track > 0
  <2>1. CASE Open
    <3>1. \/ calling' = <<"cleanMemCache", "lib_open">>
          \/ calling' = <<"cleanMemCache", "CloseAudio", "lib_open">>
      BY <2>1, Zenon DEF Open, Call
    <3>2. CASE calling' = <<"cleanMemCache", "lib_open">>
      BY <3>2 DEF Steps
    <3>3. CASE calling' = <<"cleanMemCache", "CloseAudio", "lib_open">>
      BY <3>3 DEF Steps
    <3> QED BY <3>1, <3>2, <3>3
  <2>2. CASE Play
    BY <2>2 DEF Play, Call, Steps
  <2>3. CASE Pause
    BY <2>3 DEF Pause, Call, Steps
  <2>4. CASE Stop
    <3>1. \/ calling' = <<"lib_stop", "cleanMemCache", "PauseAudio">>
          \/ calling' = <<"lib_stop", "cleanMemCache", "PauseAudio", "CloseAudio">>
      BY <2>4, Zenon DEF Stop, Call
    <3>2. CASE calling' = <<"lib_stop", "cleanMemCache", "PauseAudio">>
      BY <3>2 DEF Steps
    <3>3. CASE calling' = <<"lib_stop", "cleanMemCache", "PauseAudio", "CloseAudio">>
      BY <3>3 DEF Steps
    <3> QED BY <3>1, <3>2, <3>3
  <2>5. CASE SetTime
    BY <2>5 DEF SetTime, Call, Steps
  <2> QED BY <2>1, <2>2, <2>3, <2>4, <2>5
<1> QED BY <1>1, <1>2 DEF TypeInv, TypeOK, PlayHasTrack
\* Its steps.
LEMMA ProceedsType ==
  ASSUME TypeInv, Proceeds
  PROVE  TypeInv'
<1>1. /\ lib \in LibState /\ lib.track \in Nat
      /\ lib.state # "idle" => lib.track > 0
  BY DEF TypeInv, TypeOK, LibState
<1>2. CASE SetProgressTag \/ CleanMemCache \/ ChangeDevice
  <2>1. \E step \in Steps : Doing(step)
    BY <1>2 DEF SetProgressTag, CleanMemCache, ChangeDevice, Steps
  <2>2. lib' = lib
    BY <1>2 DEF SetProgressTag, CleanMemCache, ChangeDevice
  <2>3. calling' \in Seq(Steps) /\ PlayHasTrack'
    BY <1>1, <2>1, <2>2, StepTaken
  <2>4. /\ progressTag' \in BOOLEAN /\ data' \in Seq(Sample)
        /\ device' \in {"stopped", "paused", "playing"}
        /\ UNCHANGED <<wish, calls, audio, block, callback, decoded, heard>>
    <3>1. CASE SetProgressTag
      BY <3>1 DEF SetProgressTag, TypeInv, TypeOK
    <3>2. CASE CleanMemCache
      BY <3>2 DEF CleanMemCache, TypeInv, TypeOK
    <3>3. CASE ChangeDevice
      BY <3>3 DEF ChangeDevice, Paused, TypeInv, TypeOK
    <3> QED BY <1>2, <3>1, <3>2, <3>3
  <2> QED BY <2>2, <2>3, <2>4 DEF TypeInv, TypeOK
<1>3. CASE AskLib
  <2> DEFINE asked(request) == [lib EXCEPT !.asked = Append(@, request)]
  <2>1. \A request \in Requests : /\ asked(request) \in LibState
                                 /\ asked(request).track = lib.track
                                 /\ asked(request).state = lib.state
    <3> TAKE request \in Requests
    <3>1. Append(lib.asked, request) \in Seq(Requests)
      BY <1>1 DEF LibState
    <3> QED BY <1>1, <3>1 DEF LibState
  <2>2. PICK step \in {"lib_play", "lib_pause", "lib_seek"} : Doing(step)
    BY <1>3, Zenon DEF AskLib
  <2>3. \/ lib' = lib
        \/ \E request \in Requests : lib' = asked(request)
        \/ step = "lib_play" /\ lib' = [lib EXCEPT !.state = "opening"]
    <3>1. CASE Doing("lib_play") /\ lib' = IF lib.state = "idle"
                                           THEN [lib EXCEPT !.state = "opening"]
                                           ELSE asked("play")
      BY <2>2, <3>1 DEF Doing, Requests
    <3>2. CASE lib' = IF lib.state \in {"playing", "paused"} THEN asked("pause") ELSE lib
      BY <3>2 DEF Requests
    <3>3. CASE lib' = IF lib.state \in {"playing", "paused"} THEN asked("seek") ELSE lib
      BY <3>3 DEF Requests
    <3> QED BY <1>3, <3>1, <3>2, <3>3, Zenon DEF AskLib
  <2>4. lib.track > 0 \/ lib'.state = lib.state
    <3>1. step = "lib_play" => lib.track > 0
      BY <2>2, StepTaken
    <3> HIDE DEF asked
    <3> QED BY <2>1, <2>3, <3>1
  <2>5. lib' \in LibState /\ lib'.track = lib.track
    BY <1>1, <2>1, <2>3 DEF LibState
  <2>6. calling' \in Seq(Steps) /\ PlayHasTrack'
    BY <1>1, <2>2, <2>5, StepTaken
  <2> QED BY <1>1, <1>3, <2>4, <2>5, <2>6 DEF AskLib, TypeInv, TypeOK
<1>4. CASE HaltLib
  <2>1. \E step \in Steps : Doing(step)
    BY <1>4 DEF HaltLib, Steps
  <2>2. /\ lib' \in LibState /\ lib'.state = "idle" /\ lib'.track >= lib.track
        /\ lib'.track \in Nat
    <3>1. PICK track \in {lib.track, lib.track + 1} : lib' = LibEnded(track)
      BY <1>4, Zenon DEF HaltLib
    <3>2. track \in Nat /\ track >= lib.track
      BY <1>1, <3>1
    <3> QED BY <1>1, <3>1, <3>2 DEF LibEnded, LibState
  <2>3. calling' \in Seq(Steps) /\ PlayHasTrack'
    BY <2>1, <2>2, StepTaken
  <2> QED BY <1>4, <2>2, <2>3 DEF HaltLib, TypeInv, TypeOK
<1> QED BY <1>2, <1>3, <1>4 DEF Proceeds

\* A change of one field keeps the type, and the other fields.
LEMMA LibFields ==
  ASSUME NEW player \in LibState
  PROVE  /\ \A state \in {"idle", "opening", "playing", "paused"} :
              /\ [player EXCEPT !.state = state] \in LibState
              /\ [player EXCEPT !.state = state].track = player.track
              /\ [player EXCEPT !.state = state].state = state
         /\ \A output \in {"none", "ready", "failed"} :
              /\ [player EXCEPT !.output = output] \in LibState
              /\ [player EXCEPT !.output = output].track = player.track
              /\ [player EXCEPT !.output = output].state = player.state
BY DEF LibState

\* libvlc's callbacks.
LEMMA LibStepType ==
  ASSUME TypeInv, LibStep
  PROVE  TypeInv'
<1>1. /\ lib \in LibState /\ lib.track \in Nat
      /\ lib.state # "idle" => lib.track > 0
  BY DEF TypeInv, TypeOK, LibState
<1>2. UNCHANGED gui
  BY DEF LibStep, LibProceeds, LibHandles, SetupClose, SetupClean, SetupOpen, SetupStart,
         PlayCallback, AppendBlock
<1>3. /\ lib' \in LibState /\ lib'.track = lib.track
      /\ lib'.state # "idle" => lib.state # "idle"
      /\ device' \in {"stopped", "paused", "playing"}
  <2>1. CASE LibHandles
    <3> DEFINE rest == [lib EXCEPT !.asked = Tail(@)]
    <3>1. /\ rest \in LibState /\ rest.track = lib.track /\ rest.state = lib.state
      <4>1. lib.asked \in Seq(Requests) /\ lib.asked # <<>>
        BY <1>1, <2>1 DEF LibHandles, LibState
      <4>2. Tail(lib.asked) \in Seq(Requests)
        BY <4>1
      <4> QED BY <1>1, <4>2 DEF LibState
    <3>2. /\ lib' \in {rest, [rest EXCEPT !.state = "paused"], [rest EXCEPT !.state = "playing"]}
          /\ device' \in {device, Paused(device), Started(device)}
      BY <2>1, Zenon DEF LibHandles
    <3>3. lib.state \in {"playing", "paused"}
      BY <2>1 DEF LibHandles
    <3> HIDE DEF rest
    <3>4. lib' \in LibState /\ lib'.track = lib.track
      <4>1. CASE lib' = rest
        BY <3>1, <4>1
      <4>2. CASE lib' = [rest EXCEPT !.state = "paused"]
        BY <3>1, <4>2, LibFields
      <4>3. CASE lib' = [rest EXCEPT !.state = "playing"]
        BY <3>1, <4>3, LibFields
      <4> QED BY <3>2, <4>1, <4>2, <4>3, Zenon
    <3>5. device' \in {"stopped", "paused", "playing"}
      BY <3>2 DEF Paused, Started, TypeInv, TypeOK
    <3> QED BY <3>3, <3>4, <3>5
  <2>2. CASE LibProceeds
    <3>1. /\ lib' \in {[lib EXCEPT !.state = "playing"], LibEnded(lib.track)}
          /\ lib.state # "idle" /\ device' = device
      BY <2>2 DEF LibProceeds
    <3>2. device \in {"stopped", "paused", "playing"}
      BY DEF TypeInv, TypeOK
    <3>3. LibEnded(lib.track) \in LibState /\ LibEnded(lib.track).track = lib.track
      BY <1>1 DEF LibEnded, LibState
    <3>4. CASE lib' = [lib EXCEPT !.state = "playing"]
      BY <1>1, <3>1, <3>2, <3>4, LibFields
    <3>5. CASE lib' = LibEnded(lib.track)
      BY <3>1, <3>2, <3>3, <3>5
    <3> QED BY <3>1, <3>4, <3>5, Zenon
  <2>3. CASE SetupClose \/ SetupClean \/ PlayCallback \/ AppendBlock
    <3>1. lib' = lib /\ device' \in {device, "stopped"}
      BY <2>3, Zenon DEF SetupClose, SetupClean, PlayCallback, AppendBlock
    <3>2. device \in {"stopped", "paused", "playing"}
      BY DEF TypeInv, TypeOK
    <3> QED BY <1>1, <3>1, <3>2
  <2>4. CASE (\E ok \in OpenOutcomes : SetupOpen(ok)) \/ SetupStart
    <3>1. /\ lib' \in {lib, [lib EXCEPT !.output = "failed"], [lib EXCEPT !.output = "ready"]}
          /\ device' \in {device, "paused", Started(device)}
      BY <2>4, Zenon DEF SetupOpen, SetupStart
    <3>2. device \in {"stopped", "paused", "playing"}
      BY DEF TypeInv, TypeOK
    <3> QED BY <1>1, <3>1, <3>2 DEF Started, LibState
  <2> QED BY <2>1, <2>2, <2>3, <2>4 DEF LibStep
<1>4. NextSample \in Sample
  BY <1>1 DEF NextSample, Sample, TypeInv, TypeOK
<1>5. /\ data' \in Seq(Sample) /\ block' \in Sample /\ decoded' \in Nat
      /\ audio' \in {"none", "append", "clean", "open", "start"}
      /\ UNCHANGED <<heard, callback>>
  <2>1. CASE LibProceeds \/ SetupClose \/ SetupClean
    <3>1. /\ data' \in {data, <<>>} /\ audio' \in {audio, "clean", "open"}
          /\ UNCHANGED <<block, callback, decoded, heard>>
      <4>1. CASE LibProceeds
        BY <4>1 DEF LibProceeds
      <4>2. CASE SetupClose
        BY <4>2 DEF SetupClose
      <4>3. CASE SetupClean
        BY <4>3 DEF SetupClean
      <4> QED BY <2>1, <4>1, <4>2, <4>3
    <3>2. CASE data' = data
      BY <3>1, <3>2 DEF TypeInv, TypeOK
    <3>3. CASE data' = <<>>
      BY <3>1, <3>3 DEF TypeInv, TypeOK
    <3> QED BY <3>1, <3>2, <3>3, Zenon
  <2>5. CASE LibHandles
    <3>1. UNCHANGED <<data, audio, block, callback, decoded, heard>>
      BY <2>5, Zenon DEF LibHandles
    <3> QED BY <3>1 DEF TypeInv, TypeOK
  <2>2. CASE (\E ok \in OpenOutcomes : SetupOpen(ok)) \/ SetupStart
    <3>1. /\ audio' \in {"start", "none"}
          /\ UNCHANGED <<data, block, callback, decoded, heard>>
      BY <2>2, Zenon DEF SetupOpen, SetupStart
    <3> QED BY <3>1 DEF TypeInv, TypeOK
  <2>3. CASE PlayCallback
    <3>1. /\ decoded' = decoded + 1 /\ block' \in {block, NextSample}
          /\ audio' \in {audio, "append"} /\ UNCHANGED <<data, callback, heard>>
      BY <2>3, Zenon DEF PlayCallback
    <3> QED BY <1>4, <3>1 DEF TypeInv, TypeOK
  <2>4. CASE AppendBlock
    BY <2>4 DEF AppendBlock, TypeInv, TypeOK
  <2> QED BY <2>1, <2>2, <2>3, <2>4, <2>5 DEF LibStep
<1>6. UNCHANGED <<progressTag, calling, wish, calls>>
  BY <1>2 DEF gui
<1>7. PlayHasTrack'
  BY <1>3, <1>6 DEF TypeInv, PlayHasTrack
<1>8. lib'.state # "idle" => lib'.track > 0
  BY <1>1, <1>3
<1> QED BY <1>3, <1>5, <1>6, <1>7, <1>8 DEF TypeInv, TypeOK
\* SDL's callback.
LEMMA SdlStepType ==
  ASSUME TypeInv, SdlStep
  PROVE  TypeInv'
<1>1. data \in Seq(Sample) /\ heard \in Seq(Sample)
  BY DEF TypeInv, TypeOK
<1>2. UNCHANGED <<device, lib, audio, block, decoded, progressTag, calling, wish, calls>>
  BY DEF SdlStep, CallbackLooks, TakesChunk, TakesAll, CallbackCleans, gui
<1>3. data' \in Seq(Sample) /\ heard' \in Seq(Sample)
  <2>1. CASE CallbackLooks
    BY <1>1, <2>1 DEF CallbackLooks
  <2>2. CASE TakesChunk
    <3>1. PICK size \in Nat : /\ size <= Len(data)
                             /\ heard' = heard \o SubSeq(data, 1, size)
                             /\ data' = SubSeq(data, size + 1, Len(data))
      BY <1>1, <2>2, ChunkTaken
    <3> QED BY <1>1, <3>1, SplitType
  <2>3. CASE TakesAll
    BY <1>1, <2>3 DEF TakesAll
  <2>4. CASE CallbackCleans
    BY <1>1, <2>4 DEF CallbackCleans
  <2> QED BY <2>1, <2>2, <2>3, <2>4 DEF SdlStep
<1>4. callback' \in {"none", "mid", "all", "clean"}
  BY DEF SdlStep, CallbackLooks, TakesChunk, TakesAll, CallbackCleans
<1> QED BY <1>2, <1>3, <1>4 DEF TypeInv, TypeOK, PlayHasTrack

LEMMA TypeStep == TypeInv /\ [Next]_vars => TypeInv'
<1>1. TypeInv /\ UNCHANGED vars => TypeInv'
  BY DEF TypeInv, TypeOK, PlayHasTrack, vars
<1> QED BY <1>1, CallsType, ProceedsType, LibStepType, SdlStepType DEF Next, GuiStep, Proceeds

LEMMA TypeInvariant == Spec => []TypeInv
<1>1. Init => TypeInv
  <2> SUFFICES ASSUME Init PROVE TypeInv
    OBVIOUS
  <2>1. data \in Seq(Sample) /\ heard \in Seq(Sample) /\ calling \in Seq(Steps)
    BY DEF Init
  <2>2. lib \in LibState /\ lib.state = "idle"
    BY DEF Init, LibState
  <2>3. block \in Sample
    BY DEF Init, Sample
  <2>4. PlayHasTrack
    BY DEF Init, PlayHasTrack
  <2> QED BY <2>1, <2>2, <2>3, <2>4 DEF Init, TypeInv, TypeOK
<1> QED BY <1>1, TypeStep, PTL DEF Spec

\* The player's state is always of its types, and libvlc never plays before a track has
\* been opened (PlayerEngine::play).
THEOREM SdlTypeCorrect == Spec => []TypeOK
BY TypeInvariant, PTL DEF TypeInv

-----------------------------------------------------------------------------
(* What the GUI thread's steps leave alone. *)

LEMMA GuiFrame ==
  ASSUME TypeInv, GuiStep
  PROVE  /\ data' = data \/ data' = <<>>
         /\ UNCHANGED <<audio, block, callback, decoded, heard>>
         /\ \/ lib'.track = lib.track /\ lib'.output = lib.output
            \/ lib'.output = "none" /\ audio = "none"
         /\ device' \in {device, Paused(device), "stopped"}
<1>1. lib \in LibState
  BY DEF TypeInv, TypeOK
<1>2. CASE Open \/ Play \/ Pause \/ Stop \/ SetTime
  BY <1>2 DEF Open, Play, Pause, Stop, SetTime, Call
<1>3. CASE SetProgressTag \/ CleanMemCache
  BY <1>3 DEF SetProgressTag, CleanMemCache
<1>4. CASE ChangeDevice
  BY <1>4 DEF ChangeDevice
<1>5. CASE AskLib
  <2> DEFINE asked(request) == [lib EXCEPT !.asked = Append(@, request)]
  <2>1. \/ lib' = lib
        \/ \E request \in Requests : lib' = asked(request)
        \/ lib' = [lib EXCEPT !.state = "opening"]
    BY <1>5 DEF AskLib, Requests
  <2>2. \A request \in Requests : /\ asked(request).track = lib.track
                                 /\ asked(request).output = lib.output
    BY <1>1 DEF LibState
  <2>3. lib'.track = lib.track /\ lib'.output = lib.output
    BY <1>1, <2>1, <2>2 DEF LibState
  <2> QED BY <1>5, <2>3 DEF AskLib
<1>6. CASE HaltLib
  BY <1>6 DEF HaltLib, LibEnded
<1> QED BY <1>2, <1>3, <1>4, <1>5, <1>6 DEF GuiStep

-----------------------------------------------------------------------------
(* The device. *)

\* From its closing by the setup until it is opened again it stays closed.
DeviceInv == audio \in {"clean", "open"} => device = "stopped"

LEMMA DeviceStep == TypeInv /\ DeviceInv /\ [Next]_vars => DeviceInv'
<1> SUFFICES ASSUME TypeInv, DeviceInv, [Next]_vars PROVE DeviceInv'
  OBVIOUS
<1>1. CASE GuiStep
  BY <1>1, GuiFrame DEF DeviceInv, Paused
<1>2. CASE LibProceeds \/ LibHandles \/ SetupStart \/ PlayCallback \/ AppendBlock
  <2>1. audio' \notin {"clean", "open"}
    <3>1. CASE LibProceeds \/ LibHandles
      <4>1. audio = "none" /\ audio' = audio
        BY <3>1, Zenon DEF LibProceeds, LibHandles
      <4> QED BY <4>1
    <3>2. CASE SetupStart \/ AppendBlock
      BY <3>2 DEF SetupStart, AppendBlock
    <3>3. CASE PlayCallback
      <4>1. audio = "none" /\ audio' \in {audio, "append"}
        BY <3>3 DEF PlayCallback, Decoding
      <4> QED BY <4>1
    <3> QED BY <1>2, <3>1, <3>2, <3>3
  <2> QED BY <2>1 DEF DeviceInv
<1>3. CASE SetupClose \/ SetupClean
  BY <1>3 DEF SetupClose, SetupClean, DeviceInv
<1>4. CASE \E ok \in OpenOutcomes : SetupOpen(ok)
  BY <1>4 DEF SetupOpen, DeviceInv
<1>5. CASE SdlStep
  BY <1>5 DEF SdlStep, CallbackLooks, TakesChunk, TakesAll, CallbackCleans, DeviceInv
<1>6. CASE UNCHANGED vars
  BY <1>6 DEF vars, DeviceInv
<1> QED BY <1>1, <1>2, <1>3, <1>4, <1>5, <1>6 DEF Next, LibStep

\* libvlc_audio_setup_cb() never opens a device that is open, whatever pause() and stop()
\* do with it in between.
THEOREM DeviceOpenedWhenClosed == Spec => []OpensClosedDevice
<1>1. Init => DeviceInv
  BY DEF Init, DeviceInv
<1>2. DeviceInv => OpensClosedDevice
  BY DEF DeviceInv, OpensClosedDevice
<1> QED BY <1>1, <1>2, DeviceStep, TypeInvariant, PTL DEF Spec

-----------------------------------------------------------------------------
(* The tracks. *)

\* Once _data has been cleared for a track there are samples of it only, and the block
\* that is to be appended is of it.
OfThisTrack == \A i \in DOMAIN data : data[i].track = lib.track

TrackInv ==
    /\ lib.output = "ready" \/ audio \in {"open", "start"} => OfThisTrack
    /\ audio = "append" => lib.output = "ready" /\ block.track = lib.track

LEMMA TrackStep == TypeInv /\ TrackInv /\ [Next]_vars => TrackInv'
<1> SUFFICES ASSUME TypeInv, TrackInv, [Next]_vars PROVE TrackInv'
  OBVIOUS
<1>1. data \in Seq(Sample) /\ lib \in LibState
  BY DEF TypeInv, TypeOK
<1>2. CASE GuiStep
  <2>1. \A i \in DOMAIN data' : i \in DOMAIN data /\ data'[i] = data[i]
    BY <1>2, GuiFrame
  <2>2. CASE lib'.track = lib.track /\ lib'.output = lib.output
    BY <1>2, <2>1, <2>2, GuiFrame DEF TrackInv, OfThisTrack
  <2>3. CASE lib'.output = "none" /\ audio = "none"
    BY <1>2, <2>3, GuiFrame DEF TrackInv, OfThisTrack
  <2> QED BY <1>2, <2>2, <2>3, GuiFrame
<1>3. CASE LibProceeds
  <2>1. audio' = "none" /\ data' = data /\ lib'.track = lib.track
        /\ lib'.output \in {lib.output, "none"}
    BY <1>1, <1>3 DEF LibProceeds, LibEnded, LibState
  <2> QED BY <2>1 DEF TrackInv, OfThisTrack
<1>4. CASE LibHandles
  <2> DEFINE rest == [lib EXCEPT !.asked = Tail(@)]
  <2>1. rest.track = lib.track /\ rest.output = lib.output
    BY <1>1 DEF LibState
  <2>2. /\ lib' \in {rest, [rest EXCEPT !.state = "paused"], [rest EXCEPT !.state = "playing"]}
        /\ audio = "none" /\ UNCHANGED <<data, audio>>
    BY <1>4, Zenon DEF LibHandles
  <2>3. lib'.track = rest.track /\ lib'.output = rest.output
    <3>1. \A f \in {"track", "output"} : f \in DOMAIN rest
      BY <1>1 DEF LibState
    <3> HIDE DEF rest
    <3> QED BY <2>2, <3>1
  <2> HIDE DEF rest
  <2> QED BY <2>1, <2>2, <2>3 DEF TrackInv, OfThisTrack
<1>5. CASE SetupClose
  BY <1>5 DEF SetupClose, TrackInv, OfThisTrack
<1>6. CASE SetupClean
  BY <1>6 DEF SetupClean, TrackInv, OfThisTrack
<1>7. CASE (\E ok \in OpenOutcomes : SetupOpen(ok)) \/ SetupStart
  <2>1. /\ audio \in {"open", "start"} /\ audio' \in {"start", "none"} /\ data' = data
        /\ lib' \in {lib, [lib EXCEPT !.output = "failed"], [lib EXCEPT !.output = "ready"]}
    BY <1>7, Zenon DEF SetupOpen, SetupStart
  <2>2. lib'.track = lib.track
    BY <1>1, <2>1 DEF LibState
  <2> QED BY <2>1, <2>2 DEF TrackInv, OfThisTrack
<1>8. CASE PlayCallback
  <2>1. /\ lib.output = "ready" /\ UNCHANGED <<data, lib>>
        /\ audio' = "none" \/ (audio' = "append" /\ block' = NextSample)
    BY <1>8 DEF PlayCallback, Decoding
  <2> QED BY <2>1 DEF TrackInv, OfThisTrack, NextSample
<1>9. CASE AppendBlock
  <2>1. /\ audio = "append" /\ audio' = "none" /\ lib' = lib /\ data' = Append(data, block)
    BY <1>9 DEF AppendBlock
  <2>2. \A i \in DOMAIN data' : data'[i] = block \/ (i \in DOMAIN data /\ data'[i] = data[i])
    BY <1>1, <2>1 DEF TypeInv, TypeOK
  <2> QED BY <2>1, <2>2 DEF TrackInv, OfThisTrack
<1>10. CASE SdlStep
  <2>1. UNCHANGED <<lib, audio, block>>
    BY <1>10 DEF SdlStep, CallbackLooks, TakesChunk, TakesAll, CallbackCleans
  <2>2. OfThisTrack => OfThisTrack'
    <3>1. CASE TakesChunk
      <4>1. PICK size \in Nat : size <= Len(data) /\ data' = SubSeq(data, size + 1, Len(data))
        BY <1>1, <3>1, ChunkTaken
      <4>2. \A i \in DOMAIN data' : size + i \in DOMAIN data /\ data'[i] = data[size + i]
        BY <1>1, <4>1, SplitType
      <4> QED BY <2>1, <4>2 DEF OfThisTrack
    <3>2. CASE CallbackLooks \/ TakesAll \/ CallbackCleans
      <4>1. data' = data \/ data' = <<>>
        BY <3>2, Zenon DEF CallbackLooks, TakesAll, CallbackCleans
      <4> QED BY <2>1, <4>1 DEF OfThisTrack
    <3> QED BY <1>10, <3>1, <3>2 DEF SdlStep
  <2> QED BY <2>1, <2>2 DEF TrackInv
<1>11. CASE UNCHANGED vars
  BY <1>11 DEF vars, TrackInv, OfThisTrack
<1> QED
  BY <1>2, <1>3, <1>4, <1>5, <1>6, <1>7, <1>8, <1>9, <1>10, <1>11 DEF Next, LibStep

\* A track that was left is not heard any more once the device is set up for the next one,
\* however open() fell between the steps of libvlc_audio_play_cb().
THEOREM NoOldTrackHeard == Spec => []OldTrackSilent
<1>1. Init => TrackInv
  BY DEF Init, TrackInv, OfThisTrack
<1>2. TrackInv => OldTrackSilent
  BY DEF TrackInv, OfThisTrack, OldTrackSilent
<1> QED BY <1>1, <1>2, TrackStep, TypeInvariant, PTL DEF Spec

-----------------------------------------------------------------------------
(* The order of the samples. *)

Increasing(s) == \A i, j \in DOMAIN s : i < j => s[i].n < s[j].n
UpTo(s, n) == \A i \in DOMAIN s : s[i].n <= n
Below(s, n) == \A i \in DOMAIN s : s[i].n < n
Before(s, t) == \A i \in DOMAIN s, j \in DOMAIN t : s[i].n < t[j].n

\* What is in _data comes after what has been heard, but for the moment between the copying
\* of all of it and cleanMemCache(); a block that is to be appended comes after both.
OrderInv ==
    /\ Increasing(heard) /\ Increasing(data)
    /\ UpTo(heard, decoded) /\ UpTo(data, decoded)
    /\ audio = "append" => /\ block.n = decoded
                           /\ Below(heard, block.n) /\ Below(data, block.n)
    /\ callback # "clean" => Before(heard, data)

\* Samples are numbered.
LEMMA SampleNumbers ==
  ASSUME NEW s \in Seq(Sample)
  PROVE  \A i \in DOMAIN s : i \in 1 .. Len(s) /\ s[i].n \in Nat
<1> SUFFICES ASSUME NEW i \in DOMAIN s PROVE i \in 1 .. Len(s) /\ s[i].n \in Nat
  OBVIOUS
<1>1. i \in 1 .. Len(s)
  OBVIOUS
<1>2. s[i] \in Sample
  OBVIOUS
<1>3. s[i].n \in Nat
  BY <1>2 DEF Sample
<1> QED BY <1>1, <1>3

\* One sequence of samples after another.
LEMMA ConcatOrder ==
  ASSUME NEW s \in Seq(Sample), NEW t \in Seq(Sample)
  PROVE  /\ Increasing(s) /\ Increasing(t) /\ Before(s, t) => Increasing(s \o t)
         /\ \A n \in Nat : UpTo(s, n) /\ UpTo(t, n) => UpTo(s \o t, n)
         /\ \A n \in Nat : Below(s, n) /\ Below(t, n) => Below(s \o t, n)
<1> DEFINE u == s \o t
<1>1. \A i \in DOMAIN u : \/ i \in DOMAIN s /\ u[i] = s[i]
                          \/ i > Len(s) /\ i - Len(s) \in DOMAIN t /\ u[i] = t[i - Len(s)]
  OBVIOUS
<1>2. \A i \in DOMAIN s : i \in 1 .. Len(s) /\ s[i].n \in Nat
  BY SampleNumbers
<1>3. \A i \in DOMAIN t : i \in 1 .. Len(t) /\ t[i].n \in Nat
  BY SampleNumbers
<1>4. Len(s) \in Nat /\ Len(t) \in Nat /\ DOMAIN u \subseteq Nat
  OBVIOUS
<1> HIDE DEF u
<1>5. Increasing(s) /\ Increasing(t) /\ Before(s, t) => Increasing(u)
  <2> SUFFICES ASSUME Increasing(s), Increasing(t), Before(s, t),
                      NEW i \in DOMAIN u, NEW j \in DOMAIN u, i < j
               PROVE  u[i].n < u[j].n
    BY DEF Increasing
  <2>1. i \in Nat /\ j \in Nat
    BY <1>4
  <2>2. CASE j \in DOMAIN s /\ u[j] = s[j]
    <3>1. i \in DOMAIN s /\ u[i] = s[i]
      BY <1>1, <1>2, <1>4, <2>1, <2>2
    <3> QED BY <2>2, <3>1 DEF Increasing
  <2>3. CASE j > Len(s) /\ j - Len(s) \in DOMAIN t /\ u[j] = t[j - Len(s)]
    <3>1. CASE i \in DOMAIN s /\ u[i] = s[i]
      BY <2>3, <3>1 DEF Before
    <3>2. CASE i - Len(s) \in DOMAIN t /\ u[i] = t[i - Len(s)]
      <4>1. i - Len(s) < j - Len(s)
        BY <1>4, <2>1
      <4> QED BY <2>3, <3>2, <4>1 DEF Increasing
    <3> QED BY <1>1, <3>1, <3>2
  <2> QED BY <1>1, <2>2, <2>3
<1>6. \A n \in Nat : UpTo(s, n) /\ UpTo(t, n) => UpTo(u, n)
  BY <1>1 DEF UpTo
<1>7. \A n \in Nat : Below(s, n) /\ Below(t, n) => Below(u, n)
  BY <1>1 DEF Below
<1> QED BY <1>5, <1>6, <1>7 DEF u

\* The two halves of a sequence of samples.
LEMMA SplitOrder ==
  ASSUME NEW s \in Seq(Sample), NEW k \in Nat, k <= Len(s), Increasing(s)
  PROVE  LET front == SubSeq(s, 1, k)  back == SubSeq(s, k + 1, Len(s))
         IN  /\ Increasing(front) /\ Increasing(back) /\ Before(front, back)
             /\ \A n \in Nat : UpTo(s, n) => UpTo(front, n) /\ UpTo(back, n)
             /\ \A n \in Nat : Below(s, n) => Below(front, n) /\ Below(back, n)
             /\ \A t \in Seq(Sample) : Before(t, s) => Before(t, front) /\ Before(t, back)
<1> DEFINE front == SubSeq(s, 1, k)
           back == SubSeq(s, k + 1, Len(s))
<1>1. \A i \in DOMAIN front : /\ i \in DOMAIN s /\ i <= k /\ i \in Nat
                              /\ front[i] = s[i]
  BY SplitType
<1>2. \A i \in DOMAIN back : k + i \in DOMAIN s /\ i \in Nat /\ i > 0 /\ back[i] = s[k + i]
  BY SplitType
<1>3. DOMAIN s \subseteq Nat
  OBVIOUS
<1> HIDE DEF front, back
<1>4. Increasing(front) /\ Increasing(back) /\ Before(front, back)
  <2>1. Increasing(front)
    BY <1>1 DEF Increasing
  <2>2. \A i, j \in DOMAIN back : i < j => k + i < k + j
    BY <1>2
  <2>3. Increasing(back)
    BY <1>2, <2>2 DEF Increasing
  <2>4. \A i \in DOMAIN front, j \in DOMAIN back : i < k + j
    BY <1>1, <1>2
  <2>5. Before(front, back)
    BY <1>1, <1>2, <2>4 DEF Increasing, Before
  <2> QED BY <2>1, <2>3, <2>5
<1>5. \A n \in Nat : UpTo(s, n) => UpTo(front, n) /\ UpTo(back, n)
  BY <1>1, <1>2 DEF UpTo
<1>6. \A n \in Nat : Below(s, n) => Below(front, n) /\ Below(back, n)
  BY <1>1, <1>2 DEF Below
<1>7. \A t \in Seq(Sample) : Before(t, s) => Before(t, front) /\ Before(t, back)
  BY <1>1, <1>2 DEF Before
<1> QED BY <1>4, <1>5, <1>6, <1>7 DEF front, back

\* Nothing is in order, and everywhere.
LEMMA EmptyOrder ==
  /\ Increasing(<<>>)
  /\ \A n \in Nat : UpTo(<<>>, n) /\ Below(<<>>, n)
  /\ \A s \in Seq(Sample) : Before(s, <<>>)
BY DEF Increasing, UpTo, Below, Before

\* A block that comes after all others is appended.
LEMMA AppendOrder ==
  ASSUME NEW s \in Seq(Sample), NEW b \in Sample, Below(s, b.n)
  PROVE  /\ Increasing(s) => Increasing(Append(s, b))
         /\ \A n \in Nat : UpTo(s, n) /\ b.n <= n => UpTo(Append(s, b), n)
         /\ \A t \in Seq(Sample) : Before(t, s) /\ Below(t, b.n) => Before(t, Append(s, b))
<1> DEFINE u == Append(s, b)
<1>1. \A i \in DOMAIN u : \/ i \in DOMAIN s /\ u[i] = s[i]
                          \/ i = Len(s) + 1 /\ u[i] = b
  OBVIOUS
<1>2. \A i \in DOMAIN s : i <= Len(s) /\ i \in Nat
  OBVIOUS
<1>3. Len(s) \in Nat
  OBVIOUS
<1> HIDE DEF u
<1>4. Increasing(s) => Increasing(u)
  BY <1>1, <1>2, <1>3 DEF Increasing, Below
<1>5. \A n \in Nat : UpTo(s, n) /\ b.n <= n => UpTo(u, n)
  BY <1>1 DEF UpTo
<1>6. \A t \in Seq(Sample) : Before(t, s) /\ Below(t, b.n) => Before(t, u)
  BY <1>1 DEF Before, Below
<1> QED BY <1>4, <1>5, <1>6 DEF u

LEMMA OrderStep == TypeInv /\ OrderInv /\ [Next]_vars => OrderInv'
<1> SUFFICES ASSUME TypeInv, OrderInv, [Next]_vars PROVE OrderInv'
  OBVIOUS
<1>1. data \in Seq(Sample) /\ heard \in Seq(Sample) /\ block \in Sample /\ decoded \in Nat
      /\ block.n \in Nat
  BY DEF TypeInv, TypeOK, Sample
<1>2. ASSUME data' = data \/ data' = <<>>, UNCHANGED <<block, decoded, heard>>,
             audio' # "append" \/ audio' = audio, callback' = callback
      PROVE  OrderInv'
  BY <1>1, <1>2, EmptyOrder DEF OrderInv
<1>3. CASE GuiStep
  BY <1>2, <1>3, GuiFrame
<1>4. CASE LibProceeds \/ LibHandles
  <2>1. UNCHANGED <<data, audio, block, callback, decoded, heard>>
    BY <1>4, Zenon DEF LibProceeds, LibHandles
  <2> QED BY <1>2, <2>1
<1>5. CASE SetupClose \/ SetupClean \/ SetupStart
  BY <1>2, <1>5 DEF SetupClose, SetupClean, SetupStart
<1>6. CASE \E ok \in OpenOutcomes : SetupOpen(ok)
  BY <1>2, <1>6 DEF SetupOpen
<1>7. CASE PlayCallback
  <2>1. /\ decoded' = decoded + 1 /\ UNCHANGED <<data, heard, callback>>
        /\ audio = "none"
        /\ audio' = "none" \/ (audio' = "append" /\ block' = NextSample)
    BY <1>7 DEF PlayCallback, Decoding
  <2>2. UpTo(data, decoded') /\ UpTo(heard, decoded')
        /\ Below(data, decoded') /\ Below(heard, decoded')
    <3>1. \A i \in DOMAIN data : data[i].n \in Nat
      BY <1>1, SampleNumbers
    <3>2. \A i \in DOMAIN heard : heard[i].n \in Nat
      BY <1>1, SampleNumbers
    <3> QED BY <1>1, <2>1, <3>1, <3>2 DEF OrderInv, UpTo, Below
  <2>3. NextSample.n = decoded'
    BY <2>1 DEF NextSample
  <2> QED BY <2>1, <2>2, <2>3 DEF OrderInv
<1>8. CASE AppendBlock
  <2>1. /\ audio = "append" /\ audio' = "none" /\ data' = Append(data, block)
        /\ UNCHANGED <<decoded, heard, callback>>
    BY <1>8 DEF AppendBlock
  <2>2. /\ block.n = decoded /\ Below(heard, block.n) /\ Below(data, block.n)
    BY <2>1 DEF OrderInv
  <2>3. Increasing(data') /\ UpTo(data', decoded)
    BY <1>1, <2>1, <2>2, AppendOrder DEF OrderInv
  <2>4. callback # "clean" => Before(heard, data')
    BY <1>1, <2>1, <2>2, AppendOrder DEF OrderInv
  <2> QED BY <2>1, <2>3, <2>4 DEF OrderInv
<1>9. CASE CallbackLooks
  <2>1. /\ callback = "none" /\ callback' \in {"mid", "all"}
        /\ UNCHANGED <<data, audio, block, decoded, heard>>
    BY <1>9 DEF CallbackLooks
  <2> QED BY <2>1 DEF OrderInv
<1>10. CASE TakesChunk
  <2>1. PICK size \in Nat : /\ size <= Len(data)
                           /\ heard' = heard \o SubSeq(data, 1, size)
                           /\ data' = SubSeq(data, size + 1, Len(data))
    BY <1>1, <1>10, ChunkTaken
  <2> DEFINE front == SubSeq(data, 1, size)
             back == SubSeq(data, size + 1, Len(data))
  <2>2. callback = "mid" /\ callback' = "none" /\ UNCHANGED <<audio, block, decoded>>
    BY <1>10, Zenon DEF TakesChunk
  <2>3. front \in Seq(Sample) /\ back \in Seq(Sample)
    BY <1>1, <2>1, SplitType
  <2>4. /\ Increasing(front) /\ Increasing(back) /\ Before(front, back)
        /\ Before(heard, front) /\ Before(heard, back)
        /\ UpTo(front, decoded) /\ UpTo(back, decoded)
        /\ audio = "append" => Below(front, block.n) /\ Below(back, block.n)
    BY <1>1, <2>1, <2>2, SplitOrder DEF OrderInv
  <2>5. heard' = heard \o front /\ data' = back
    BY <2>1
  <2> HIDE DEF front, back
  <2>6. Increasing(heard') /\ UpTo(heard', decoded)
        /\ (audio = "append" => Below(heard', block.n))
    BY <1>1, <2>3, <2>4, <2>5, ConcatOrder DEF OrderInv
  <2>7. Before(heard', data')
    BY <1>1, <2>3, <2>4, <2>5 DEF Before
  <2> QED BY <2>2, <2>4, <2>5, <2>6, <2>7 DEF OrderInv
<1>11. CASE TakesAll
  <2>1. /\ callback = "all" /\ callback' = "clean" /\ heard' = heard \o data
        /\ UNCHANGED <<data, audio, block, decoded>>
    BY <1>11 DEF TakesAll
  <2>2. Increasing(heard') /\ UpTo(heard', decoded)
        /\ (audio = "append" => Below(heard', block.n))
    BY <1>1, <2>1, ConcatOrder DEF OrderInv
  <2> QED BY <2>1, <2>2 DEF OrderInv
<1>12. CASE CallbackCleans
  <2>1. data' = <<>> /\ UNCHANGED <<audio, block, decoded, heard>>
    BY <1>12 DEF CallbackCleans
  <2> QED BY <1>1, <2>1, EmptyOrder DEF OrderInv
<1>13. CASE UNCHANGED vars
  BY <1>2, <1>13 DEF vars
<1> QED
  BY <1>3, <1>4, <1>5, <1>6, <1>7, <1>8, <1>9, <1>10, <1>11, <1>12, <1>13
  DEF Next, LibStep, SdlStep

\* Whatever the three threads do around _data, what SDL is given is never out of order and
\* never given twice (SDL_audio_cbk, libvlc_audio_play_cb, cleanMemCache).
THEOREM HeardInOrder == Spec => []HeardOnceInOrder
<1>1. Init => OrderInv
  BY DEF Init, OrderInv, Increasing, UpTo, Before
<1>2. OrderInv => HeardOnceInOrder
  BY DEF OrderInv, Increasing, HeardOnceInOrder
<1> QED BY <1>1, <1>2, OrderStep, TypeInvariant, PTL DEF Spec

-----------------------------------------------------------------------------
(* The calls of the GUI thread. *)

\* The steps that are still to come in the call under way.
Due == {calling[i] : i \in DOMAIN calling}

\* What a call has left, which depends on what it is; of stop() only after libvlc has
\* stopped.  A seek changes nothing about what is to be heard.
CallInv ==
    \/ calling \in {<<>>, <<"lib_seek", "cleanMemCache">>, <<"cleanMemCache">>}
    \/ /\ wish = "open"
       /\ calling \in {<<"cleanMemCache", "CloseAudio", "lib_open">>, <<"CloseAudio", "lib_open">>,
                       <<"cleanMemCache", "lib_open">>, <<"lib_open">>}
    \/ /\ wish = "play"
       /\ calling \in {<<"clearTag", "lib_play">>, <<"lib_play">>}
    \/ /\ wish = "pause"
       /\ calling \in {<<"setTag", "PauseAudio", "lib_pause">>, <<"PauseAudio", "lib_pause">>,
                       <<"lib_pause">>}
    \/ /\ wish = "stop"
       /\ calling \in {<<"lib_stop", "cleanMemCache", "PauseAudio", "CloseAudio">>,
                       <<"lib_stop", "cleanMemCache", "PauseAudio">>}
    \/ /\ wish = "stop" /\ lib.state = "idle"
       /\ calling \in {<<"cleanMemCache", "PauseAudio", "CloseAudio">>, <<"PauseAudio", "CloseAudio">>,
                       <<"CloseAudio">>, <<"cleanMemCache", "PauseAudio">>, <<"PauseAudio">>}

\* Short sequences.
LEMMA Tuples ==
  /\ {<<>>[i] : i \in DOMAIN <<>>} = {}
  /\ \A a : /\ Head(<<a>>) = a /\ Tail(<<a>>) = <<>>
            /\ {<<a>>[i] : i \in DOMAIN <<a>>} = {a}
  /\ \A a, b : /\ Head(<<a, b>>) = a /\ Tail(<<a, b>>) = <<b>>
               /\ {<<a, b>>[i] : i \in DOMAIN <<a, b>>} = {a, b}
  /\ \A a, b, c : /\ Head(<<a, b, c>>) = a /\ Tail(<<a, b, c>>) = <<b, c>>
                  /\ {<<a, b, c>>[i] : i \in DOMAIN <<a, b, c>>} = {a, b, c}
  /\ \A a, b, c, d : /\ Head(<<a, b, c, d>>) = a /\ Tail(<<a, b, c, d>>) = <<b, c, d>>
                     /\ {<<a, b, c, d>>[i] : i \in DOMAIN <<a, b, c, d>>} = {a, b, c, d}
<1>1. {<<>>[i] : i \in DOMAIN <<>>} = {}
  OBVIOUS
<1>2. \A a : /\ Head(<<a>>) = a /\ Tail(<<a>>) = <<>>
             /\ {<<a>>[i] : i \in DOMAIN <<a>>} = {a}
  OBVIOUS
<1>3. \A a, b : /\ Head(<<a, b>>) = a /\ Tail(<<a, b>>) = <<b>>
                /\ {<<a, b>>[i] : i \in DOMAIN <<a, b>>} = {a, b}
  OBVIOUS
<1>4. \A a, b, c : /\ Head(<<a, b, c>>) = a /\ Tail(<<a, b, c>>) = <<b, c>>
                   /\ {<<a, b, c>>[i] : i \in DOMAIN <<a, b, c>>} = {a, b, c}
  OBVIOUS
<1>5. \A a, b, c, d : /\ Head(<<a, b, c, d>>) = a /\ Tail(<<a, b, c, d>>) = <<b, c, d>>
                      /\ {<<a, b, c, d>>[i] : i \in DOMAIN <<a, b, c, d>>} = {a, b, c, d}
  OBVIOUS
<1> QED BY <1>1, <1>2, <1>3, <1>4, <1>5

\* Which calls wait for what.
LEMMA DueFacts ==
  ASSUME CallInv
  PROVE  /\ Due \cap {"setTag", "lib_pause"} # {} => wish = "pause"
         /\ Due \cap {"clearTag", "lib_play"} # {} => wish = "play"
         /\ "lib_open" \in Due => wish = "open"
         /\ "setTag" \in Due => "PauseAudio" \in Due
         /\ wish = "pause" /\ "PauseAudio" \in Due => "lib_pause" \in Due
         /\ "clearTag" \in Due => "lib_play" \in Due
<1>1. CASE calling \in {<<>>, <<"lib_seek", "cleanMemCache">>, <<"cleanMemCache">>}
  <2>1. Due \in {{}, {"lib_seek", "cleanMemCache"}, {"cleanMemCache"}}
    BY <1>1, Tuples DEF Due
  <2> QED BY <2>1
<1>2. CASE wish = "open" /\ calling \in {<<"cleanMemCache", "CloseAudio", "lib_open">>,
              <<"CloseAudio", "lib_open">>, <<"cleanMemCache", "lib_open">>, <<"lib_open">>}
  <2>1. Due \in {{"cleanMemCache", "CloseAudio", "lib_open"}, {"CloseAudio", "lib_open"},
                 {"cleanMemCache", "lib_open"}, {"lib_open"}}
    BY <1>2, Tuples DEF Due
  <2> QED BY <1>2, <2>1
<1>3. CASE wish = "play" /\ calling \in {<<"clearTag", "lib_play">>, <<"lib_play">>}
  <2>1. Due \in {{"clearTag", "lib_play"}, {"lib_play"}}
    BY <1>3, Tuples DEF Due
  <2> QED BY <1>3, <2>1
<1>4. CASE wish = "pause" /\ calling \in {<<"setTag", "PauseAudio", "lib_pause">>,
              <<"PauseAudio", "lib_pause">>, <<"lib_pause">>}
  <2>1. Due \in {{"setTag", "PauseAudio", "lib_pause"}, {"PauseAudio", "lib_pause"}, {"lib_pause"}}
    BY <1>4, Tuples DEF Due
  <2> QED BY <1>4, <2>1
<1>5. CASE wish = "stop" /\ calling \in {<<"lib_stop", "cleanMemCache", "PauseAudio", "CloseAudio">>,
              <<"lib_stop", "cleanMemCache", "PauseAudio">>}
  <2>1. Due \in {{"lib_stop", "cleanMemCache", "PauseAudio", "CloseAudio"},
                 {"lib_stop", "cleanMemCache", "PauseAudio"}}
    BY <1>5, Tuples DEF Due
  <2> QED BY <1>5, <2>1
<1>6. CASE /\ wish = "stop"
           /\ calling \in {<<"cleanMemCache", "PauseAudio", "CloseAudio">>,
                 <<"PauseAudio", "CloseAudio">>, <<"CloseAudio">>,
                 <<"cleanMemCache", "PauseAudio">>, <<"PauseAudio">>}
  <2>1. Due \in {{"cleanMemCache", "PauseAudio", "CloseAudio"}, {"PauseAudio", "CloseAudio"},
                 {"CloseAudio"}, {"cleanMemCache", "PauseAudio"}, {"PauseAudio"}}
    BY <1>6, Tuples DEF Due
  <2> QED BY <1>6, <2>1
<1> QED BY <1>1, <1>2, <1>3, <1>4, <1>5, <1>6 DEF CallInv

\* A call goes on: what the step is for, and what is left then.
LEMMA CallGoesOn ==
  ASSUME CallInv, NEW step, Doing(step), wish' = wish,
         step # "lib_play" /\ lib.state = "idle" => lib'.state = "idle",
         step = "lib_stop" => lib'.state = "idle"
  PROVE  /\ CallInv'
         /\ step \in Due /\ Due' = Due \ {step}
         /\ step = "PauseAudio" => wish = "pause" \/ (wish = "stop" /\ lib.state = "idle")
         /\ step = "CloseAudio" => "lib_open" \in Due' \/ (wish = "stop" /\ lib.state = "idle")
<1>1. calling # <<>> /\ Head(calling) = step /\ calling' = Tail(calling)
  BY DEF Doing
<1>2. CASE calling \in {<<"lib_seek", "cleanMemCache">>, <<"cleanMemCache">>}
  <2>1. CASE calling = <<"lib_seek", "cleanMemCache">>
    <3>1. /\ step = "lib_seek" /\ calling' = <<"cleanMemCache">>
          /\ Due = {"lib_seek", "cleanMemCache"} /\ Due' = {"cleanMemCache"}
      BY <1>1, <2>1, Tuples DEF Due
    <3> QED BY <3>1 DEF CallInv
  <2>2. CASE calling = <<"cleanMemCache">>
    <3>1. step = "cleanMemCache" /\ calling' = <<>> /\ Due = {"cleanMemCache"} /\ Due' = {}
      BY <1>1, <2>2, Tuples DEF Due
    <3> QED BY <3>1 DEF CallInv
  <2> QED BY <1>2, <2>1, <2>2
<1>3. CASE wish = "open" /\ calling = <<"cleanMemCache", "CloseAudio", "lib_open">>
  <2>1. /\ step = "cleanMemCache" /\ calling' = <<"CloseAudio", "lib_open">>
        /\ Due = {"cleanMemCache", "CloseAudio", "lib_open"} /\ Due' = {"CloseAudio", "lib_open"}
    BY <1>1, <1>3, Tuples DEF Due
  <2> QED BY <1>3, <2>1 DEF CallInv
<1>4. CASE wish = "open" /\ calling = <<"CloseAudio", "lib_open">>
  <2>1. /\ step = "CloseAudio" /\ calling' = <<"lib_open">>
        /\ Due = {"CloseAudio", "lib_open"} /\ Due' = {"lib_open"}
    BY <1>1, <1>4, Tuples DEF Due
  <2> QED BY <1>4, <2>1 DEF CallInv
<1>5. CASE wish = "open" /\ calling = <<"cleanMemCache", "lib_open">>
  <2>1. /\ step = "cleanMemCache" /\ calling' = <<"lib_open">>
        /\ Due = {"cleanMemCache", "lib_open"} /\ Due' = {"lib_open"}
    BY <1>1, <1>5, Tuples DEF Due
  <2> QED BY <1>5, <2>1 DEF CallInv
<1>6. CASE calling \in {<<"lib_open">>, <<"lib_play">>, <<"lib_pause">>}
  <2>1. PICK last \in {"lib_open", "lib_play", "lib_pause"} : calling = <<last>>
    BY <1>6
  <2>2. step = last /\ calling' = <<>> /\ Due = {last} /\ Due' = {}
    BY <1>1, <2>1, Tuples DEF Due
  <2> QED BY <2>1, <2>2 DEF CallInv
<1>7. CASE wish = "play" /\ calling = <<"clearTag", "lib_play">>
  <2>1. /\ step = "clearTag" /\ calling' = <<"lib_play">>
        /\ Due = {"clearTag", "lib_play"} /\ Due' = {"lib_play"}
    BY <1>1, <1>7, Tuples DEF Due
  <2> QED BY <1>7, <2>1 DEF CallInv
<1>8. CASE wish = "pause" /\ calling = <<"setTag", "PauseAudio", "lib_pause">>
  <2>1. /\ step = "setTag" /\ calling' = <<"PauseAudio", "lib_pause">>
        /\ Due = {"setTag", "PauseAudio", "lib_pause"} /\ Due' = {"PauseAudio", "lib_pause"}
    BY <1>1, <1>8, Tuples DEF Due
  <2> QED BY <1>8, <2>1 DEF CallInv
<1>9. CASE wish = "pause" /\ calling = <<"PauseAudio", "lib_pause">>
  <2>1. /\ step = "PauseAudio" /\ calling' = <<"lib_pause">>
        /\ Due = {"PauseAudio", "lib_pause"} /\ Due' = {"lib_pause"}
    BY <1>1, <1>9, Tuples DEF Due
  <2> QED BY <1>9, <2>1 DEF CallInv
<1>10. CASE wish = "stop" /\ calling = <<"lib_stop", "cleanMemCache", "PauseAudio", "CloseAudio">>
  <2>1. /\ step = "lib_stop" /\ calling' = <<"cleanMemCache", "PauseAudio", "CloseAudio">>
        /\ Due = {"lib_stop", "cleanMemCache", "PauseAudio", "CloseAudio"}
        /\ Due' = {"cleanMemCache", "PauseAudio", "CloseAudio"}
    BY <1>1, <1>10, Tuples DEF Due
  <2> QED BY <1>10, <2>1 DEF CallInv
<1>11. CASE wish = "stop" /\ calling = <<"lib_stop", "cleanMemCache", "PauseAudio">>
  <2>1. /\ step = "lib_stop" /\ calling' = <<"cleanMemCache", "PauseAudio">>
        /\ Due = {"lib_stop", "cleanMemCache", "PauseAudio"}
        /\ Due' = {"cleanMemCache", "PauseAudio"}
    BY <1>1, <1>11, Tuples DEF Due
  <2> QED BY <1>11, <2>1 DEF CallInv
<1>12. CASE /\ wish = "stop" /\ lib.state = "idle"
            /\ calling = <<"cleanMemCache", "PauseAudio", "CloseAudio">>
  <2>1. /\ step = "cleanMemCache" /\ calling' = <<"PauseAudio", "CloseAudio">>
        /\ Due = {"cleanMemCache", "PauseAudio", "CloseAudio"}
        /\ Due' = {"PauseAudio", "CloseAudio"}
    BY <1>1, <1>12, Tuples DEF Due
  <2> QED BY <1>12, <2>1 DEF CallInv
<1>13. CASE wish = "stop" /\ lib.state = "idle" /\ calling = <<"PauseAudio", "CloseAudio">>
  <2>1. /\ step = "PauseAudio" /\ calling' = <<"CloseAudio">>
        /\ Due = {"PauseAudio", "CloseAudio"} /\ Due' = {"CloseAudio"}
    BY <1>1, <1>13, Tuples DEF Due
  <2> QED BY <1>13, <2>1 DEF CallInv
<1>14. CASE wish = "stop" /\ lib.state = "idle" /\ calling = <<"cleanMemCache", "PauseAudio">>
  <2>1. /\ step = "cleanMemCache" /\ calling' = <<"PauseAudio">>
        /\ Due = {"cleanMemCache", "PauseAudio"} /\ Due' = {"PauseAudio"}
    BY <1>1, <1>14, Tuples DEF Due
  <2> QED BY <1>14, <2>1 DEF CallInv
<1>15. CASE /\ wish = "stop" /\ lib.state = "idle"
            /\ calling \in {<<"CloseAudio">>, <<"PauseAudio">>}
  <2>1. PICK last \in {"CloseAudio", "PauseAudio"} : calling = <<last>>
    BY <1>15
  <2>2. step = last /\ calling' = <<>> /\ Due = {last} /\ Due' = {}
    BY <1>1, <2>1, Tuples DEF Due
  <2> QED BY <1>15, <2>1, <2>2 DEF CallInv
<1> QED
  BY <1>1, <1>2, <1>3, <1>4, <1>5, <1>6, <1>7, <1>8, <1>9, <1>10, <1>11, <1>12, <1>13, <1>14,
     <1>15, Zenon DEF CallInv

\* A call begins.
LEMMA CallBegins ==
  ASSUME CallInv, Open \/ Play \/ Pause \/ Stop \/ SetTime
  PROVE  /\ CallInv' /\ Due = {} /\ Due' # {}
         /\ UNCHANGED <<data, progressTag, device, lib, audio>>
         /\ \/ wish' = "open" /\ "lib_open" \in Due'
            \/ wish' = "play" /\ Due' = {"clearTag", "lib_play"}
            \/ wish' = "pause" /\ Due' = {"setTag", "PauseAudio", "lib_pause"}
            \/ wish' = "stop"
            \/ wish' = wish /\ Due' = {"lib_seek", "cleanMemCache"}
<1>1. calling = <<>> /\ UNCHANGED <<data, progressTag, device, lib, audio>>
  BY DEF Open, Play, Pause, Stop, SetTime, Call
<1>2. Due = {}
  BY <1>1, Tuples DEF Due
<1>3. CASE Open
  <2>1. /\ wish' = "open"
        /\ \/ calling' = <<"cleanMemCache", "lib_open">>
           \/ calling' = <<"cleanMemCache", "CloseAudio", "lib_open">>
    BY <1>3, Zenon DEF Open, Call
  <2>2. CASE calling' = <<"cleanMemCache", "lib_open">>
    <3>1. Due' = {"cleanMemCache", "lib_open"}
      BY <2>2, Tuples DEF Due
    <3> QED BY <1>1, <1>2, <2>1, <2>2, <3>1 DEF CallInv
  <2>3. CASE calling' = <<"cleanMemCache", "CloseAudio", "lib_open">>
    <3>1. Due' = {"cleanMemCache", "CloseAudio", "lib_open"}
      BY <2>3, Tuples DEF Due
    <3> QED BY <1>1, <1>2, <2>1, <2>3, <3>1 DEF CallInv
  <2> QED BY <2>1, <2>2, <2>3
<1>4. CASE Play
  <2>1. wish' = "play" /\ calling' = <<"clearTag", "lib_play">>
    BY <1>4, Zenon DEF Play, Call
  <2>2. Due' = {"clearTag", "lib_play"}
    BY <2>1, Tuples DEF Due
  <2> QED BY <1>1, <1>2, <2>1, <2>2 DEF CallInv
<1>5. CASE Pause
  <2>1. wish' = "pause" /\ calling' = <<"setTag", "PauseAudio", "lib_pause">>
    BY <1>5, Zenon DEF Pause, Call
  <2>2. Due' = {"setTag", "PauseAudio", "lib_pause"}
    BY <2>1, Tuples DEF Due
  <2> QED BY <1>1, <1>2, <2>1, <2>2 DEF CallInv
<1>6. CASE Stop
  <2>1. /\ wish' = "stop"
        /\ \/ calling' = <<"lib_stop", "cleanMemCache", "PauseAudio">>
           \/ calling' = <<"lib_stop", "cleanMemCache", "PauseAudio", "CloseAudio">>
    BY <1>6, Zenon DEF Stop, Call
  <2>2. CASE calling' = <<"lib_stop", "cleanMemCache", "PauseAudio">>
    <3>1. Due' = {"lib_stop", "cleanMemCache", "PauseAudio"}
      BY <2>2, Tuples DEF Due
    <3> QED BY <1>1, <1>2, <2>1, <2>2, <3>1 DEF CallInv
  <2>3. CASE calling' = <<"lib_stop", "cleanMemCache", "PauseAudio", "CloseAudio">>
    <3>1. Due' = {"lib_stop", "cleanMemCache", "PauseAudio", "CloseAudio"}
      BY <2>3, Tuples DEF Due
    <3> QED BY <1>1, <1>2, <2>1, <2>3, <3>1 DEF CallInv
  <2> QED BY <2>1, <2>2, <2>3
<1>7. CASE SetTime
  <2>1. wish' = wish /\ calling' = <<"lib_seek", "cleanMemCache">>
    BY <1>7, Zenon DEF SetTime, Call
  <2>2. Due' = {"lib_seek", "cleanMemCache"}
    BY <2>1, Tuples DEF Due
  <2> QED BY <1>1, <1>2, <2>1, <2>2 DEF CallInv
<1> QED BY <1>3, <1>4, <1>5, <1>6, <1>7

-----------------------------------------------------------------------------
(* The requests libvlc has still to carry out. *)

Has(requests, what) == \E i \in DOMAIN requests : requests[i] = what

EachThen(requests, first, second) ==
    \A i \in DOMAIN requests : requests[i] = first =>
        \E j \in DOMAIN requests : j > i /\ requests[j] = second

\* One more is asked for.
LEMMA AskedMore ==
  ASSUME NEW s \in Seq(Requests), NEW last \in Requests
  PROVE  /\ \A what : Has(Append(s, last), what) <=> Has(s, what) \/ what = last
         /\ \A first, second : EachThen(s, first, second) /\ last # first
                               => EachThen(Append(s, last), first, second)
         /\ \A first : first # last => EachThen(Append(s, last), first, last)
<1> DEFINE t == Append(s, last)
           n == Len(s) + 1
<1>1. /\ \A i \in DOMAIN t : i \in DOMAIN s \/ i = n
      /\ \A i \in DOMAIN s : i \in DOMAIN t /\ t[i] = s[i] /\ n > i
      /\ n \in DOMAIN t /\ t[n] = last
  OBVIOUS
<1> HIDE DEF t, n
<1>2. \A what : Has(t, what) <=> Has(s, what) \/ what = last
  BY <1>1 DEF Has
<1>3. \A first, second : EachThen(s, first, second) /\ last # first => EachThen(t, first, second)
  BY <1>1 DEF EachThen
<1>4. \A first : first # last => EachThen(t, first, last)
  BY <1>1 DEF EachThen
<1> QED BY <1>2, <1>3, <1>4 DEF t

\* The first is carried out.
LEMMA AskedLess ==
  ASSUME NEW s \in Seq(Requests), s # <<>>
  PROVE  /\ \A what : Has(Tail(s), what) => Has(s, what)
         /\ \A what : Has(s, what) => Has(Tail(s), what) \/ what = Head(s)
         /\ \A first, second : EachThen(s, first, second) =>
              /\ EachThen(Tail(s), first, second)
              /\ first = Head(s) => Has(Tail(s), second)
<1> DEFINE t == Tail(s)
<1>1. /\ \A i \in DOMAIN t : i \in Nat /\ i + 1 \in DOMAIN s /\ t[i] = s[i + 1]
      /\ \A i \in DOMAIN s : i \in Nat /\ (i > 1 => i - 1 \in DOMAIN t /\ t[i - 1] = s[i])
      /\ 1 \in DOMAIN s /\ Head(s) = s[1]
      /\ \A i \in DOMAIN s : i >= 1
  OBVIOUS
<1> HIDE DEF t
<1>2. \A what : Has(t, what) => Has(s, what)
  BY <1>1 DEF Has
<1>3. ASSUME NEW what, NEW i \in DOMAIN s, s[i] = what
      PROVE  Has(t, what) \/ what = Head(s)
  <2>1. CASE i = 1
    BY <1>1, <1>3, <2>1
  <2>2. CASE i > 1
    <3>1. i - 1 \in DOMAIN t /\ t[i - 1] = what
      BY <1>1, <1>3, <2>2
    <3> QED BY <3>1 DEF Has
  <2> QED BY <1>1, <2>1, <2>2
<1>4. ASSUME NEW first, NEW second, EachThen(s, first, second)
      PROVE  EachThen(t, first, second) /\ (first = Head(s) => Has(t, second))
  <2>1. ASSUME NEW i \in DOMAIN t, t[i] = first
        PROVE  \E j \in DOMAIN t : j > i /\ t[j] = second
    <3>1. PICK j \in DOMAIN s : j > i + 1 /\ s[j] = second
      BY <1>1, <1>4, <2>1 DEF EachThen
    <3>2. j - 1 \in DOMAIN t /\ t[j - 1] = second /\ j - 1 > i
      BY <1>1, <3>1
    <3> QED BY <3>2
  <2>2. ASSUME first = Head(s) PROVE Has(t, second)
    <3>1. PICK j \in DOMAIN s : j > 1 /\ s[j] = second
      BY <1>1, <1>4, <2>2 DEF EachThen
    <3> QED BY <1>1, <3>1 DEF Has
  <2> QED BY <2>1, <2>2 DEF EachThen
<1> QED BY <1>2, <1>3, <1>4 DEF Has, t

\* What a request carried out does.
LEMMA Handled ==
  ASSUME TypeInv, LibHandles
  PROVE  /\ audio = "none" /\ lib.state \in {"playing", "paused"}
         /\ lib.asked \in Seq(Requests) /\ lib.asked # <<>>
         /\ lib'.output = lib.output /\ lib'.asked = Tail(lib.asked)
         /\ UNCHANGED <<data, progressTag, calling, wish, audio>>
         /\ \/ /\ Head(lib.asked) = "pause" /\ lib.state = "playing" /\ lib'.state = "paused"
               /\ device' = IF lib.output = "ready" THEN Paused(device) ELSE device
            \/ /\ Head(lib.asked) = "play" /\ lib.state = "paused" /\ lib'.state = "playing"
               /\ device' = IF lib.output = "ready" THEN Started(device) ELSE device
            \/ /\ ~(Head(lib.asked) = "pause" /\ lib.state = "playing")
               /\ ~(Head(lib.asked) = "play" /\ lib.state = "paused")
               /\ lib'.state = lib.state /\ device' = device
<1> DEFINE rest == [lib EXCEPT !.asked = Tail(@)]
<1>1. lib \in LibState
  BY DEF TypeInv, TypeOK
<1>2. /\ rest.state = lib.state /\ rest.output = lib.output /\ rest.asked = Tail(lib.asked)
      /\ \A what \in {"playing", "paused"} :
            LET player == [rest EXCEPT !.state = what]
            IN  player.state = what /\ player.output = lib.output /\ player.asked = Tail(lib.asked)
  BY <1>1 DEF LibState
<1>3. /\ audio = "none" /\ lib.state \in {"playing", "paused"} /\ lib.asked # <<>>
      /\ UNCHANGED <<data, progressTag, calling, wish, audio>>
  BY DEF LibHandles, gui
<1>4. \/ /\ Head(lib.asked) = "pause" /\ lib.state = "playing"
         /\ lib' = [rest EXCEPT !.state = "paused"]
         /\ device' = IF lib.output = "ready" THEN Paused(device) ELSE device
      \/ /\ Head(lib.asked) = "play" /\ lib.state = "paused"
         /\ lib' = [rest EXCEPT !.state = "playing"]
         /\ device' = IF lib.output = "ready" THEN Started(device) ELSE device
      \/ /\ ~(Head(lib.asked) = "pause" /\ lib.state = "playing")
         /\ ~(Head(lib.asked) = "play" /\ lib.state = "paused")
         /\ lib' = rest /\ device' = device
  BY DEF LibHandles
<1> HIDE DEF rest
<1>5. lib.asked \in Seq(Requests)
  BY <1>1 DEF LibState
<1> QED BY <1>2, <1>3, <1>4, <1>5

\* What the GUI thread's requests do.
LEMMA Asks ==
  ASSUME TypeInv, AskLib
  PROVE  /\ lib.asked \in Seq(Requests) /\ lib'.output = lib.output
         /\ UNCHANGED <<data, progressTag, device, wish, audio>>
         /\ \/ /\ Doing("lib_play") /\ lib.state = "idle"
               /\ lib'.state = "opening" /\ lib'.asked = lib.asked
            \/ /\ lib'.state = lib.state /\ lib.state # "idle"
               /\ Doing("lib_play") /\ lib'.asked = Append(lib.asked, "play")
            \/ /\ lib'.state = lib.state /\ lib.state \in {"playing", "paused"}
               /\ \/ Doing("lib_pause") /\ lib'.asked = Append(lib.asked, "pause")
                  \/ Doing("lib_seek") /\ lib'.asked = Append(lib.asked, "seek")
            \/ /\ lib'.state = lib.state /\ lib'.asked = lib.asked
               /\ lib.state \notin {"playing", "paused"}
               /\ Doing("lib_pause") \/ Doing("lib_seek")
<1> DEFINE asked(request) == [lib EXCEPT !.asked = Append(@, request)]
<1>1. lib \in LibState
  BY DEF TypeInv, TypeOK
<1>2. /\ \A request \in Requests : /\ asked(request).state = lib.state
                                   /\ asked(request).output = lib.output
                                   /\ asked(request).asked = Append(lib.asked, request)
      /\ LET opening == [lib EXCEPT !.state = "opening"]
         IN  /\ opening.state = "opening" /\ opening.output = lib.output
             /\ opening.asked = lib.asked
  BY <1>1 DEF LibState
<1>3. "play" \in Requests /\ "pause" \in Requests /\ "seek" \in Requests
  BY DEF Requests
<1>4. UNCHANGED <<data, progressTag, device, wish, audio>> /\ lib.asked \in Seq(Requests)
  BY <1>1 DEF AskLib, LibState
<1>5. CASE Doing("lib_play") /\ lib' = IF lib.state = "idle"
                                       THEN [lib EXCEPT !.state = "opening"] ELSE asked("play")
  <2> HIDE DEF asked
  <2> QED BY <1>2, <1>3, <1>4, <1>5
<1>6. CASE /\ Doing("lib_pause")
           /\ lib' = IF lib.state \in {"playing", "paused"} THEN asked("pause") ELSE lib
  <2> HIDE DEF asked
  <2> QED BY <1>2, <1>3, <1>4, <1>6
<1>7. CASE /\ Doing("lib_seek")
           /\ lib' = IF lib.state \in {"playing", "paused"} THEN asked("seek") ELSE lib
  <2> HIDE DEF asked
  <2> QED BY <1>2, <1>3, <1>4, <1>7
<1> QED BY <1>5, <1>6, <1>7, Zenon DEF AskLib

\* Where libvlc ends its player, it is as new.
LEMMA Halted ==
  ASSUME TypeInv, HaltLib
  PROVE  /\ Doing("lib_stop") \/ Doing("lib_open")
         /\ lib'.state = "idle" /\ lib'.output = "none" /\ lib'.asked = <<>> /\ audio = "none"
         /\ UNCHANGED <<data, progressTag, device, wish, audio>>
BY DEF HaltLib, LibEnded

\* libvlc opens a file, or is at its end.
LEMMA Proceeded ==
  ASSUME TypeInv, LibProceeds
  PROVE  /\ lib.state \in {"opening", "playing"} /\ audio = "none"
         /\ UNCHANGED <<data, device, audio, progressTag, calling, wish>>
         /\ \/ /\ lib.state = "opening" /\ lib'.state = "playing"
               /\ lib'.output = lib.output /\ lib'.asked = lib.asked
            \/ lib'.state = "idle" /\ lib'.output = "none" /\ lib'.asked = <<>>
<1>1. lib \in LibState
  BY DEF TypeInv, TypeOK
<1> QED BY <1>1 DEF LibProceeds, LibEnded, LibState, gui

\* The setting up of the device.
LEMMA SetUp ==
  ASSUME TypeInv, (\E ok \in OpenOutcomes : SetupOpen(ok)) \/ SetupStart
  PROVE  /\ lib'.state = lib.state /\ lib'.asked = lib.asked
         /\ UNCHANGED <<data, progressTag, calling, wish>>
         /\ \/ /\ audio = "open" /\ audio' = "start" /\ device' = "paused"
               /\ lib'.output = lib.output
            \/ /\ audio = "open" /\ audio' = "none" /\ device' = device
               /\ lib'.output = "failed"
            \/ /\ audio = "start" /\ audio' = "none" /\ device' = Started(device)
               /\ lib'.output = "ready"
<1>1. lib \in LibState
  BY DEF TypeInv, TypeOK
<1>2. CASE \E ok \in OpenOutcomes : SetupOpen(ok)
  BY <1>1, <1>2 DEF SetupOpen, LibState, gui
<1>3. CASE SetupStart
  BY <1>1, <1>3 DEF SetupStart, LibState, gui
<1> QED BY <1>2, <1>3

\* The callback of SDL only takes from _data.
LEMMA CallbackFrame ==
  ASSUME TypeInv, SdlStep
  PROVE  /\ data = <<>> => data' = <<>>
         /\ UNCHANGED <<device, lib, audio, progressTag, calling, wish>>
<1>1. UNCHANGED <<device, lib, audio, progressTag, calling, wish>>
  BY DEF SdlStep, CallbackLooks, TakesChunk, TakesAll, CallbackCleans, gui
<1>2. ASSUME data = <<>> PROVE data' = <<>>
  <2>1. CASE TakesChunk
    <3>1. PICK size \in Nat : size <= Len(data) /\ data' = SubSeq(data, size + 1, Len(data))
      BY <2>1, ChunkTaken DEF TypeInv, TypeOK
    <3> QED BY <1>2, <3>1
  <2>2. CASE CallbackLooks \/ TakesAll \/ CallbackCleans
    BY <1>2, <2>2 DEF CallbackLooks, TakesAll, CallbackCleans
  <2> QED BY <2>1, <2>2 DEF SdlStep
<1> QED BY <1>1, <1>2

-----------------------------------------------------------------------------
(* Pausing and playing. *)

LEMMA CallStep == TypeInv /\ CallInv /\ [Next]_vars => CallInv'
<1> SUFFICES ASSUME TypeInv, CallInv, [Next]_vars PROVE CallInv'
  OBVIOUS
<1>1. CASE Open \/ Play \/ Pause \/ Stop \/ SetTime
  BY <1>1, CallBegins
<1>2. CASE SetProgressTag \/ CleanMemCache \/ ChangeDevice
  <2>1. wish' = wish /\ lib' = lib
    BY <1>2 DEF SetProgressTag, CleanMemCache, ChangeDevice
  <2>2. PICK step \in {"setTag", "clearTag", "cleanMemCache", "PauseAudio", "CloseAudio"} : Doing(step)
    BY <1>2 DEF SetProgressTag, CleanMemCache, ChangeDevice
  <2> QED BY <2>1, <2>2, CallGoesOn
<1>3. CASE AskLib
  BY <1>3, Asks, CallGoesOn
<1>4. CASE HaltLib
  BY <1>4, Halted, CallGoesOn
<1>5. ASSUME UNCHANGED <<calling, wish>>, lib.state = "idle" => lib'.state = "idle"
      PROVE  CallInv'
  BY <1>5 DEF CallInv
<1>6. CASE LibProceeds
  BY <1>5, <1>6, Proceeded
<1>7. CASE LibHandles
  BY <1>5, <1>7, Handled
<1>8. CASE SetupClose \/ SetupClean \/ PlayCallback \/ AppendBlock
  BY <1>5, <1>8 DEF SetupClose, SetupClean, PlayCallback, AppendBlock, gui
<1>9. CASE (\E ok \in OpenOutcomes : SetupOpen(ok)) \/ SetupStart
  BY <1>5, <1>9, SetUp
<1>10. CASE SdlStep
  BY <1>5, <1>10, CallbackFrame
<1>11. CASE UNCHANGED vars
  BY <1>5, <1>11 DEF vars
<1> QED
  BY <1>1, <1>2, <1>3, <1>4, <1>6, <1>7, <1>8, <1>9, <1>10, <1>11 DEF Next, GuiStep, LibStep

\* How far libvlc's player, the libvlc thread's callback and the device can be apart.
OutputInv ==
    /\ lib.state \in {"idle", "opening"} => lib.output = "none" /\ audio = "none"
    /\ lib.state = "idle" => lib.asked = <<>>
    /\ lib.state = "opening" => ~Has(lib.asked, "pause")
    /\ audio \in {"clean", "open", "start"} => lib.output = "none"
    /\ audio # "none" => lib.state = "playing"
    /\ audio \in {"open", "start"} => data = <<>>
    /\ audio = "append" => lib.output = "ready"
    /\ lib.output = "ready" /\ lib.state = "paused" => device # "playing"
    /\ audio = "start" /\ "lib_open" \notin Due => device = "paused"
    /\ lib.output = "ready" /\ "lib_open" \notin Due => device # "stopped"

\* While the player is to be silent libvlc's device plays only with nothing to play, or
\* with a pause() under way: in the GUI thread, or asked of libvlc.  What is dropped before
\* it reaches _data is what makes the first of these last.
PauseInv ==
    wish = "pause" =>
       /\ "setTag" \notin Due => progressTag
       /\ "lib_pause" \notin Due /\ (lib.state = "paused" \/ Has(lib.asked, "pause"))
          => EachThen(lib.asked, "play", "pause")
       /\ "PauseAudio" \notin Due /\ device = "playing" =>
            \/ lib.state = "idle"
            \/ data = <<>> /\ audio # "append"
            \/ lib.output = "ready" /\ ("lib_pause" \in Due \/ Has(lib.asked, "pause"))

\* A device that is not playing though libvlc is, was paused by a call that still goes on,
\* or whose request is not carried out yet; and after play() every pause() that is still
\* to be carried out is followed by a play().
PlayInv ==
    /\ lib.output = "ready" /\ lib.state = "playing" =>
          \/ device = "playing" \/ Has(lib.asked, "pause")
          \/ "lib_pause" \in Due \/ "lib_open" \in Due
    /\ wish = "play" =>
          /\ "clearTag" \notin Due => ~progressTag
          /\ "lib_play" \notin Due => /\ EachThen(lib.asked, "pause", "play")
                                      /\ lib.state = "paused" => Has(lib.asked, "play")

WishInv == CallInv /\ OutputInv /\ PauseInv /\ PlayInv

\* Where nothing that these speak of changes but what is in _data.
LEMMA WishFrame ==
  ASSUME OutputInv, PauseInv, PlayInv, data = <<>> => data' = <<>>,
         UNCHANGED <<device, lib, audio, progressTag, calling, wish>>
  PROVE  OutputInv' /\ PauseInv' /\ PlayInv'
<1>1. Due' = Due
  BY DEF Due
<1>2. OutputInv'
  BY <1>1 DEF OutputInv
<1>3. PauseInv'
  BY <1>1 DEF PauseInv
<1>4. PlayInv'
  BY <1>1 DEF PlayInv
<1> QED BY <1>2, <1>3, <1>4

LEMMA WishStep == TypeInv /\ WishInv /\ [Next]_vars => OutputInv' /\ PauseInv' /\ PlayInv'
<1> SUFFICES ASSUME TypeInv, WishInv, [Next]_vars PROVE OutputInv' /\ PauseInv' /\ PlayInv'
  OBVIOUS
<1>1. CallInv /\ OutputInv /\ PauseInv /\ PlayInv
  BY DEF WishInv
<1>2. device \in {"stopped", "paused", "playing"}
  BY DEF TypeInv, TypeOK
<1>3. UNCHANGED calling => Due' = Due
  BY DEF Due
<1>4. CASE Open \/ Play \/ Pause \/ Stop \/ SetTime
  <2>1. /\ UNCHANGED <<data, progressTag, device, lib, audio>> /\ Due = {}
        /\ \/ wish' = "open" /\ "lib_open" \in Due'
           \/ wish' = "play" /\ Due' = {"clearTag", "lib_play"}
           \/ wish' = "pause" /\ Due' = {"setTag", "PauseAudio", "lib_pause"}
           \/ wish' = "stop"
           \/ wish' = wish /\ Due' = {"lib_seek", "cleanMemCache"}
    BY <1>1, <1>4, CallBegins
  <2>2. OutputInv'
    BY <1>1, <2>1 DEF OutputInv
  <2>3. PauseInv'
    BY <1>1, <2>1 DEF PauseInv
  <2>4. PlayInv'
    BY <1>1, <2>1 DEF PlayInv
  <2> QED BY <2>2, <2>3, <2>4
<1>5. CASE SetProgressTag
  <2>1. UNCHANGED <<data, device, wish, lib, audio>>
    BY <1>5 DEF SetProgressTag
  <2>2. CASE Doing("setTag") /\ progressTag' = TRUE
    <3>1. /\ "setTag" \in Due /\ Due' = Due \ {"setTag"} /\ wish = "pause"
      BY <1>1, <2>1, <2>2, CallGoesOn, DueFacts
    <3> QED BY <1>1, <2>1, <2>2, <3>1 DEF OutputInv, PauseInv, PlayInv
  <2>3. CASE Doing("clearTag") /\ progressTag' = FALSE
    <3>1. "clearTag" \in Due /\ Due' = Due \ {"clearTag"} /\ wish = "play"
      BY <1>1, <2>1, <2>3, CallGoesOn, DueFacts
    <3> QED BY <1>1, <2>1, <2>3, <3>1 DEF OutputInv, PauseInv, PlayInv
  <2> QED BY <1>5, <2>2, <2>3 DEF SetProgressTag
<1>6. CASE CleanMemCache
  <2>1. /\ Doing("cleanMemCache") /\ data' = <<>>
        /\ UNCHANGED <<progressTag, device, wish, lib, audio>>
    BY <1>6 DEF CleanMemCache
  <2>2. Due' = Due \ {"cleanMemCache"}
    BY <1>1, <2>1, CallGoesOn
  <2> QED BY <1>1, <2>1, <2>2 DEF OutputInv, PauseInv, PlayInv
<1>7. CASE ChangeDevice
  <2>1. UNCHANGED <<data, progressTag, wish, lib, audio>>
    BY <1>7 DEF ChangeDevice
  <2>2. CASE Doing("PauseAudio") /\ device' = Paused(device)
    <3>1. /\ "PauseAudio" \in Due /\ Due' = Due \ {"PauseAudio"}
          /\ wish = "pause" \/ (wish = "stop" /\ lib.state = "idle")
          /\ wish = "pause" => "lib_pause" \in Due
      BY <1>1, <2>1, <2>2, CallGoesOn, DueFacts
    <3>2. device' = device \/ (device = "playing" /\ device' = "paused")
      BY <2>2 DEF Paused
    <3>3. device' # "playing"
      BY <2>2 DEF Paused
    <3>4. OutputInv'
      BY <1>1, <2>1, <3>1, <3>2 DEF OutputInv
    <3>5. PauseInv'
      BY <1>1, <2>1, <3>1, <3>3 DEF PauseInv
    <3>6. PlayInv'
      BY <1>1, <2>1, <3>1 DEF OutputInv, PlayInv
    <3> QED BY <3>4, <3>5, <3>6
  <2>3. CASE Doing("CloseAudio") /\ device' = "stopped"
    <3>1. /\ "CloseAudio" \in Due /\ Due' = Due \ {"CloseAudio"}
          /\ "lib_open" \in Due' \/ (wish = "stop" /\ lib.state = "idle")
      BY <1>1, <2>1, <2>3, CallGoesOn
    <3>2. OutputInv'
      BY <1>1, <2>1, <2>3, <3>1 DEF OutputInv
    <3>3. PauseInv'
      BY <1>1, <2>1, <2>3, <3>1 DEF PauseInv
    <3>4. "lib_open" \in Due' => wish = "open"
      BY <1>1, <3>1, DueFacts
    <3>5. PlayInv'
      BY <1>1, <2>1, <2>3, <3>1, <3>4 DEF OutputInv, PlayInv
    <3> QED BY <3>2, <3>3, <3>5
  <2> QED BY <1>7, <2>2, <2>3 DEF ChangeDevice
<1>8. CASE AskLib
  <2>1. /\ lib.asked \in Seq(Requests) /\ lib'.output = lib.output
        /\ UNCHANGED <<data, progressTag, device, wish, audio>>
    BY <1>8, Asks
  <2>2. CASE /\ Doing("lib_play") /\ lib.state = "idle"
             /\ lib'.state = "opening" /\ lib'.asked = lib.asked
    <3>1. "lib_play" \in Due /\ wish = "play" /\ Due' = Due \ {"lib_play"}
      BY <1>1, <2>1, <2>2, CallGoesOn, DueFacts
    <3>2. lib.asked = <<>>
      BY <1>1, <2>2 DEF OutputInv
    <3>3. ~Has(<<>>, "pause") /\ EachThen(<<>>, "pause", "play")
      BY DEF Has, EachThen
    <3> QED BY <1>1, <2>1, <2>2, <3>1, <3>2, <3>3 DEF OutputInv, PauseInv, PlayInv
  <2>3. CASE /\ lib'.state = lib.state /\ lib.state # "idle"
             /\ Doing("lib_play") /\ lib'.asked = Append(lib.asked, "play")
    <3>1. "lib_play" \in Due /\ wish = "play" /\ Due' = Due \ {"lib_play"}
      BY <1>1, <2>1, <2>3, CallGoesOn, DueFacts
    <3>2. /\ Has(lib'.asked, "pause") <=> Has(lib.asked, "pause")
          /\ Has(lib'.asked, "play") /\ EachThen(lib'.asked, "pause", "play")
      BY <2>1, <2>3, AskedMore DEF Requests
    <3> QED BY <1>1, <2>1, <2>3, <3>1, <3>2 DEF OutputInv, PauseInv, PlayInv
  <2>4. CASE /\ lib'.state = lib.state /\ lib.state \in {"playing", "paused"}
             /\ Doing("lib_pause") /\ lib'.asked = Append(lib.asked, "pause")
    <3>1. "lib_pause" \in Due /\ wish = "pause" /\ Due' = Due \ {"lib_pause"}
      BY <1>1, <2>1, <2>4, CallGoesOn, DueFacts
    <3>2. Has(lib'.asked, "pause") /\ EachThen(lib'.asked, "play", "pause")
      BY <2>1, <2>4, AskedMore DEF Requests
    <3> QED BY <1>1, <2>1, <2>4, <3>1, <3>2 DEF OutputInv, PauseInv, PlayInv
  <2>5. CASE /\ lib'.state = lib.state /\ lib.state \in {"playing", "paused"}
             /\ Doing("lib_seek") /\ lib'.asked = Append(lib.asked, "seek")
    <3>1. "lib_seek" \in Due /\ Due' = Due \ {"lib_seek"}
      BY <1>1, <2>1, <2>5, CallGoesOn
    <3>2. /\ \A what \in {"play", "pause"} : Has(lib'.asked, what) <=> Has(lib.asked, what)
          /\ EachThen(lib.asked, "play", "pause") => EachThen(lib'.asked, "play", "pause")
          /\ EachThen(lib.asked, "pause", "play") => EachThen(lib'.asked, "pause", "play")
      BY <2>1, <2>5, AskedMore DEF Requests
    <3> QED BY <1>1, <2>1, <2>5, <3>1, <3>2 DEF OutputInv, PauseInv, PlayInv
  <2>6. CASE /\ lib'.state = lib.state /\ lib'.asked = lib.asked
             /\ lib.state \notin {"playing", "paused"}
             /\ Doing("lib_pause") \/ Doing("lib_seek")
    <3>1. PICK step \in {"lib_pause", "lib_seek"} : Doing(step)
      BY <2>6
    <3>2. /\ step \in Due /\ Due' = Due \ {step}
      BY <1>1, <2>1, <2>6, <3>1, CallGoesOn
    <3>3. lib.output # "ready" /\ (lib.state = "opening" => ~Has(lib.asked, "pause"))
          /\ (lib.state = "idle" => ~Has(lib.asked, "pause"))
          /\ lib.state \in {"idle", "opening"}
      BY <1>1, <2>6 DEF OutputInv, Has, TypeInv, TypeOK, LibState
    <3>4. OutputInv'
      BY <1>1, <2>1, <2>6, <3>2, <3>3 DEF OutputInv
    <3>5. PauseInv'
      BY <1>1, <2>1, <2>6, <3>2, <3>3 DEF PauseInv
    <3>6. PlayInv'
      BY <1>1, <2>1, <2>6, <3>2, <3>3 DEF PlayInv
    <3> QED BY <3>4, <3>5, <3>6
  <2> QED BY <1>8, <2>2, <2>3, <2>4, <2>5, <2>6, Asks
<1>9. CASE HaltLib
  <2>1. /\ lib'.state = "idle" /\ lib'.output = "none" /\ lib'.asked = <<>> /\ audio = "none"
        /\ UNCHANGED <<data, progressTag, device, wish, audio>>
    BY <1>9, Halted
  <2>2. PICK step \in {"lib_stop", "lib_open"} : Doing(step)
    BY <1>9, Halted
  <2>3. step \in Due /\ Due' = Due \ {step}
    BY <1>1, <2>1, <2>2, CallGoesOn
  <2>4. \A what : ~Has(<<>>, what)
    BY DEF Has
  <2>5. \A first, second : EachThen(<<>>, first, second)
    BY DEF EachThen
  <2> QED BY <1>1, <2>1, <2>2, <2>3, <2>4, <2>5 DEF OutputInv, PauseInv, PlayInv
<1>10. CASE LibProceeds
  <2>1. /\ lib.state \in {"opening", "playing"} /\ audio = "none"
        /\ UNCHANGED <<data, device, audio, progressTag, calling, wish>>
    BY <1>10, Proceeded
  <2>2. CASE /\ lib.state = "opening" /\ lib'.state = "playing"
             /\ lib'.output = lib.output /\ lib'.asked = lib.asked
    BY <1>1, <1>3, <2>1, <2>2 DEF OutputInv, PauseInv, PlayInv
  <2>3. CASE lib'.state = "idle" /\ lib'.output = "none" /\ lib'.asked = <<>>
    <3>1. \A what : ~Has(<<>>, what)
      BY DEF Has
    <3>2. \A first, second : EachThen(<<>>, first, second)
      BY DEF EachThen
    <3> QED BY <1>1, <1>3, <2>1, <2>3, <3>1, <3>2 DEF OutputInv, PauseInv, PlayInv
  <2> QED BY <1>10, <2>2, <2>3, Proceeded
<1>11. CASE LibHandles
  <2>1. /\ audio = "none" /\ lib.state \in {"playing", "paused"}
        /\ lib.asked \in Seq(Requests) /\ lib.asked # <<>>
        /\ lib'.output = lib.output /\ lib'.asked = Tail(lib.asked)
        /\ UNCHANGED <<data, progressTag, calling, wish, audio>>
    BY <1>11, Handled
  <2>2. /\ \A what : Has(lib'.asked, what) => Has(lib.asked, what)
        /\ \A what : Has(lib.asked, what) => Has(lib'.asked, what) \/ what = Head(lib.asked)
        /\ \A first, second : EachThen(lib.asked, first, second) =>
              /\ EachThen(lib'.asked, first, second)
              /\ first = Head(lib.asked) => Has(lib'.asked, second)
    BY <2>1, AskedLess
  <2>3. CASE /\ Head(lib.asked) = "pause" /\ lib.state = "playing" /\ lib'.state = "paused"
             /\ device' = IF lib.output = "ready" THEN Paused(device) ELSE device
    <3>1. /\ lib.output = "ready" => device' # "playing"
          /\ device' # "playing" => device # "playing" \/ lib.output = "ready"
          /\ device' = "playing" => device = "playing" /\ lib.output # "ready"
          /\ device' = "stopped" => device = "stopped"
      BY <1>2, <2>3 DEF Paused
    <3>2. Has(lib.asked, "pause")
      <4>1. 1 \in DOMAIN lib.asked /\ lib.asked[1] = Head(lib.asked)
        BY <2>1
      <4> QED BY <2>3, <4>1 DEF Has
    <3>3. OutputInv'
      BY <1>1, <1>3, <2>1, <2>2, <2>3, <3>1 DEF OutputInv
    <3>4. PauseInv'
      BY <1>1, <1>3, <2>1, <2>2, <2>3, <3>1, <3>2 DEF PauseInv
    <3>5. PlayInv'
      BY <1>1, <1>3, <2>1, <2>2, <2>3, <3>1 DEF PlayInv
    <3> QED BY <3>3, <3>4, <3>5
  <2>4. CASE /\ Head(lib.asked) = "play" /\ lib.state = "paused" /\ lib'.state = "playing"
             /\ device' = IF lib.output = "ready" THEN Started(device) ELSE device
    <3>1. Has(lib.asked, "pause") => Has(lib'.asked, "pause")
      BY <2>2, <2>4
    <3>2. lib.output = "ready" /\ "lib_open" \notin Due => device' = "playing"
      BY <1>1, <1>2, <2>4 DEF Started, OutputInv
    <3>3. device' = device \/ (lib.output = "ready" /\ device' = "playing")
      BY <2>4 DEF Started
    <3>4. OutputInv'
      BY <1>1, <1>3, <2>1, <2>2, <2>4, <3>2, <3>3 DEF OutputInv
    <3>5. wish = "pause" /\ "lib_pause" \notin Due => Has(lib'.asked, "pause")
      BY <1>1, <2>2, <2>4 DEF PauseInv
    <3>6. PauseInv'
      BY <1>1, <1>3, <2>1, <2>2, <2>4, <3>1, <3>3, <3>5 DEF PauseInv
    <3>7. PlayInv'
      BY <1>1, <1>3, <2>1, <2>2, <2>4, <3>2 DEF PlayInv
    <3> QED BY <3>4, <3>6, <3>7
  <2>5. CASE /\ ~(Head(lib.asked) = "pause" /\ lib.state = "playing")
             /\ ~(Head(lib.asked) = "play" /\ lib.state = "paused")
             /\ lib'.state = lib.state /\ device' = device
    <3>1. OutputInv'
      BY <1>1, <1>3, <2>1, <2>2, <2>5 DEF OutputInv
    <3>2. lib.state = "playing" /\ Has(lib.asked, "pause") => Has(lib'.asked, "pause")
      BY <2>2, <2>5
    <3>3. lib.state = "paused" /\ Has(lib.asked, "play") => Has(lib'.asked, "play")
      BY <2>2, <2>5
    <3>4. lib.output = "ready" /\ device = "playing" => lib.state = "playing"
      BY <1>1, <2>1 DEF OutputInv
    <3>5. PauseInv'
      BY <1>1, <1>3, <2>1, <2>2, <2>5, <3>2, <3>4 DEF PauseInv
    <3>6. PlayInv'
      BY <1>1, <1>3, <2>1, <2>2, <2>5, <3>2, <3>3 DEF PlayInv
    <3> QED BY <3>1, <3>5, <3>6
  <2> QED BY <1>11, <2>3, <2>4, <2>5, Handled
<1>12. CASE SetupClose
  <2>1. /\ audio = "none" /\ audio' = "clean" /\ device' = "stopped"
        /\ lib.state = "playing" /\ lib.output = "none"
        /\ UNCHANGED <<data, lib, progressTag, calling, wish>>
    BY <1>12 DEF SetupClose, gui
  <2> QED BY <1>1, <1>3, <2>1 DEF OutputInv, PauseInv, PlayInv
<1>13. CASE SetupClean
  <2>1. /\ audio = "clean" /\ audio' = "open" /\ data' = <<>>
        /\ UNCHANGED <<device, lib, progressTag, calling, wish>>
    BY <1>13 DEF SetupClean, gui
  <2> QED BY <1>1, <1>3, <2>1 DEF OutputInv, PauseInv, PlayInv
<1>14. CASE (\E ok \in OpenOutcomes : SetupOpen(ok)) \/ SetupStart
  <2>1. /\ lib'.state = lib.state /\ lib'.asked = lib.asked /\ Due' = Due
        /\ UNCHANGED <<data, progressTag, calling, wish>>
    BY <1>3, <1>14, SetUp
  <2>2. lib.state = "playing" /\ (audio \in {"open", "start"} => data = <<>> /\ lib.output = "none")
    BY <1>1, <1>14, SetUp DEF OutputInv
  <2>3. CASE /\ audio = "open" /\ audio' = "start" /\ device' = "paused"
             /\ lib'.output = lib.output
    BY <1>1, <2>1, <2>2, <2>3 DEF OutputInv, PauseInv, PlayInv
  <2>4. CASE /\ audio = "open" /\ audio' = "none" /\ device' = device /\ lib'.output = "failed"
    BY <1>1, <2>1, <2>2, <2>4 DEF OutputInv, PauseInv, PlayInv
  <2>5. CASE /\ audio = "start" /\ audio' = "none" /\ device' = Started(device)
             /\ lib'.output = "ready"
    <3>1. "lib_open" \notin Due => device' = "playing"
      BY <1>1, <2>5 DEF Started, OutputInv
    <3>2. OutputInv'
      BY <1>1, <2>1, <2>2, <2>5, <3>1 DEF OutputInv
    <3>3. PauseInv'
      BY <1>1, <2>1, <2>2, <2>5 DEF PauseInv
    <3>4. PlayInv'
      BY <1>1, <2>1, <2>2, <2>5, <3>1 DEF PlayInv
    <3> QED BY <3>2, <3>3, <3>4
  <2> QED BY <1>14, <2>3, <2>4, <2>5, SetUp
<1>15. CASE PlayCallback
  <2>1. /\ audio = "none" /\ lib.state = "playing" /\ lib.output = "ready"
        /\ audio' \in {"none", "append"} /\ (progressTag => audio' = "none")
        /\ UNCHANGED <<data, device, lib, progressTag, calling, wish>>
    BY <1>15 DEF PlayCallback, Decoding, gui, TypeInv, TypeOK
  <2>2. wish = "pause" /\ "PauseAudio" \notin Due => progressTag
    BY <1>1, DueFacts DEF PauseInv
  <2> QED BY <1>1, <1>3, <2>1, <2>2 DEF OutputInv, PauseInv, PlayInv
<1>16. CASE AppendBlock
  <2>1. /\ audio = "append" /\ audio' = "none"
        /\ UNCHANGED <<device, lib, progressTag, calling, wish>>
    BY <1>16 DEF AppendBlock, gui
  <2> QED BY <1>1, <1>3, <2>1 DEF OutputInv, PauseInv, PlayInv
<1>17. CASE SdlStep
  BY <1>1, <1>17, CallbackFrame, WishFrame
<1>18. CASE UNCHANGED vars
  <2>1. UNCHANGED <<data, device, lib, audio, progressTag, calling, wish>>
    BY <1>18 DEF vars
  <2> QED BY <1>1, <2>1, WishFrame
<1> QED
  BY <1>4, <1>5, <1>6, <1>7, <1>8, <1>9, <1>10, <1>11, <1>12, <1>13, <1>14, <1>15, <1>16, <1>17,
     <1>18 DEF Next, GuiStep, LibStep

LEMMA WishInvariant == Spec => []WishInv
<1>1. Init => WishInv
  <2> SUFFICES ASSUME Init PROVE WishInv
    OBVIOUS
  <2>1. /\ lib.state = "idle" /\ lib.output = "none" /\ lib.asked = <<>> /\ audio = "none"
        /\ wish = "open" /\ calling = <<>>
    BY DEF Init
  <2> QED BY <2>1 DEF WishInv, CallInv, OutputInv, PauseInv, PlayInv
<1>2. TypeInv /\ WishInv /\ [Next]_vars => WishInv'
  BY CallStep, WishStep DEF WishInv
<1> QED BY <1>1, <1>2, TypeInvariant, PTL DEF Spec

\* Nothing asked for is left when all is settled.
LEMMA SettledFacts == Settled => Due = {} /\ \A what : ~Has(lib.asked, what)
BY Tuples DEF Settled, Due, Has

\* A player that pause() left is silent whenever nothing is under way, also when pause()
\* came while libvlc was opening the file, and the device is started after it
\* (SdlPlayer::pause, libvlc_audio_setup_cb, libvlc_audio_play_cb).
THEOREM PausedPlayerIsSilent == Spec => []PausedIsSilent
<1>1. WishInv => PausedIsSilent
  <2> SUFFICES ASSUME WishInv, Settled, wish = "pause", lib.state # "idle", device = "playing"
               PROVE  data = <<>>
    BY DEF PausedIsSilent
  <2>1. Due = {} /\ \A what : ~Has(lib.asked, what)
    BY SettledFacts
  <2> QED BY <2>1 DEF WishInv, PauseInv
<1> QED BY <1>1, WishInvariant, PTL

\* After play() libvlc plays when nothing is under way, and what it decodes is not dropped
\* and is heard, however that call crossed earlier ones of pause() that libvlc had still
\* to carry out (SdlPlayer::play, libvlc_audio_resume_cb).
THEOREM PlayingPlayerIsHeard == Spec => []PlayingIsHeard
<1>1. WishInv => PlayingIsHeard
  <2> SUFFICES ASSUME WishInv, Settled, wish = "play", lib.state \in {"playing", "paused"}
               PROVE  /\ lib.state = "playing"
                      /\ lib.output = "ready" => ~progressTag /\ device = "playing"
    BY DEF PlayingIsHeard
  <2>1. Due = {} /\ \A what : ~Has(lib.asked, what)
    BY SettledFacts
  <2> QED BY <2>1 DEF WishInv, PlayInv
<1> QED BY <1>1, WishInvariant, PTL
=============================================================================
