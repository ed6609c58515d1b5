----------------------------- MODULE CdaMonitor -----------------------------
(***************************************************************************)
(* The CD drive: CdaThread (player/vlc/cda.cpp), which watches it, and what  *)
(* the GUI thread does with its answers (presenter.cpp).                     *)
(*                                                                         *)
(* The thread fills m_mediaList, which the GUI thread reads without a lock,   *)
(* and posts a status; the status is handled when the GUI thread comes to it. *)
(* m_cdaStat has two values here, as setCdaState() makes CDROM_INVALID of all *)
(* others.  The three questions to UDisks of one round are one look at the    *)
(* drive: the disc is looked at again when its tracks are read.              *)
(*                                                                         *)
(* A disc is the set of its tracks that have a duration.  One without any, or *)
(* one that cannot be read, is the empty set; a data disc and an empty drive   *)
(* are NoDisc.  The order of the tracks is left out.                         *)
(***************************************************************************)
EXTENDS Naturals, Sequences

CONSTANTS
    Discs,       \* the discs, sets of tracks
    NoDisc,      \* no disc in the drive
    Songs,       \* tracks of the library
    MaxChanges   \* bound on the discs inserted and ejected

ASSUME DiscsAssumption == NoDisc \notin Discs /\ Songs \intersect UNION Discs = {}
ASSUME BoundAssumption == MaxChanges \in Nat

VARIABLES
    drive,      \* the disc in the drive
    changes,    \* how often it has changed
    cdaStat,    \* m_cdaStat
    mediaList,  \* m_mediaList
    nodes,      \* the nodes of p_items that have still to be looked at
    at,         \* where the thread is
    needRun,    \* m_needRun
    pending,    \* sigSendCdaStatus: posted and not yet handled
    entries,    \* how many entries "cdarole" the sidebar has
    queue       \* PlayerEngine's m_metaList

thread == <<cdaStat, mediaList, nodes, at>>
user == <<entries, queue>>
vars == <<drive, changes, thread, needRun, pending, user>>

Statuses == {"INVALID", "WITH_CD"}
CdTracks == UNION Discs
Loaded == Discs \ {{}}

TypeOK ==
    /\ drive \in Discs \cup {NoDisc} /\ changes \in Nat
    /\ cdaStat \in Statuses
    /\ mediaList \subseteq CdTracks /\ nodes \subseteq CdTracks
    /\ at \in {"poll", "read", "fill", "clear", "ended"}
    /\ needRun \in BOOLEAN
    /\ pending \in Seq(Statuses)
    /\ entries \in Nat
    /\ queue \subseteq Songs \cup CdTracks

Init ==
    /\ drive \in Discs \cup {NoDisc} /\ changes = 0
    /\ cdaStat = "INVALID" /\ mediaList = {} /\ nodes = {} /\ at = "poll"
    /\ needRun = TRUE
    /\ pending = <<>>
    /\ entries = 0 /\ queue = {}

-----------------------------------------------------------------------------
(* The drive. *)

\* A disc is put in or taken out, or another takes its place.
ChangeDisc(disc) ==
    /\ disc # drive /\ changes < MaxChanges
    /\ drive' = disc /\ changes' = changes + 1
    /\ UNCHANGED <<thread, needRun, pending, user>>

-----------------------------------------------------------------------------
(* CdaThread. *)

\* Mutant: the state is kept as it was found.
SetCdaState_AsFound(stat) ==
    /\ cdaStat' = IF stat = "INVALID" THEN "WITHOUT_CD" ELSE stat
    /\ pending' = Append(pending, stat)

\* setCdaState(), until the signal is sent
SetCdaState(stat) ==
    /\ cdaStat' = stat
    /\ pending' = Append(pending, stat)

\* Mutant: the disc is read again in every round, and told again: setCdaState() does not
\* look whether the state has changed.
Poll_AnyState ==
    /\ at = "poll" /\ needRun
    /\ IF drive = NoDisc
       THEN /\ cdaStat # "INVALID" /\ SetCdaState("INVALID")
            /\ at' = "clear"
       ELSE /\ at' = "read"
            /\ UNCHANGED <<cdaStat, pending>>
    /\ UNCHANGED <<drive, changes, mediaList, nodes, needRun, user>>

\* Mutant: what has been ejected is only told, not remembered.
Poll_KeepsState ==
    /\ at = "poll" /\ needRun
    /\ IF drive = NoDisc
       THEN /\ cdaStat # "INVALID" /\ pending' = Append(pending, "INVALID")
            /\ at' = "clear" /\ mediaList # {}
       ELSE /\ cdaStat # "WITH_CD" /\ at' = "read"
            /\ UNCHANGED pending
    /\ UNCHANGED <<drive, changes, cdaStat, mediaList, nodes, needRun, user>>

\* A round of run() that changes something; in all others it sleeps.
Poll ==
    /\ at = "poll" /\ needRun
    /\ IF drive = NoDisc
       THEN /\ cdaStat # "INVALID" /\ SetCdaState("INVALID")
            /\ at' = "clear"
       ELSE /\ cdaStat # "WITH_CD" /\ at' = "read"
            /\ UNCHANGED <<cdaStat, pending>>
    /\ UNCHANGED <<drive, changes, mediaList, nodes, needRun, user>>

\* The rest of setCdaState(), after the signal
ClearMediaList ==
    /\ at = "clear"
    /\ mediaList' = {} /\ at' = "poll"
    /\ UNCHANGED <<drive, changes, cdaStat, nodes, needRun, pending, user>>

\* getInputNode(): the disc may have been ejected, or be another one.  The list is
\* cleared to be filled.
GetInputNode ==
    /\ at = "read"
    /\ IF drive = NoDisc
       THEN at' = "poll" /\ UNCHANGED <<mediaList, nodes>>
       ELSE at' = "fill" /\ mediaList' = {} /\ nodes' = drive
    /\ UNCHANGED <<drive, changes, cdaStat, needRun, pending, user>>

\* Mutant: the first track announces the disc.
AddTrack_Announces ==
    /\ at = "fill"
    /\ \E track \in nodes :
          /\ mediaList' = mediaList \cup {track}
          /\ nodes' = nodes \ {track}
    /\ IF cdaStat = "WITH_CD" THEN UNCHANGED <<cdaStat, pending>> ELSE SetCdaState("WITH_CD")
    /\ UNCHANGED <<drive, changes, at, needRun, user>>

AddTrack ==
    /\ at = "fill"
    /\ \E track \in nodes :
          /\ mediaList' = mediaList \cup {track}
          /\ nodes' = nodes \ {track}
    /\ UNCHANGED <<drive, changes, cdaStat, at, needRun, pending, user>>

\* All nodes have been looked at.
Announce ==
    /\ at = "fill" /\ nodes = {}
    /\ at' = "poll"
    /\ IF mediaList # {} THEN SetCdaState("WITH_CD") ELSE UNCHANGED <<cdaStat, pending>>
    /\ UNCHANGED <<drive, changes, mediaList, nodes, needRun, user>>

\* Mutant: the thread waits for the disc to be taken out.
EndRun_WithoutCd ==
    /\ at = "poll" /\ ~needRun /\ cdaStat = "INVALID"
    /\ at' = "ended"
    /\ UNCHANGED <<drive, changes, cdaStat, mediaList, nodes, needRun, pending, user>>

EndRun ==
    /\ at = "poll" /\ ~needRun
    /\ at' = "ended"
    /\ UNCHANGED <<drive, changes, cdaStat, mediaList, nodes, needRun, pending, user>>

ThreadStep == Poll \/ ClearMediaList \/ GetInputNode \/ AddTrack \/ Announce \/ EndRun

-----------------------------------------------------------------------------
(* The GUI thread, until it waits for the other one to end. *)

\* Mutant: the tracks to remove are asked for.
SendCdaStatus_Listed ==
    /\ needRun /\ pending # <<>>
    /\ pending' = Tail(pending)
    /\ IF Head(pending) = "INVALID"
       THEN /\ queue' = queue \ mediaList
            /\ entries' = IF entries > 0 THEN entries - 1 ELSE 0
       ELSE entries' = entries + 1 /\ UNCHANGED queue
    /\ UNCHANGED <<drive, changes, thread, needRun>>

\* Presenter's answer to sendCdaStatus: when the disc is gone, all of filetype "cdda"
\* leaves the queue, and one entry the sidebar.
SendCdaStatus ==
    /\ needRun /\ pending # <<>>
    /\ pending' = Tail(pending)
    /\ IF Head(pending) = "INVALID"
       THEN /\ queue' = queue \ CdTracks
            /\ entries' = IF entries > 0 THEN entries - 1 ELSE 0
       ELSE entries' = entries + 1 /\ UNCHANGED queue
    /\ UNCHANGED <<drive, changes, thread, needRun>>

\* Mutant: from anywhere.
PlayCd_Unlisted ==
    /\ needRun /\ mediaList # {}
    /\ queue' = mediaList
    /\ UNCHANGED <<drive, changes, thread, needRun, pending, entries>>

\* playPlaylist("cdarole"), from its entry; an empty list returns early.
PlayCd ==
    /\ needRun /\ entries > 0 /\ mediaList # {}
    /\ queue' = mediaList
    /\ UNCHANGED <<drive, changes, thread, needRun, pending, entries>>

\* playPlaylist() of another list, and addMetasToPlayList() to "play"
PlayOther(songs) ==
    /\ needRun /\ songs # {}
    /\ \/ queue' = songs
       \/ queue' = queue \cup songs
    /\ UNCHANGED <<drive, changes, thread, needRun, pending, entries>>

\* releasePlayer() waits for the thread to end.
CloseThread ==
    /\ needRun /\ needRun' = FALSE
    /\ UNCHANGED <<drive, changes, thread, pending, user>>

GuiStep ==
    SendCdaStatus \/ PlayCd \/ CloseThread \/ (\E songs \in SUBSET Songs : PlayOther(songs))

-----------------------------------------------------------------------------

Next == GuiStep \/ ThreadStep \/ \E disc \in Discs \cup {NoDisc} : ChangeDisc(disc)

Spec == Init /\ [][Next]_vars

\* The thread runs, and the GUI thread comes to its events.
FairSpec == Spec /\ WF_vars(ThreadStep) /\ WF_vars(SendCdaStatus)

-----------------------------------------------------------------------------

\* The sidebar has at most one entry for the drive, however late the GUI thread is, and
\* once it has handled all it was told, one exactly when the thread has a disc.
OneEntry ==
    /\ entries <= 1
    /\ pending = <<>> => (entries = 1 <=> cdaStat = "WITH_CD")

\* While the entry is there and nothing else is pending, m_mediaList is all of one disc and
\* at rest: neither half filled nor cleared already, although the thread neither locks it
\* nor waits.
EntryPlaysWholeDisc == entries = 1 /\ pending = <<>> => mediaList \in Loaded /\ at # "clear"

\* Tracks of a disc are in the queue only while the entry that can take them out is there.
CdTracksAreListed == queue \intersect CdTracks # {} => entries = 1

Gone == entries = 0 /\ queue \intersect CdTracks = {}

\* A disc that stays is offered in the end, ...
DiscIsOffered ==
    <>[](drive \in Loaded /\ needRun) => <>[](entries = 1)

\* ... and one that is taken out leaves the sidebar and the queue, and does not come back.
EjectedDiscLeaves ==
    <>[](drive = NoDisc /\ needRun) => <>[]Gone

\* releasePlayer() returns.
ThreadEnds == ~needRun ~> at = "ended"
=============================================================================
