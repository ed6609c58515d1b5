------------------------------ MODULE Playlists ------------------------------
(***************************************************************************)
(* The playlists of the DataManager (core/datamanager.cpp), their orders,   *)
(* and the queue of the player engine, which the Presenter (presenter.cpp)  *)
(* keeps in step with the playlist "play".                                  *)
(*                                                                         *)
(* A playlist has two sequences of hashes: sortMetas, which says what is in *)
(* it, and sortCustomMetas, which is what it shows as long as it is in the   *)
(* user's own order.  Every operation updates the two in its own way.       *)
(*                                                                         *)
(* Everything here happens on the GUI thread, except that the tracks of an  *)
(* import arrive later; how the import thread finds them is in MetaImport,   *)
(* and how transactions fail is in Library.                                 *)
(***************************************************************************)
EXTENDS SequencesExt

CONSTANTS
    Tracks,      \* the music files
    NoTrack,     \* the empty hash
    Ascending,   \* the tracks in the order of what one sorts by
    FixedLists,  \* the playlists that are always there
    UserLists,   \* the playlists the user may make
    Stored,      \* the tracks the library has at first
    MaxImports   \* bound on the imports of a behaviour

ASSUME TracksAssumption ==
    IsFiniteSet(Tracks) /\ NoTrack \notin Tracks /\ Ascending \in SetToSeqs(Tracks)
ASSUME ListsAssumption ==
    /\ {"all", "play"} \subseteq FixedLists
    /\ FixedLists \cap UserLists = {} /\ {"", "album"} \cap (FixedLists \cup UserLists) = {}
ASSUME BoundsAssumption == Stored \subseteq Tracks /\ MaxImports \in Nat

VARIABLES
    known,     \* the tracks in m_allMetas
    lists,     \* m_allPlaylist
    current,   \* m_currentHash, the playlist that is being played
    queue,     \* m_metaList of the engine
    arriving,  \* signalAddOneMeta events of imports
    imports    \* the files imports have been asked for

vars == <<known, lists, current, queue, arriving, imports>>

AllLists == FixedLists \cup UserLists

\* m_sortType: the user's own order, or that of a criterion, either way round.
Orders == {"custom", "asc", "des"}
Hashes == Tracks \cup {NoTrack}
Playlist == [sort : Seq(Hashes), custom : Seq(Hashes), order : Orders]
Event == [lists : SUBSET AllLists, track : Tracks]

TypeOK ==
    /\ known \subseteq Tracks
    /\ FixedLists \subseteq DOMAIN lists /\ DOMAIN lists \subseteq AllLists
    /\ \A l \in DOMAIN lists : lists[l] \in Playlist
    /\ current \in DOMAIN lists \cup {"", "album"}
    /\ queue \in Seq(Hashes)
    /\ arriving \in Seq(Event)
    /\ imports \in 0 .. MaxImports

-----------------------------------------------------------------------------
(* What a playlist shows. *)

\* The positions of I from the first to the last.
Ordered(I) ==
    CHOOSE f \in [1 .. Cardinality(I) -> I] : \A a, b \in DOMAIN f : a < b => f[a] < f[b]

\* The entries at those positions.
At(hashes, I) == LET f == Ordered(I) IN [k \in DOMAIN f |-> hashes[f[k]]]

\* The entries that are in T.
Of(hashes, T) == At(hashes, {i \in DOMAIN hashes : hashes[i] \in T})

\* The sequence getPlaylistMetas() and isPlaylistQueueMatched() go through.
Names(list) ==
    IF list.order = "custom" /\ list.custom # <<>> THEN list.custom ELSE list.sort

KnownOf(hashes) == Of(hashes, known)

\* getPlaylistMetas()
PlaylistMetas(l) ==
    IF l = "all" /\ lists[l].sort = <<>> THEN SetToSeq(known) ELSE KnownOf(Names(lists[l]))

\* The hashes with what is already there left out, as in appending each if it is absent.
Once(hashes) ==
    At(hashes, {i \in DOMAIN hashes : \A j \in 1 .. i - 1 : hashes[j] # hashes[i]})

NoRepeats(hashes) == \A i, j \in DOMAIN hashes : hashes[i] = hashes[j] => i = j

\* Mutant: a longer queue that begins with the playlist counts as the same.
IsPlaylistQueueMatched_Prefix(l) ==
    /\ ToSet(Names(lists[l])) \subseteq known
    /\ IsPrefix(Names(lists[l]), queue)

\* isPlaylistQueueMatched()
IsPlaylistQueueMatched(l) ==
    /\ ToSet(Names(lists[l])) \subseteq known
    /\ queue = Names(lists[l])

-----------------------------------------------------------------------------
(* The library is there when the program starts, or it is empty. *)

NewPlaylist == [sort |-> <<>>, custom |-> <<>>, order |-> "custom"]

Library(S) ==
    [l \in FixedLists |->
        IF l = "all" THEN [sort |-> Of(Ascending, S),
                           custom |-> <<>>, order |-> "asc"]
        ELSE NewPlaylist]

Init ==
    /\ known = Stored
    /\ lists = Library(known)
    /\ current = "all"
    /\ queue = <<>>
    /\ arriving = <<>>
    /\ imports = 0

-----------------------------------------------------------------------------
(* Adding and removing. *)

\* addMetasToPlayList(): a track added to the playlist being played goes to "play"
\* too.  The custom order becomes a copy of the other, whether anything was added or
\* not; that of "play" is left as it was.  Presenter then adds it to the queue.
AddMetasToPlayList(t, l) ==
    /\ t \in known /\ l \in DOMAIN lists \ {"all"}
    /\ LET isNew == ~Contains(lists[l].sort, t)
           sort == IF isNew THEN Append(lists[l].sort, t) ELSE lists[l].sort
           toPlay == /\ isNew /\ current = l /\ l # "play"
                     /\ ~Contains(lists["play"].sort, t)
       IN  /\ lists' = [x \in DOMAIN lists |->
                  CASE x = l -> [lists[l] EXCEPT !.sort = sort, !.custom = sort]
                    [] x = "play" /\ toPlay -> [lists[x] EXCEPT !.sort = Append(@, t)]
                    [] OTHER -> lists[x]]
           /\ queue' = IF toPlay \/ (isNew /\ l = "play") THEN Append(queue, t) ELSE queue
    /\ UNCHANGED <<known, current, arriving, imports>>

\* Presenter::clearPlayList("play")
ClearPlay ==
    /\ queue' = <<>>
    /\ lists' = [lists EXCEPT !["play"].sort = <<>>, !["play"].custom = <<>>]
    /\ UNCHANGED <<known, current, arriving, imports>>

\* removeMetasFromPlayList() of the engine: the last entry of the track.
WithoutLast(hashes, t) ==
    LET i == SelectLastInSeq(hashes, LAMBDA h : h = t)
    IN  IF i = 0 THEN hashes ELSE RemoveAt(hashes, i)

\* The end of Presenter::removeFromPlayList(): a playlist that has become empty is
\* not the current one any more.
CurrentWithout(l, empty) == IF current = l /\ empty THEN "" ELSE current

\* removeFromPlayList() from one playlist
RemoveFromOne(t, l) ==
    /\ t \in known /\ l \in DOMAIN lists \ {"all"}
    /\ LET there == Contains(lists[l].sort, t)
           first == IF l = "play" THEN WithoutLast(queue, t) ELSE queue
       IN  /\ lists' = IF ~there THEN lists
                       ELSE [lists EXCEPT ![l].sort = RemoveFirst(@, t),
                                          ![l].custom = RemoveFirst(@, t)]
           /\ queue' = IF there /\ l = "play" THEN RemoveFirst(first, t) ELSE first
           /\ current' = CurrentWithout(l, lists'[l].sort = <<>>)
    /\ UNCHANGED <<known, arriving, imports>>

\* Mutant: the custom order is forgotten.
WithoutTrack_SortOnly(list, t) ==
    LET i == SelectInSeq(list.sort, LAMBDA h : h = t)
    IN  IF i = 0 THEN list ELSE [list EXCEPT !.sort = RemoveAt(@, i)]

\* The same in every playlist: what has the track's place in sortMetas is taken out of
\* sortCustomMetas, whatever it is.
WithoutTrack(list, t) ==
    LET i == SelectInSeq(list.sort, LAMBDA h : h = t)
    IN  IF i = 0 THEN list
        ELSE [list EXCEPT !.sort = RemoveAt(@, i),
                          !.custom = IF i <= Len(@) THEN RemoveAt(@, i) ELSE @]

\* removeFromPlayList() from "all", or from an album, or of the file: the track leaves
\* the library.  direct: Presenter has the engine remove it itself, too.
RemoveFromAll(t, from, direct) ==
    /\ t \in known
    /\ from = "album" \/ (from \in DOMAIN lists /\ direct)
    /\ known' = known \ {t}
    /\ lists' = [l \in DOMAIN lists |-> WithoutTrack(lists[l], t)]
    /\ LET first == IF direct THEN WithoutLast(queue, t) ELSE queue
       IN  queue' = IF Contains(lists["play"].sort, t) THEN RemoveFirst(first, t)
                    ELSE first
    /\ current' = CurrentWithout(from, from = "album" \/ lists'[from].sort = <<>>)
    /\ UNCHANGED <<arriving, imports>>

-----------------------------------------------------------------------------
(* Orders. *)

\* sortPlaylist() by a criterion; a second time turns it round.
SortPlaylist(l) ==
    /\ l \in DOMAIN lists \ {"play"}
    /\ LET order == IF lists[l].order = "asc" THEN "des" ELSE "asc"
           sorted == Of(IF order = "asc" THEN Ascending ELSE Reverse(Ascending),
                        ToSet(lists[l].sort))
           unknown == [i \in 1 .. Len(lists[l].sort) - Len(sorted) |-> NoTrack]
       IN  lists' = [lists EXCEPT ![l].order = order,
               ![l].sort = IF order = "asc" THEN unknown \o sorted ELSE sorted \o unknown]
    /\ UNCHANGED <<known, current, queue, arriving, imports>>

\* sortPlaylist() to the user's own order
CustomSort(l) ==
    /\ l \in DOMAIN lists \ {"all", "play"} /\ lists[l].order # "custom"
    /\ lists' = [lists EXCEPT ![l].order = "custom"]
    /\ UNCHANGED <<known, current, queue, arriving, imports>>

\* Mutant: what is moved is not taken out of its old place.
Moved_Copied(hashes, S, next) ==
    LET moved == Of(hashes, S)
        at == SelectLastInSeq(hashes, LAMBDA h : next # NoTrack /\ h = next)
    IN  IF at = 0 \/ at = Len(hashes) THEN hashes \o moved
        ELSE SubSeq(hashes, 1, at - 1) \o moved \o SubSeq(hashes, at, Len(hashes))

\* The hashes with those of S moved before next; to the end, if next is empty, which is
\* not looked for, if it is not there, or if it is the last that remains.
Moved(hashes, S, next) ==
    LET moved == Of(hashes, S)
        rest == Of(hashes, ToSet(hashes) \ S)
        at == SelectLastInSeq(rest, LAMBDA h : next # NoTrack /\ h = next)
    IN  IF at = 0 \/ at = Len(rest) THEN rest \o moved
        ELSE SubSeq(rest, 1, at - 1) \o moved \o SubSeq(rest, at, Len(rest))

\* moveMetasPlayList(): of "play", the queue is loaded anew.  Both orders become the same.
MoveMetasPlayList(S, l, next) ==
    /\ l \in DOMAIN lists \ {"all"} /\ lists[l].order = "custom"
    /\ S \cap ToSet(lists[l].sort) # {}
    /\ LET sort == Moved(lists[l].sort, S, next)
       IN  /\ lists' = [lists EXCEPT ![l].sort = sort, ![l].custom = sort]
           /\ queue' = IF l = "play" THEN KnownOf(sort) ELSE queue
    /\ UNCHANGED <<known, current, arriving, imports>>

-----------------------------------------------------------------------------
(* Playing. *)

\* Mutant: "play" is not cleared before.
Load_Appends(metas) ==
    /\ metas # <<>>
    /\ queue' = metas
    /\ LET sort == Once(lists["play"].sort \o metas)
       IN  lists' = [lists EXCEPT !["play"].sort = sort, !["play"].custom = sort]

\* The queue becomes metas, and so does "play".
Load(metas) ==
    /\ metas # <<>>
    /\ queue' = metas
    /\ lists' = [lists EXCEPT !["play"].sort = Once(metas), !["play"].custom = Once(metas)]

\* Presenter::playPlaylist(): a queue that is what the playlist shows already is left
\* alone, unless the track being played is not in it.
PlayPlaylist(l) ==
    /\ l \in DOMAIN lists
    /\ \/ queue # <<>> /\ IsPlaylistQueueMatched(l) /\ UNCHANGED <<queue, lists>>
       \/ Load(PlaylistMetas(l))
    /\ current' = l
    /\ UNCHANGED <<known, arriving, imports>>

\* Presenter::playAlbum() and playArtist(), in whichever order the tracks come
PlayAlbum(metas) ==
    /\ ToSet(metas) \subseteq known
    /\ Load(metas)
    /\ current' = "album"
    /\ UNCHANGED <<known, arriving, imports>>

-----------------------------------------------------------------------------
(* Imports. *)

\* importMetas() and what the import thread posts for the file, from what the data
\* manager knew of it then: a new file goes to "all", to the target, and to "play" when
\* the target is being played; a known one that is not in the target, to that alone.
ImportMetas(t, target) ==
    /\ imports < MaxImports
    /\ target \in DOMAIN lists \cup {""}
    /\ LET isNew == t \notin known
           played == IF target = "" THEN "all" ELSE target
           toPlay == {l \in {"play"} : current = played /\ played # "play"}
       IN  \/ /\ isNew
              /\ \A i \in DOMAIN arriving : arriving[i].track # t
              /\ arriving' = Append(arriving,
                    [track |-> t, lists |-> {"all"} \cup ({target} \ {""}) \cup toPlay])
           \/ /\ ~isNew /\ target # "" /\ ~Contains(lists[target].sort, t)
              /\ arriving' = Append(arriving, [track |-> t, lists |-> {target}])
    /\ imports' = imports + 1
    /\ UNCHANGED <<known, lists, current, queue>>

\* slotAddOneMeta(), and Presenter, which adds the track to the queue if "play" was
\* named, whether it was there or not.
SlotAddOneMeta ==
    /\ arriving # <<>>
    /\ arriving' = Tail(arriving)
    /\ LET e == Head(arriving)
           isNew == "all" \in e.lists /\ e.track \notin known
           hash == IF isNew \/ e.track \in known THEN e.track ELSE NoTrack
       IN  /\ known' = IF isNew THEN known \cup {e.track} ELSE known
           /\ lists' = [l \in DOMAIN lists |->
                  IF l \in e.lists /\ ~Contains(lists[l].sort, hash)
                  THEN [lists[l] EXCEPT !.sort = Append(@, hash),
                                        !.custom = Append(@, hash)]
                  ELSE lists[l]]
           /\ queue' = IF "play" \in e.lists THEN Append(queue, hash) ELSE queue
    /\ UNCHANGED <<current, imports>>

-----------------------------------------------------------------------------
(* The playlists themselves, and the database. *)

\* Presenter::addPlayList(); the new playlist has a name nothing refers to.
AddPlayList(l) ==
    /\ l \in UserLists \ DOMAIN lists
    /\ \A i \in DOMAIN arriving : l \notin arriving[i].lists
    /\ lists' = [x \in DOMAIN lists \cup {l} |-> IF x = l THEN NewPlaylist ELSE lists[x]]
    /\ UNCHANGED <<known, current, queue, arriving, imports>>

\* Mutant: the playlist stays the current one.
DeletePlaylist_KeepsCurrent(l) ==
    /\ l \in UserLists \cap DOMAIN lists
    /\ lists' = [x \in DOMAIN lists \ {l} |-> lists[x]]
    /\ UNCHANGED <<known, current, queue, arriving, imports>>

\* Presenter::deletePlaylist()
DeletePlaylist(l) ==
    /\ l \in UserLists \cap DOMAIN lists
    /\ lists' = [x \in DOMAIN lists \ {l} |-> lists[x]]
    /\ current' = IF current = l THEN "" ELSE current
    /\ UNCHANGED <<known, queue, arriving, imports>>

\* A playlist after saveDataToDB() has written what it shows, every track once, and
\* loadPlaylistMetasDB() has read it: a custom order is there in that order only.
Reloaded(l) ==
    LET sort == Once(PlaylistMetas(l))
    IN  [sort |-> sort, order |-> lists[l].order,
         custom |-> IF lists[l].order = "custom" THEN sort ELSE <<>>]

\* The process saves, ends and starts anew.  A crash takes it back to where it was when
\* it last saved, as if it had ended then, but for the current playlist: that is in
\* the settings, which are written at once.
Restart ==
    /\ lists' = [l \in DOMAIN lists |-> Reloaded(l)]
    /\ queue' = lists'["play"].sort
    /\ current' \in DOMAIN lists \cup {"album"}
    /\ arriving' = <<>>
    /\ UNCHANGED <<known, imports>>

-----------------------------------------------------------------------------

Selections == (SUBSET Tracks) \ {{}}

Next ==
    \/ \E t \in Tracks : \E l \in AllLists : AddMetasToPlayList(t, l) \/ RemoveFromOne(t, l)
    \/ \E t \in Tracks : \E from \in AllLists \cup {"album"} : \E direct \in BOOLEAN :
          RemoveFromAll(t, from, direct)
    \/ \E l \in AllLists : SortPlaylist(l) \/ CustomSort(l) \/ PlayPlaylist(l)
    \/ \E S \in Selections : \E l \in AllLists : \E next \in Hashes :
          MoveMetasPlayList(S, l, next)
    \/ \E S \in Selections : \E metas \in SetToSeqs(S) : PlayAlbum(metas)
    \/ \E t \in Tracks : \E target \in AllLists \cup {""} : ImportMetas(t, target)
    \/ \E l \in UserLists : AddPlayList(l) \/ DeletePlaylist(l)
    \/ ClearPlay \/ SlotAddOneMeta \/ Restart

Spec == Init /\ [][Next]_vars

-----------------------------------------------------------------------------
(* Safety. *)

\* The queue holds what "play" lists, in the same order.
QueueFollowsPlay == Of(queue, Tracks) = Of(lists["play"].sort, Tracks)

\* No operation brings the queue and "play" apart, other than one that puts a track
\* into the queue a second time (a late import does, see slotAddOneMeta).
OnlyRepeatsDivide == [][ QueueFollowsPlay /\ NoRepeats(queue') => QueueFollowsPlay' ]_vars

\* Playing a playlist leaves what it shows in the queue, and nothing else, also when
\* playPlaylist() takes the short way of leaving the queue as it is.
PlaysWhatIsShown ==
    [][ \A l \in DOMAIN lists : PlayPlaylist(l) => queue' = PlaylistMetas(l) ]_vars

\* As long as a playlist other than "play" is in the user's own order, it shows what it
\* lists if it did so before: neither an import nor a deletion hides a track.
CustomOrderShows ==
    [][ \A l \in (DOMAIN lists \cap DOMAIN lists') \ {"play"} :
          /\ lists[l].order = "custom" /\ lists[l].custom = lists[l].sort
          /\ lists'[l].order = "custom"
          => lists'[l].custom = lists'[l].sort ]_vars

\* A move within a list of all tracks and a hash of none, in any order, loses nothing and
\* doubles nothing, leaves the others in their order, and puts what was moved where it
\* was dropped: behind all others, if that is the end, also when the list has an empty
\* hash; right before the track it was dropped on, unless only that one is left after it.
MoveKeepsOthers ==
    LET entries == known \cup {NoTrack}
    IN  \A hashes \in SetToSeqs(entries) : \A S \in Selections : \A next \in Hashes :
        LET rest == Of(hashes, entries \ S)
            after == Moved(hashes, S, next)
        IN  /\ Of(after, S) = Of(hashes, S) /\ Of(after, entries \ S) = rest
            /\ next = NoTrack => after = rest \o Of(hashes, S)
            /\ \A i \in DOMAIN after :
                  after[i] = next /\ next \notin S \cup {NoTrack, Last(rest)}
                  => LET n == Len(Of(hashes, S))
                     IN  i > n /\ SubSeq(after, i - n, i - 1) = Of(hashes, S)

\* A playlist shows the tracks it lists.
ShowsWhatItLists ==
    \A l \in DOMAIN lists : ToSet(PlaylistMetas(l)) = known \cap ToSet(lists[l].sort)
=============================================================================
