---------------------------- MODULE VideoPlayback ----------------------------
(***************************************************************************)
(* One video of a course page from the moment its player is constructed:   *)
(* the controller 03_video_player.js with the progress slider, the         *)
(* play/pause button, the plugins that log events and save the position,   *)
(* and the storage that outlives the player when the learner moves to      *)
(* another unit of the sequence and comes back.                            *)
(*                                                                         *)
(* JavaScript runs to completion, so each handler is one step, written as  *)
(* an operator from a page to a page.  What races with the handlers:       *)
(*   - the <video> element or the YouTube iframe plays, stalls and ends on *)
(*     its own, and what it did is reported later, in order (page.due);    *)
(*   - the 200 ms interval that calls update();                            *)
(*   - the seek of the slider, debounced by 300 ms, and the timer that     *)
(*     thaws the slider 200 ms after the learner lets it go;               *)
(*   - the metadata of a YouTube video, which may come late or never.      *)
(* Times are whole seconds.  Flash mode, speeds, volume and captions are   *)
(* left out.                                                               *)
(***************************************************************************)
EXTENDS Integers, Sequences

CONSTANTS
  Duration,       \* of the video
  Configs,        \* what the server rendered: see Config
  MaxDue,         \* bound on unreported events of the element
  MaxActs         \* bound on what the learner does

NoTime == -1      \* null, or no handler bound
Time == 0 .. Duration

\* The data of the element, read by _getConfiguration: kind stands for the
\* videoType that the loading of the page (VideoStart) has settled.
Config ==
  [kind : {"html5", "youtube"}, start : Nat, end : Nat, saved : Nat, known : BOOLEAN]

ASSUME ConstantsAssumption ==
  /\ Duration \in Nat \ {0}
  /\ Configs \subseteq Config
  /\ {MaxDue, MaxActs} \subseteq Nat

VARIABLES
  config,         \* the configuration of this video
  page,           \* the player and its modules
  storage,        \* window.VideoState: savedVideoPosition of this video
  acts

vars == <<config, page, storage, acts>>

PlayerState == {"UNSTARTED", "PLAYING", "PAUSED", "BUFFERING", "ENDED", "CUED"}

IsYoutube == config.kind = "youtube"

\* The two checks of endTime while the configuration is read.
EndTimeOf(c) == IF c.end = 0 \/ c.end < c.start THEN NoTime ELSE c.end

\* Mutated: the position that was rendered comes first.
RenderedPosition(c, stored) == IF c.saved # 0 THEN c.saved ELSE stored

\* The conversion of savedVideoPosition.
SavedVideoPosition(c, stored) == IF stored # 0 THEN stored ELSE c.saved

\* A new player, its modules initialised, that has not reported onReady.
NewPage(c, stored) ==
  [phase |-> "loading",
   native |-> IF c.kind = "youtube" THEN "unstarted" ELSE "paused",
   pos |-> 0, due |-> <<>>,
   playerState |-> "UNSTARTED", currentTime |-> 0, timer |-> FALSE,
   startTime |-> 0, endTime |-> NoTime, known |-> c.known,
   metadata |-> c.known, saved |-> SavedVideoPosition(c, stored),
   rewind |-> NoTime,
   thumb |-> 0, dragging |-> FALSE, frozen |-> FALSE, thaws |-> 0,
   lastSeekValue |-> NoTime, ask |-> NoTime, wanted |-> NoTime,
   button |-> "play", emitPlayVideoEvent |-> TRUE]

Init ==
  /\ config \in Configs
  /\ page = NewPage(config, 0)
  /\ storage = 0
  /\ acts = 0

-----------------------------------------------------------------------------
(***************************************************************************)
(* The element: <video> wrapped by HTML5Video.Player, or YT.Player.        *)
(***************************************************************************)
Reports(p, state) == [p EXCEPT !.due = Append(@, state)]

NativePlay(p) ==
  IF p.native \in {"playing", "buffering"} THEN p
  ELSE Reports([p EXCEPT !.native = "buffering",
                         !.pos = IF p.native = "ended" THEN 0 ELSE @], "BUFFERING")

NativePause(p) ==
  IF p.native \in {"playing", "buffering"}
  THEN Reports([p EXCEPT !.native = "paused"], "PAUSED")
  ELSE p

\* wanted, of no effect on the rest, is the position the learner asked for last
\* and has not got: only bringing the element there takes it away.
Got(p, t) == IF p.ask = NoTime /\ p.wanted = t THEN NoTime ELSE p.wanted

\* A YouTube video that had ended plays on from there; a <video> does not.
NativeSeek(p, t) ==
  LET sought == [p EXCEPT !.pos = t, !.wanted = Got(p, t)]
  IN IF p.native # "ended" THEN sought
     ELSE IF IsYoutube THEN Reports([sought EXCEPT !.native = "buffering"], "BUFFERING")
     ELSE [sought EXCEPT !.native = "paused"]

NativeCue(p, t) ==
  Reports([p EXCEPT !.native = "cued", !.pos = t, !.wanted = Got(p, t)], "CUED")

-----------------------------------------------------------------------------
(***************************************************************************)
(* The controller.                                                         *)
(***************************************************************************)
\* videoPlayer.duration: 0 until the API or the metadata tells.
DurationOf(p) == IF p.known THEN Duration ELSE 0

\* updatePlayTime of the player and of the slider, which keeps its thumb where
\* the learner holds it.
UpdatePlayTime(p, t) == IF p.frozen THEN p ELSE [p EXCEPT !.thumb = t]

\* trigger('stop'): the log says stop_video.
Stopped(p) == [p EXCEPT !.emitPlayVideoEvent = TRUE]

Update(p) ==
  LET q == UpdatePlayTime([p EXCEPT !.currentTime = p.pos], p.pos)
  IN IF q.endTime # NoTime /\ q.endTime <= q.currentTime
     THEN Stopped(NativePause(q))
     ELSE q

RunTimer(p) == IF p.timer THEN p ELSE Update([p EXCEPT !.timer = TRUE])

StopTimer(p) == [p EXCEPT !.timer = FALSE]

IsPlaying(p) == p.playerState = "PLAYING"

\* Outside of what is known of the video the seek is dropped.
SeekTo(p, t) ==
  IF t > DurationOf(p) \/ t < 0 THEN p
  ELSE LET q == [p EXCEPT !.rewind = NoTime, !.timer = @ /\ ~IsPlaying(p)]
           moved ==
             IF IsYoutube /\ p.playerState \in {"UNSTARTED", "CUED"} THEN NativeCue(q, t)
             ELSE IF IsYoutube /\ p.playerState = "BUFFERING" THEN [q EXCEPT !.rewind = t]
             ELSE NativeSeek(q, t)
           shown == UpdatePlayTime(moved, t)
           ticking == IF IsPlaying(p) THEN RunTimer(shown) ELSE shown
       IN [ticking EXCEPT !.currentTime = t]

\* figureOutStartEndTime: the region that the player enforces.
StartTimeOf(c, dur) == IF c.start >= dur THEN 0 ELSE c.start
RegionEnd(c, dur) ==
  LET end == EndTimeOf(c)
  IN IF end <= StartTimeOf(c, dur) \/ end >= dur THEN NoTime ELSE end

\* Mutated: the saved position is taken even where the video would end at once.
StartingTimeUnsafe(c, saved, dur) ==
  IF StartTimeOf(c, dur) < saved THEN saved ELSE StartTimeOf(c, dur)

\* figureOutStartingTime: the saved position if it lies inside the region.
StartingTime(c, saved, dur) ==
  LET start == StartTimeOf(c, dur)
      end == RegionEnd(c, dur)
  IN IF start < saved /\ (end > saved \/ end = NoTime) /\ saved < dur - 1
     THEN saved
     ELSE start

WithRegion(p) ==
  [p EXCEPT !.startTime = StartTimeOf(config, DurationOf(p)),
            !.endTime = RegionEnd(config, DurationOf(p))]

\* onReady, and onLoadedMetadata of HTML5Video.Player before it.
OnReady ==
  /\ page.phase = "loading"
  /\ LET p == WithRegion([page EXCEPT !.phase = "ready",
                                      !.playerState = IF IsYoutube THEN @ ELSE "PAUSED"])
         t == StartingTime(config, p.saved, DurationOf(p))
     IN page' = IF t > 0 THEN SeekTo(p, t) ELSE p
  /\ UNCHANGED <<config, storage, acts>>

\* metadata_received, for which _updateVcrAndRegion waits: it shows where the
\* video should start, and does not seek.
MetadataReceived ==
  /\ page.phase = "ready"
  /\ ~page.metadata
  /\ LET p == WithRegion([page EXCEPT !.known = TRUE, !.metadata = TRUE])
     IN page' = UpdatePlayTime(p, StartingTime(config, p.saved, Duration))
  /\ UNCHANGED <<config, storage, acts>>

-----------------------------------------------------------------------------
(***************************************************************************)
(* What the element does on its own, and how it is reported.               *)
(***************************************************************************)
ElementActs ==
  /\ page.phase = "ready"
  /\ Len(page.due) < MaxDue
  /\ UNCHANGED <<config, storage, acts>>

\* From then on player.getDuration() knows the duration.
StartsPlaying ==
  /\ ElementActs
  /\ page.native = "buffering"
  /\ page' = Reports([page EXCEPT !.native = "playing", !.known = TRUE], "PLAYING")

Advances ==
  /\ ElementActs
  /\ page.native = "playing"
  /\ page.pos < Duration
  /\ page' = [page EXCEPT !.pos = @ + 1]

\* HTML5Video.Player does not listen to the event 'waiting'.
Stalls ==
  /\ ElementActs
  /\ page.native = "playing"
  /\ LET p == [page EXCEPT !.native = "buffering"]
     IN page' = IF IsYoutube THEN Reports(p, "BUFFERING") ELSE p

\* A <video> also reports that it is paused.
ReachesEnd ==
  /\ ElementActs
  /\ page.native = "playing"
  /\ page.pos = Duration
  /\ LET p == [page EXCEPT !.native = "ended"]
     IN page' = IF IsYoutube THEN Reports(p, "ENDED") ELSE Reports(Reports(p, "PAUSED"), "ENDED")

\* trigger('play'): the button, the log, and the handler 'play.seek', which
\* stays bound until the next seekTo.
OnPlay(p) ==
  LET q == [RunTimer(p) EXCEPT !.button = "pause", !.emitPlayVideoEvent = FALSE]
  IN IF q.rewind = NoTime THEN q ELSE NativeSeek(q, q.rewind)

\* trigger('pause').
Paused(p) == [p EXCEPT !.button = "play", !.emitPlayVideoEvent = TRUE]

\* Mutated: the interval goes on; the seek that waits is forgotten.
OnPauseTicking(p) == Paused(p)
OnPauseForgetting(p) == [Paused(StopTimer(p)) EXCEPT !.rewind = NoTime]

OnPause(p) == Paused(StopTimer(p))

\* For YouTube 'pause' is triggered too.
OnEnded(p) == Paused(UpdatePlayTime(p, DurationOf(p)))

\* saveStateHandler runs on 'pause': so on PAUSED, and on ENDED of YouTube.
SavesPosition(state) == state = "PAUSED" \/ (state = "ENDED" /\ IsYoutube)

\* onStateChange.
OnStateChange ==
  /\ page.phase = "ready"
  /\ page.due # <<>>
  /\ LET state == Head(page.due)
         p == [page EXCEPT !.due = Tail(@), !.playerState = state]
     IN /\ page' = CASE state = "PLAYING" -> OnPlay(p)
                     [] state = "PAUSED" -> OnPause(p)
                     [] state = "ENDED" -> OnEnded(p)
                     [] OTHER -> p
        /\ storage' = IF SavesPosition(state) THEN page.currentTime ELSE storage
  /\ UNCHANGED <<config, acts>>

-----------------------------------------------------------------------------
(***************************************************************************)
(* Timers.                                                                 *)
(***************************************************************************)
Tick ==
  /\ page.phase = "ready"
  /\ page.timer
  /\ Len(page.due) < MaxDue
  /\ page' = Update(page)
  /\ UNCHANGED <<config, storage, acts>>

\* The debounced onSeek.
OnSeek ==
  /\ page.phase = "ready"
  /\ page.ask # NoTime
  /\ Len(page.due) < MaxDue
  /\ page' = SeekTo([page EXCEPT !.ask = NoTime], page.ask)
  /\ UNCHANGED <<config, storage, acts>>

\* The timer that onStop started.
Thaw ==
  /\ page.phase = "ready"
  /\ page.thaws > 0
  /\ page' = [page EXCEPT !.thaws = @ - 1, !.frozen = FALSE]
  /\ UNCHANGED <<config, storage, acts>>

-----------------------------------------------------------------------------
(***************************************************************************)
(* The learner.                                                            *)
(***************************************************************************)
LearnerActs ==
  /\ page.phase = "ready"
  /\ Len(page.due) < MaxDue
  /\ acts < MaxActs
  /\ acts' = acts + 1
  /\ UNCHANGED config

\* The button and the command togglePlayback.
TogglePlayback ==
  /\ LearnerActs
  /\ page' = IF IsPlaying(page) THEN NativePause(page) ELSE NativePlay(page)
  /\ UNCHANGED storage

\* A click on a <video> sets playerState before the element reports anything.
ClickVideo ==
  /\ LearnerActs
  /\ ~IsYoutube
  /\ page' = IF IsPlaying(page)
             THEN NativePause([page EXCEPT !.playerState = "PAUSED"])
             ELSE NativePlay([page EXCEPT !.playerState = "PLAYING"])
  /\ UNCHANGED storage

\* Where the slider lets its thumb go.
SliderRange ==
  LET end == EndTimeOf(config)
  IN config.start .. (IF end # NoTime /\ end < Duration THEN end ELSE Duration)

OnSlide(t) ==
  /\ LearnerActs
  /\ t \in SliderRange \ {page.thumb}
  /\ page' = [page EXCEPT !.thumb = t, !.dragging = TRUE, !.frozen = TRUE,
                          !.lastSeekValue = t, !.ask = t, !.wanted = t]
  /\ UNCHANGED storage

\* A click that does not move the thumb gives the event 'stop' alone.
OnStop ==
  /\ page.phase = "ready"
  /\ page.dragging
  /\ page.thaws = 0
  /\ page' = [page EXCEPT !.dragging = FALSE, !.frozen = TRUE, !.thaws = 1,
                          !.ask = IF page.lastSeekValue # page.thumb THEN page.thumb ELSE @,
                          !.wanted = IF page.lastSeekValue # page.thumb THEN page.thumb ELSE @]
  /\ UNCHANGED <<config, storage, acts>>

\* Mutated: the position is saved after the player is deleted.
SavedOnLeaveLate == NoTime

\* saveStateHandler runs on 'destroy', while videoPlayer still exists.
SavedOnLeave == page.currentTime

\* 'sequence:change' destroys the player with its handlers and its timer; the
\* debounced seek finds no videoPlayer.
Destroy ==
  /\ LearnerActs
  /\ storage' = SavedOnLeave
  /\ page' = [NewPage(config, storage') EXCEPT !.phase = "away"]

\* The unit is shown again, from the same rendered configuration.
Return ==
  /\ page.phase = "away"
  /\ page' = NewPage(config, storage)
  /\ UNCHANGED <<config, storage, acts>>

-----------------------------------------------------------------------------
Next ==
  \/ OnReady \/ MetadataReceived
  \/ StartsPlaying \/ Advances \/ Stalls \/ ReachesEnd
  \/ OnStateChange \/ Tick \/ OnSeek \/ Thaw
  \/ TogglePlayback \/ ClickVideo \/ (\E t \in Time : OnSlide(t)) \/ OnStop
  \/ Destroy \/ Return

Spec == Init /\ [][Next]_vars
=============================================================================
