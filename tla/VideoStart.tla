------------------------------ MODULE VideoStart ------------------------------
(***************************************************************************)
(* How the videos of a page get their players: window.Video (10_main.js),  *)
(* the poster and the pre-roll (09_poster.js, 09_bumper.js) and the        *)
(* loading of one player (01_initialize.js).                               *)
(*                                                                         *)
(* A video with YouTube streams waits for the YouTube API.  Three things   *)
(* race with it: its own <script> tag, which may load or fail; the timer   *)
(* of ytTestTimeout, after which an HTML5 player is built if there are     *)
(* sources; and another video of the page, for the API, the function       *)
(* onYouTubeIframeAPIReady, the deferred of 03_video_player.js and the     *)
(* flag isBumperShown are shared by all of them.                           *)
(***************************************************************************)
EXTENDS Integers, FiniteSets

CONSTANTS
  Video,
  Configs         \* a set of functions from Video to Config

\* What a video is given: YouTube streams, HTML5 sources, a pre-roll.
Config == [streams : BOOLEAN, sources : BOOLEAN, bumper : BOOLEAN]

ASSUME ConstantsAssumption == Configs \subseteq [Video -> Config]

VARIABLES
  config,
  video,          \* the state of every video, and of its pre-roll
  api,            \* the YouTube API: window.YT is "absent", "loaded" or "ready"
  anyReady,       \* dfd of 03_video_player.js, which the first player that is ready
                  \* resolves: "pending", "resolved", or "stuck" in its callbacks
  isBumperShown

vars == <<config, video, api, anyReady, isBumperShown>>

\* A video before its state is initialized.
NewVideo ==
  [phase |-> "new", videoType |-> "none", speeds |-> "none", error |-> "hidden",
   dfd |-> "pending", youtube |-> 0, html5 |-> 0,
   youtubeApiAvailable |-> FALSE, htmlPlayerLoaded |-> FALSE,
   waiting |-> FALSE, script |-> "none", timer |-> "none",
   availability |-> "unknown", fetches |-> 0, metadata |-> FALSE,
   bumper |-> "none", bumperTimers |-> 0, hanging |-> FALSE, aborted |-> FALSE,
   left |-> FALSE]

Init ==
  /\ config \in Configs
  /\ video = [v \in Video |-> NewVideo]
  /\ api = "absent"
  /\ anyReady = "pending"
  /\ isBumperShown = FALSE

-----------------------------------------------------------------------------
(***************************************************************************)
(* Building players.                                                       *)
(***************************************************************************)
\* VideoPlayer(state) makes the player that videoType asks for.
NewPlayer(s) ==
  IF s.videoType = "html5" THEN [s EXCEPT !.html5 = @ + 1] ELSE [s EXCEPT !.youtube = @ + 1]

\* The event 'initialize' fires when __dfd__ is resolved and some player has been
\* ready.  If that is inside __dfd__.resolve(), and destroyAndResolve of a late
\* timer of the pre-roll hangs on it, then destroy() finds no videoPlayer: what it
\* throws ends whatever called resolve().
Throws(s) == s.hanging /\ s.dfd = "pending" /\ anyReady = "resolved"

\* Mutated: nothing is parsed.
ResolvedOnly(s) ==
  [s EXCEPT !.dfd = "resolved", !.hanging = @ /\ ~Throws(s), !.aborted = @ \/ Throws(s)]

\* __dfd__.resolve(): for a YouTube video the speeds are parsed.  destroy() takes
\* the handler off before it throws.
Resolved(s) ==
  [s EXCEPT !.dfd = "resolved",
            !.speeds = IF s.dfd = "pending" /\ s.videoType = "youtube" THEN "youtube" ELSE @,
            !.hanging = @ /\ ~Throws(s),
            !.aborted = @ \/ Throws(s)]

BuildHtml5(s) == [Resolved(NewPlayer(s)) EXCEPT !.htmlPlayerLoaded = ~Throws(s)]

\* Mutated: the YouTube player is built beside the HTML5 player.
OnYTApiReadyAlways(s) ==
  [Resolved(NewPlayer(s)) EXCEPT !.youtubeApiAvailable = ~Throws(s), !.waiting = FALSE]

OnYTApiReady(s) ==
  IF s.htmlPlayerLoaded THEN [s EXCEPT !.waiting = FALSE]
  ELSE [Resolved(NewPlayer(s)) EXCEPT !.youtubeApiAvailable = ~Throws(s), !.waiting = FALSE]

\* _prepareHTML5Video: its answer is whether there are sources.
PrepareHtml5(s, c) ==
  IF c.sources THEN [s EXCEPT !.speeds = "html5", !.videoType = "html5"]
  ELSE [s EXCEPT !.speeds = "html5", !.error = "shown"]

\* loadYoutubePlayer: fetchMetadata and parseSpeed.
LoadYoutubePlayer(s) ==
  IF s.htmlPlayerLoaded THEN s ELSE [s EXCEPT !.fetches = @ + 1, !.speeds = "youtube"]

LoadHtmlPlayer(s, c) ==
  LET prepared == PrepareHtml5(s, c)
  IN IF c.sources THEN BuildHtml5(prepared)
     ELSE LoadYoutubePlayer([prepared EXCEPT !.error = "hidden"])

\* initialize(): with streams it waits for the API, the script and the timer.
Initialized(s, c) ==
  LET main == [s EXCEPT !.phase = "main"]
      youtube == [main EXCEPT !.videoType = "youtube", !.script = "pending", !.timer = "armed"]
  IN IF c.streams
     THEN IF api = "ready" THEN OnYTApiReady(youtube) ELSE [youtube EXCEPT !.waiting = TRUE]
     ELSE IF c.sources THEN BuildHtml5(PrepareHtml5(main, c))
     ELSE [PrepareHtml5(main, c) EXCEPT !.dfd = "rejected"]

SetVideo(v, s) == video' = [video EXCEPT ![v] = s]

-----------------------------------------------------------------------------
(***************************************************************************)
(* window.Video, the poster and the pre-roll.                              *)
(***************************************************************************)
NewState(v) ==
  /\ video[v].phase = "new"
  /\ SetVideo(v, IF config[v].bumper THEN [video[v] EXCEPT !.phase = "poster"]
                 ELSE Initialized(video[v], config[v]))
  /\ UNCHANGED <<config, api, anyReady, isBumperShown>>

\* The pre-roll is an HTML5 video with sources: its player is built at once.
ClickPoster(v) ==
  /\ video[v].phase = "poster"
  /\ SetVideo(v, IF isBumperShown THEN Initialized(video[v], config[v])
                 ELSE [video[v] EXCEPT !.phase = "bumper", !.bumper = "playing"])
  /\ UNCHANGED <<config, api, anyReady, isBumperShown>>

\* showMainVideoHandler, on 'ended' (also after 35 seconds), 'error' or a skip:
\* each of them, and they may come together, starts a timer of 20 ms.
BumperEnds(v) ==
  /\ video[v].bumper = "playing"
  /\ video[v].bumperTimers < 2
  /\ SetVideo(v, [video[v] EXCEPT !.bumperTimers = @ + 1])
  /\ isBumperShown' = TRUE
  /\ UNCHANGED <<config, api, anyReady>>

\* Mutated: the player of the pre-roll is left alone.
ShowMainVideoBeside(v) == Initialized([video[v] EXCEPT !.bumperTimers = @ - 1], config[v])

\* showMainVideo.  The first timer destroys the pre-roll and resolves its
\* deferred, which initializes the video; a second one finds no videoPlayer and
\* waits for the next 'initialize', which will be that of the main video.
ShowMainVideo(v) ==
  LET s == [video[v] EXCEPT !.bumperTimers = @ - 1]
  IN IF s.bumper = "playing"
     THEN Initialized([s EXCEPT !.bumper = "destroyed"], config[v])
     ELSE [s EXCEPT !.hanging = TRUE]

BumperTimer(v) ==
  /\ video[v].bumperTimers > 0
  /\ SetVideo(v, ShowMainVideo(v))
  /\ UNCHANGED <<config, api, anyReady, isBumperShown>>

-----------------------------------------------------------------------------
(***************************************************************************)
(* The YouTube API.                                                        *)
(***************************************************************************)
\* The script defines window.YT and fires 'load'.
ScriptLoads(v) ==
  /\ video[v].script = "pending"
  /\ SetVideo(v, LoadYoutubePlayer([video[v] EXCEPT !.script = "loaded"]))
  /\ api' = IF api = "absent" THEN "loaded" ELSE api
  /\ UNCHANGED <<config, anyReady, isBumperShown>>

\* Only htmlPlayerLoaded is looked at.
ScriptFails(v) ==
  /\ video[v].script = "pending"
  /\ LET s == [video[v] EXCEPT !.script = "failed"]
     IN SetVideo(v, IF s.htmlPlayerLoaded THEN s ELSE LoadHtmlPlayer(s, config[v]))
  /\ UNCHANGED <<config, api, anyReady, isBumperShown>>

\* onYouTubeIframeAPIReady resolves _youtubeApiDeferred, and YT.ready runs the
\* callback of every video that waits.  One that throws may keep those behind it
\* from ever running: what YT.ready catches is YouTube's affair.
Waiting == {v \in Video : video[v].waiting}

ApiReady ==
  /\ api = "loaded"
  /\ api' = "ready"
  /\ \E served \in SUBSET Waiting :
       /\ served = Waiting
          \/ \E v \in served : ~video[v].htmlPlayerLoaded /\ Throws(video[v])
       /\ video' = [v \in Video |-> IF v \in served THEN OnYTApiReady(video[v])
                                    ELSE [video[v] EXCEPT !.waiting = FALSE]]
  /\ UNCHANGED <<config, anyReady, isBumperShown>>

\* Mutated: the timer does not look for an HTML5 player; it never falls back.
TimeoutTwice(s, c) == IF s.youtubeApiAvailable THEN s ELSE LoadHtmlPlayer(s, c)
TimeoutIdle(s, c) == s

\* _waitForYoutubeApi.
TimedOut(s, c) ==
  IF s.youtubeApiAvailable \/ s.htmlPlayerLoaded THEN s ELSE LoadHtmlPlayer(s, c)

\* It reports the availability that it found when it fired, unless building the
\* player threw.
YtTestTimeout(v) ==
  /\ video[v].timer = "armed"
  /\ LET s == TimedOut(video[v], config[v])
     IN SetVideo(v, [s EXCEPT
                       !.timer = "fired",
                       !.availability = IF s.aborted # video[v].aborted THEN @
                                        ELSE IF video[v].youtubeApiAvailable THEN "available"
                                        ELSE "unavailable"])
  /\ UNCHANGED <<config, api, anyReady, isBumperShown>>

MetadataFetched(v) ==
  /\ video[v].fetches > 0
  /\ SetVideo(v, [video[v] EXCEPT !.fetches = @ - 1, !.metadata = TRUE])
  /\ UNCHANGED <<config, api, anyReady, isBumperShown>>

\* onReady of any player resolves the deferred that all of them return, and the
\* videos that wait for it fire 'initialize' one after another, those of destroyed
\* pre-rolls too.  A handler that hangs there throws: the videos behind are not
\* initialized, nor is any that asks the deferred later.
PlayerReady ==
  /\ anyReady = "pending"
  /\ \E v \in Video : video[v].youtube + video[v].html5 > 0 \/ video[v].bumper = "playing"
  /\ \/ /\ \A v \in Video : ~video[v].hanging
        /\ anyReady' = "resolved"
        /\ UNCHANGED video
     \/ \E v \in Video :
          /\ video[v].hanging
          /\ anyReady' = "stuck"
          /\ SetVideo(v, [video[v] EXCEPT !.hanging = FALSE])
  /\ UNCHANGED <<config, api, isBumperShown>>

\* videoPlayer.destroy() of the player built last, an HTML5 player if there is one;
\* el.off() takes all handlers with it.
Destroyed(s) ==
  IF s.html5 > 0 THEN [s EXCEPT !.html5 = @ - 1, !.hanging = FALSE]
  ELSE IF s.youtube > 0 THEN [s EXCEPT !.youtube = @ - 1, !.hanging = FALSE]
  ELSE s

\* 'sequence:change', heard once, destroys the player of the video if it
\* exists: not that of the pre-roll, and nothing that is still to come.
SequenceChange(v) ==
  /\ video[v].phase # "new"
  /\ ~video[v].left
  /\ SetVideo(v, [Destroyed(video[v]) EXCEPT !.left = TRUE])
  /\ UNCHANGED <<config, api, anyReady, isBumperShown>>

-----------------------------------------------------------------------------
VideoNext(v) ==
  \/ NewState(v) \/ ClickPoster(v) \/ BumperEnds(v) \/ BumperTimer(v)
  \/ ScriptLoads(v) \/ ScriptFails(v) \/ YtTestTimeout(v) \/ MetadataFetched(v)
  \/ SequenceChange(v)

Next == ApiReady \/ PlayerReady \/ \E v \in Video : VideoNext(v)

Spec == Init /\ [][Next]_vars

\* The page runs its code and its timers fire; the learner, the network and
\* YouTube owe nothing.
Fairness ==
  \A v \in Video :
    /\ WF_vars(NewState(v))
    /\ WF_vars(BumperTimer(v))
    /\ WF_vars(YtTestTimeout(v))

FairSpec == Spec /\ Fairness
=============================================================================
