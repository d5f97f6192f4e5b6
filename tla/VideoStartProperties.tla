------------------------- MODULE VideoStartProperties -------------------------
(***************************************************************************)
(* What VideoStart promises.                                               *)
(***************************************************************************)
EXTENDS VideoStart

\* The fields of a video and their types.
Phases(s) ==
  /\ DOMAIN s = DOMAIN NewVideo
  /\ s.phase \in {"new", "poster", "bumper", "main"}
  /\ s.videoType \in {"none", "youtube", "html5"}
  /\ s.speeds \in {"none", "youtube", "html5"}
  /\ s.error \in {"hidden", "shown"}
  /\ s.dfd \in {"pending", "resolved", "rejected"}
  /\ s.script \in {"none", "pending", "loaded", "failed"}
  /\ s.timer \in {"none", "armed", "fired"}
  /\ s.availability \in {"unknown", "available", "unavailable"}
  /\ s.bumper \in {"none", "playing", "destroyed"}

Counts(s) ==
  /\ s.youtube \in 0 .. 1 /\ s.html5 \in Nat
  /\ s.fetches \in Nat /\ s.bumperTimers \in 0 .. 2

Flags(s) ==
  /\ s.youtubeApiAvailable \in BOOLEAN /\ s.htmlPlayerLoaded \in BOOLEAN
  /\ s.waiting \in BOOLEAN /\ s.metadata \in BOOLEAN
  /\ s.hanging \in BOOLEAN /\ s.aborted \in BOOLEAN /\ s.left \in BOOLEAN

\* Before the video itself is initialized nothing of it exists but a pre-roll.
NotStarted(s) ==
  /\ s.youtube = 0 /\ s.html5 = 0
  /\ ~s.youtubeApiAvailable /\ ~s.htmlPlayerLoaded /\ ~s.waiting
  /\ ~s.hanging /\ ~s.aborted
  /\ s.dfd = "pending" /\ s.script = "none" /\ s.timer = "none"
  /\ s.availability = "unknown"

\* The two flags remember which player was built, also after it is destroyed; a
\* video that waits for the API parses its speeds when it gets its player.
FlagsRemember(s) ==
  /\ s.html5 > 0 => s.html5 = 1 /\ s.htmlPlayerLoaded /\ s.speeds = "html5"
  /\ s.youtube = 1 => s.youtubeApiAvailable
  /\ s.youtube = 1 /\ s.html5 > 0 => s.script = "failed"
  /\ s.waiting /\ ~s.htmlPlayerLoaded => s.dfd = "pending" /\ s.videoType = "youtube"

\* They do as long as no exception came between a player and its flag; if one did,
\* a video that still waits for the API has fallen back on HTML5.
FlagsAgree(s) ==
  /\ IF s.aborted THEN s.dfd = "resolved" /\ (s.waiting => s.videoType = "html5")
     ELSE FlagsRemember(s)
  /\ s.html5 > 0 => s.videoType = "html5"
  /\ s.youtube = 1 /\ s.html5 = 0 => s.speeds = "youtube" \/ s.left
  /\ s.waiting => ~s.youtubeApiAvailable /\ s.youtube = 0

\* What is known of a video with the configuration c.
Consistent(s, c) ==
  /\ Phases(s) /\ Counts(s) /\ Flags(s)
  /\ s.phase # "main" => NotStarted(s)
  /\ s.bumper = "playing" <=> s.phase = "bumper"
  /\ s.bumper = "destroyed" => s.phase = "main"
  /\ s.bumperTimers > 0 => s.bumper # "none"
  /\ FlagsAgree(s)
  /\ c.sources /\ s.availability = "unavailable" => s.htmlPlayerLoaded /\ ~s.youtubeApiAvailable

\* The inductive invariant: with the types, what the handlers that race for a
\* video may rely on.
StartInvariant ==
  /\ config \in Configs
  /\ DOMAIN video = Video
  /\ \A v \in Video : Consistent(video[v], config[v])
  /\ api \in {"absent", "loaded", "ready"}
  /\ anyReady \in {"pending", "resolved", "stuck"}
  /\ isBumperShown \in BOOLEAN

\* The players on the element of a video.
Players(v) ==
  video[v].youtube + video[v].html5 + (IF video[v].bumper = "playing" THEN 1 ELSE 0)

\* A video has one player at a time, and none beside its pre-roll, however the
\* API, the script, the timeout and the end of the pre-roll race -- with two
\* exceptions that the code leaves.  The script's error does not ask for a YouTube
\* player, for which the API came from another video's script; and a second timer of
\* the pre-roll lets resolve() be aborted before the flag of the player is set.
OnePlayerAtATime ==
  \A v \in Video :
    Players(v) > 1 =>
      /\ video[v].bumper # "playing"
      /\ \/ video[v].script = "failed" /\ video[v].youtube = 1 /\ video[v].html5 = 1
         \/ video[v].aborted

\* What was reported unavailable to a video with sources gets no other player.
NoOtherPlayer(v) ==
  config[v].sources /\ video[v].availability = "unavailable" =>
    video'[v].youtube <= video[v].youtube /\ video'[v].html5 <= video[v].html5

\* A learner for whom YouTube was reported unavailable, and who got the HTML5
\* player, gets no other by an API or a script's error that arrives late.
FallbackIsFinal == [][\A v \in Video : NoOtherPlayer(v)]_vars

\* The choice of speeds offered is that of the player there is, unless the learner
\* left; an aborted HTML5 player is offered those that the script's 'load' parsed.
SpeedsOfThePlayer ==
  \A v \in Video :
    /\ Players(v) = 1 /\ video[v].youtube = 1 => video[v].speeds = "youtube" \/ video[v].left
    /\ video[v].html5 > 0 =>
         video[v].videoType = "html5" /\ (video[v].speeds = "html5" \/ video[v].aborted)

\* What the comment in _waitForYoutubeApi says of youtubeApiAvailable: if the API
\* loads, the callback sets it.  So a video that was reported unavailable, and fell
\* back on its sources, has no YouTube player; a late pre-roll timer refutes that.
UnavailableHasNoPlayer ==
  \A v \in Video :
    config[v].sources /\ video[v].availability = "unavailable" => video[v].youtube = 0

\* A video with HTML5 sources gets a player, whatever becomes of YouTube, once
\* its pre-roll is over -- unless the learner leaves.
GetsAPlayer ==
  \A v \in Video :
    (video[v].phase = "main" \/ video[v].bumperTimers > 0) /\ config[v].sources
      ~> Players(v) > 0 \/ video[v].left
=============================================================================
