--------------------------- MODULE VideoStartProofs ---------------------------
(***************************************************************************)
(* Proofs about VideoStart, for any videos and any configurations of them. *)
(* What a handler does to a video is a function of its state, so there is  *)
(* a lemma for each such function; the actions are put together of them.   *)
(***************************************************************************)
EXTENDS VideoStartProperties, TLAPS

-----------------------------------------------------------------------------
(***************************************************************************)
(* Building players.                                                       *)
(***************************************************************************)
\* What building a player does not touch, but for the handler of a late timer.
Builds(q, s) ==
  /\ DOMAIN q = DOMAIN s
  /\ q.phase = s.phase /\ q.script = s.script /\ q.timer = s.timer
  /\ q.availability = s.availability /\ q.metadata = s.metadata /\ q.bumper = s.bumper
  /\ q.bumperTimers = s.bumperTimers /\ q.left = s.left
  /\ q.hanging \in BOOLEAN

\* The YouTube player is built when there is no player, and parses the speeds; its
\* flag is set unless 'initialize' throws.
LEMMA YoutubeBuilt ==
  ASSUME NEW c \in Config, NEW s, Consistent(s, c), s.phase = "main", s.youtube = 0,
         ~s.htmlPlayerLoaded, s.dfd = "pending", s.videoType = "youtube"
  PROVE  Consistent(OnYTApiReady(s), c)
<1> DEFINE q == OnYTApiReady(s)
<1>0. PICK t \in BOOLEAN : t = Throws(s)
  BY DEF Consistent, Flags, Throws
<1>1. ~s.aborted /\ s.html5 = 0
  BY DEF Consistent, Counts, FlagsAgree, FlagsRemember
<1>2. /\ Builds(q, s)
      /\ q.youtube = s.youtube + 1 /\ q.html5 = s.html5 /\ q.fetches = s.fetches
      /\ q.youtubeApiAvailable = ~t /\ q.htmlPlayerLoaded = s.htmlPlayerLoaded
      /\ q.waiting = FALSE /\ q.dfd = "resolved" /\ q.aborted = t
      /\ q.videoType = "youtube" /\ q.error = s.error /\ q.speeds = "youtube"
  <2>1. DOMAIN s = DOMAIN NewVideo /\ s.hanging \in BOOLEAN
    BY DEF Consistent, Phases, Flags
  <2>2. Throws(NewPlayer(s)) = t
    BY <1>0, <2>1 DEF NewVideo, Throws, NewPlayer
  <2>3. q = [Resolved(NewPlayer(s)) EXCEPT !.youtubeApiAvailable = ~t, !.waiting = FALSE]
    BY <1>0 DEF OnYTApiReady
  <2> HIDE DEF q
  <2> QED BY <1>1, <2>1, <2>2, <2>3 DEF NewVideo, NewPlayer, Resolved, Builds
<1> HIDE DEF q
<1>3. Phases(q)
  BY <1>2 DEF Consistent, Phases, Builds
<1>4. Counts(q)
  BY <1>2 DEF Consistent, Counts, Builds
<1>5. Flags(q)
  BY <1>2 DEF Consistent, Flags, Builds
<1>6. FlagsAgree(q)
  <2>1. q.youtube = 1 /\ ~(q.html5 > 0)
    BY <1>1, <1>2
  <2>2. CASE t
    <3>1. q.aborted
      BY <1>2, <2>2
    <3> QED BY <1>2, <2>1, <3>1 DEF FlagsAgree
  <2>3. CASE ~t
    <3>1. ~q.aborted /\ q.youtubeApiAvailable
      BY <1>2, <2>3
    <3> QED BY <1>2, <2>1, <3>1 DEF FlagsAgree, FlagsRemember
  <2> QED BY <2>2, <2>3
<1>7. Consistent(q, c)
  BY <1>2, <1>3, <1>4, <1>5, <1>6 DEF Consistent, Builds
<1> QED BY <1>7 DEF q

\* The callback of a video whose HTML5 player was aborted builds another one.
LEMMA SecondHtml5Built ==
  ASSUME NEW c \in Config, NEW s, Consistent(s, c), s.phase = "main", s.youtube = 0,
         ~s.htmlPlayerLoaded, s.aborted, s.videoType = "html5"
  PROVE  Consistent(OnYTApiReady(s), c)
<1> DEFINE q == OnYTApiReady(s)
<1>1. DOMAIN s = DOMAIN NewVideo /\ s.hanging \in BOOLEAN /\ s.dfd = "resolved"
  BY DEF Consistent, Phases, Flags, FlagsAgree
<1>2. ~Throws(s) /\ ~Throws(NewPlayer(s))
  BY <1>1 DEF NewVideo, Throws, NewPlayer
<1>3. q = [Resolved(NewPlayer(s)) EXCEPT !.youtubeApiAvailable = TRUE, !.waiting = FALSE]
  BY <1>2 DEF OnYTApiReady
<1> HIDE DEF q
<1>4. /\ Builds(q, s)
      /\ q.youtube = s.youtube /\ q.html5 = s.html5 + 1 /\ q.fetches = s.fetches
      /\ q.youtubeApiAvailable = TRUE /\ q.htmlPlayerLoaded = s.htmlPlayerLoaded
      /\ q.waiting = FALSE /\ q.dfd = "resolved" /\ q.aborted = TRUE
      /\ q.videoType = "html5" /\ q.error = s.error /\ q.speeds = s.speeds
  BY <1>1, <1>2, <1>3 DEF NewVideo, NewPlayer, Resolved, Builds
<1>5. Phases(q)
  BY <1>4 DEF Consistent, Phases, Builds
<1>6. Counts(q)
  BY <1>4 DEF Consistent, Counts, Builds
<1>7. Flags(q)
  BY <1>4 DEF Consistent, Flags, Builds
<1>8. FlagsAgree(q)
  BY <1>4 DEF FlagsAgree
<1>9. Consistent(q, c)
  BY <1>4, <1>5, <1>6, <1>7, <1>8 DEF Consistent, Builds
<1> QED BY <1>9 DEF q

\* The HTML5 player is built when it was not; beside a YouTube player only when
\* the script tag has failed, or the flag of that one was never set.
LEMMA Html5Built ==
  ASSUME NEW c \in Config, NEW s, Consistent(s, c), s.phase = "main", c.sources,
         ~s.htmlPlayerLoaded, s.youtube = 0 \/ s.script = "failed" \/ s.aborted
  PROVE  LET q == BuildHtml5(PrepareHtml5(s, c))
         IN /\ Consistent(q, c)
            /\ q.htmlPlayerLoaded \/ q.aborted # s.aborted
            /\ q.youtubeApiAvailable = s.youtubeApiAvailable /\ q.phase = s.phase
<1> DEFINE q == BuildHtml5(PrepareHtml5(s, c))
           p == PrepareHtml5(s, c)
<1>0. PICK t \in BOOLEAN : t = Throws(s)
  BY DEF Consistent, Flags, Throws
<1>1. DOMAIN s = DOMAIN NewVideo /\ s.hanging \in BOOLEAN /\ s.aborted \in BOOLEAN
  BY DEF Consistent, Phases, Flags
<1>2. t => ~s.aborted
  BY <1>0 DEF Consistent, FlagsAgree, Throws
<1>3. /\ Builds(q, s)
      /\ q.youtube = s.youtube /\ q.html5 = s.html5 + 1 /\ q.fetches = s.fetches
      /\ q.youtubeApiAvailable = s.youtubeApiAvailable /\ q.htmlPlayerLoaded = ~t
      /\ q.waiting = s.waiting /\ q.dfd = "resolved" /\ q.aborted = (s.aborted \/ t)
      /\ q.videoType = "html5" /\ q.error = s.error /\ q.speeds = "html5"
  <2>1. p = [s EXCEPT !.speeds = "html5", !.videoType = "html5"]
    BY DEF PrepareHtml5
  <2>2. Throws(p) = t /\ Throws(NewPlayer(p)) = t
    BY <1>0, <1>1, <2>1 DEF NewVideo, Throws, NewPlayer
  <2>3. q = [Resolved(NewPlayer(p)) EXCEPT !.htmlPlayerLoaded = ~t]
    BY <2>2 DEF BuildHtml5
  <2> HIDE DEF q
  <2> QED BY <1>1, <2>1, <2>2, <2>3 DEF NewVideo, NewPlayer, Resolved, Builds
<1> HIDE DEF q
<1>4. ~s.aborted => s.html5 = 0
  BY DEF Consistent, Counts, FlagsAgree, FlagsRemember
<1>5. Phases(q)
  BY <1>3 DEF Consistent, Phases, Builds
<1>6. Counts(q)
  BY <1>3 DEF Consistent, Counts, Builds
<1>7. Flags(q)
  BY <1>1, <1>3 DEF Consistent, Flags, Builds
<1>8. FlagsAgree(q)
  <2>1. /\ q.html5 > 0 /\ q.html5 # 0 /\ (s.html5 = 0 => q.html5 = 1)
        /\ q.waiting => ~q.youtubeApiAvailable /\ q.youtube = 0
    BY <1>3 DEF Consistent, Counts, FlagsAgree
  <2>2. CASE q.aborted
    BY <1>3, <2>1, <2>2 DEF FlagsAgree
  <2>3. CASE ~q.aborted
    <3>1. ~s.aborted /\ q.htmlPlayerLoaded
      BY <1>1, <1>3, <2>3
    <3>2. /\ s.youtube = 1 => s.youtubeApiAvailable
          /\ s.youtube = 1 => s.script = "failed"
      BY <3>1 DEF Consistent, FlagsAgree, FlagsRemember
    <3>3. /\ q.youtube = 1 => q.youtubeApiAvailable
          /\ q.youtube = 1 => q.script = "failed"
      BY <1>3, <3>2 DEF Builds
    <3>4. FlagsRemember(q)
      BY <1>3, <1>4, <2>1, <3>1, <3>3 DEF FlagsRemember
    <3> QED BY <1>3, <2>1, <2>3, <3>4 DEF FlagsAgree
  <2> QED BY <2>2, <2>3
<1>9. ~(s.availability = "unavailable")
  BY DEF Consistent
<1>10. Consistent(q, c)
  BY <1>3, <1>5, <1>6, <1>7, <1>8, <1>9 DEF Consistent, Builds
<1>11. q.htmlPlayerLoaded \/ q.aborted # s.aborted
  BY <1>2, <1>3
<1> QED BY <1>3, <1>10, <1>11 DEF q, Builds

\* LoadYoutubePlayer asks for metadata; e says what becomes of the error.
LEMMA YoutubeLoaded ==
  ASSUME NEW c \in Config, NEW s, Consistent(s, c), s.phase = "main", ~s.htmlPlayerLoaded,
         NEW q, Builds(q, s), q.error \in {"hidden", "shown"},
         q.youtube = s.youtube, q.html5 = s.html5, q.fetches = s.fetches + 1,
         q.youtubeApiAvailable = s.youtubeApiAvailable, q.aborted = s.aborted,
         q.htmlPlayerLoaded = s.htmlPlayerLoaded, q.waiting = s.waiting,
         q.dfd = s.dfd, q.videoType = s.videoType, q.speeds = "youtube"
  PROVE  Consistent(q, c)
<1>1. ~s.aborted => s.html5 = 0
  BY DEF Consistent, Counts, FlagsAgree, FlagsRemember
<1>2. Phases(q)
  BY DEF Consistent, Phases, Builds
<1>3. Counts(q)
  BY DEF Consistent, Counts, Builds
<1>4. Flags(q)
  BY DEF Consistent, Flags, Builds
<1>5. FlagsAgree(q)
  BY <1>1 DEF Consistent, FlagsAgree, FlagsRemember, Builds
<1> QED BY <1>2, <1>3, <1>4, <1>5 DEF Consistent, Builds

\* LoadHtmlPlayer: the HTML5 player, or metadata if there are no sources.
LEMMA LoadHtmlPlayerKeeps ==
  ASSUME NEW c \in Config, NEW s, Consistent(s, c), s.phase = "main",
         ~s.htmlPlayerLoaded, s.youtube = 0 \/ s.script = "failed" \/ s.aborted
  PROVE  LET q == LoadHtmlPlayer(s, c)
         IN /\ Consistent(q, c)
            /\ c.sources => q.htmlPlayerLoaded \/ q.aborted # s.aborted
            /\ q.youtubeApiAvailable = s.youtubeApiAvailable
            /\ q.phase = s.phase
<1> DEFINE q == LoadHtmlPlayer(s, c)
<1>1. CASE c.sources
  <2>1. q = BuildHtml5(PrepareHtml5(s, c))
    BY <1>1 DEF LoadHtmlPlayer
  <2> QED BY <1>1, <2>1, Html5Built
<1>2. CASE ~c.sources
  <2>1. DOMAIN s = DOMAIN NewVideo /\ s.hanging \in BOOLEAN
    BY DEF Consistent, Phases, Flags
  <2>2. /\ Builds(q, s) /\ q.error = "hidden"
        /\ q.youtube = s.youtube /\ q.html5 = s.html5 /\ q.fetches = s.fetches + 1
        /\ q.youtubeApiAvailable = s.youtubeApiAvailable /\ q.aborted = s.aborted
        /\ q.htmlPlayerLoaded = s.htmlPlayerLoaded /\ q.waiting = s.waiting
        /\ q.dfd = s.dfd /\ q.videoType = s.videoType /\ q.speeds = "youtube"
    BY <1>2, <2>1 DEF NewVideo, LoadHtmlPlayer, PrepareHtml5, LoadYoutubePlayer, Builds
  <2> HIDE DEF q
  <2>3. Consistent(q, c)
    BY <2>2, YoutubeLoaded
  <2>4. /\ Consistent(q, c)
        /\ c.sources => q.htmlPlayerLoaded \/ q.aborted # s.aborted
        /\ q.youtubeApiAvailable = s.youtubeApiAvailable /\ q.phase = s.phase
    BY <1>2, <2>2, <2>3 DEF Builds
  <2> QED BY <2>4 DEF q
<1> QED BY <1>1, <1>2

\* A video that starts has no player but its pre-roll, which is destroyed.
LEMMA InitializedKeeps ==
  ASSUME NEW c \in Config, NEW s, Phases(s), Counts(s), Flags(s), NotStarted(s),
         s.bumper # "playing", s.bumperTimers > 0 => s.bumper # "none"
  PROVE  Consistent(Initialized(s, c), c)
<1> DEFINE main == [s EXCEPT !.phase = "main"]
           youtube == [main EXCEPT !.videoType = "youtube", !.script = "pending",
                                   !.timer = "armed"]
           waits == [youtube EXCEPT !.waiting = TRUE]
           rejected == [PrepareHtml5(main, c) EXCEPT !.dfd = "rejected"]
<1>1. Consistent(main, c) /\ main.phase = "main" /\ ~main.htmlPlayerLoaded /\ main.youtube = 0
  BY DEF Consistent, Phases, Counts, Flags, NewVideo, NotStarted, FlagsAgree, FlagsRemember
<1>2. /\ Consistent(youtube, c) /\ youtube.phase = "main" /\ youtube.youtube = 0
      /\ ~youtube.htmlPlayerLoaded /\ youtube.dfd = "pending" /\ youtube.videoType = "youtube"
  BY DEF Consistent, Phases, Counts, Flags, NewVideo, NotStarted, FlagsAgree, FlagsRemember
<1>3. Consistent(waits, c)
  BY DEF Consistent, Phases, Counts, Flags, NewVideo, NotStarted, FlagsAgree, FlagsRemember
<1>4. ~c.sources => Consistent(rejected, c)
  BY DEF Consistent, Phases, Counts, Flags, NewVideo, NotStarted,
         FlagsAgree, FlagsRemember, PrepareHtml5
<1> HIDE DEF main, youtube, waits, rejected
<1>5. Consistent(OnYTApiReady(youtube), c)
  BY <1>2, YoutubeBuilt
<1>6. c.sources => Consistent(BuildHtml5(PrepareHtml5(main, c)), c)
  BY <1>1, Html5Built
<1> QED BY <1>3, <1>4, <1>5, <1>6 DEF Initialized, main, youtube, waits, rejected

-----------------------------------------------------------------------------
(***************************************************************************)
(* The handlers.                                                           *)
(***************************************************************************)
\* The error of the script tag.
LEMMA ScriptFailedKeeps ==
  ASSUME NEW c \in Config, NEW s, Consistent(s, c), s.script = "pending"
  PROVE  LET q == [s EXCEPT !.script = "failed"]
         IN Consistent(IF q.htmlPlayerLoaded THEN q ELSE LoadHtmlPlayer(q, c), c)
<1> DEFINE q == [s EXCEPT !.script = "failed"]
<1>1. Consistent(q, c) /\ q.script = "failed" /\ q.phase = "main"
  BY DEF Consistent, Phases, Counts, Flags, NewVideo, NotStarted, FlagsAgree, FlagsRemember
<1> HIDE DEF q
<1>2. ~q.htmlPlayerLoaded => Consistent(LoadHtmlPlayer(q, c), c)
  BY <1>1, LoadHtmlPlayerKeeps
<1> QED BY <1>1, <1>2 DEF q

\* The script tag loads.
LEMMA ScriptLoadedKeeps ==
  ASSUME NEW c \in Config, NEW s, Consistent(s, c), s.script = "pending"
  PROVE  Consistent(LoadYoutubePlayer([s EXCEPT !.script = "loaded"]), c)
<1> DEFINE p == [s EXCEPT !.script = "loaded"]
           q == LoadYoutubePlayer(p)
<1>1. Consistent(p, c) /\ p.phase = "main"
  BY DEF Consistent, Phases, Counts, Flags, NewVideo, NotStarted, FlagsAgree, FlagsRemember
<1>2. DOMAIN p = DOMAIN NewVideo /\ p.hanging \in BOOLEAN
  BY <1>1 DEF Consistent, Phases, Flags
<1> HIDE DEF p
<1>3. CASE p.htmlPlayerLoaded
  BY <1>1, <1>3 DEF p, LoadYoutubePlayer
<1>4. CASE ~p.htmlPlayerLoaded
  <2>1. /\ Builds(q, p) /\ q.error = p.error
        /\ q.youtube = p.youtube /\ q.html5 = p.html5 /\ q.fetches = p.fetches + 1
        /\ q.youtubeApiAvailable = p.youtubeApiAvailable /\ q.aborted = p.aborted
        /\ q.htmlPlayerLoaded = p.htmlPlayerLoaded /\ q.waiting = p.waiting
        /\ q.dfd = p.dfd /\ q.videoType = p.videoType /\ q.speeds = "youtube"
    BY <1>2, <1>4 DEF NewVideo, LoadYoutubePlayer, Builds
  <2>2. p.error \in {"hidden", "shown"}
    BY <1>1 DEF Consistent, Phases
  <2> HIDE DEF q
  <2>3. Consistent(q, c)
    BY <1>1, <1>4, <2>1, <2>2, YoutubeLoaded
  <2> QED BY <2>3 DEF p, q
<1> QED BY <1>3, <1>4

\* The state in which the timer leaves a video.
Reported(s, c) ==
  LET p == TimedOut(s, c)
  IN [p EXCEPT !.timer = "fired",
               !.availability = IF p.aborted # s.aborted THEN @
                                ELSE IF s.youtubeApiAvailable THEN "available"
                                ELSE "unavailable"]

\* The timer falls back on HTML5 when there is no player that it knows of.
LEMMA TimedOutKeeps ==
  ASSUME NEW c \in Config, NEW s, Consistent(s, c), s.timer = "armed"
  PROVE  Consistent(Reported(s, c), c)
<1> DEFINE p == TimedOut(s, c)
<1>1. /\ s.phase = "main" /\ s.youtube \in 0 .. 1
      /\ s.youtube = 1 => s.youtubeApiAvailable \/ s.aborted
  BY DEF Consistent, NotStarted, FlagsAgree, FlagsRemember, Counts
<1>2. /\ Consistent(p, c) /\ p.phase = "main"
      /\ p.youtubeApiAvailable = s.youtubeApiAvailable
      /\ c.sources /\ ~s.youtubeApiAvailable => p.htmlPlayerLoaded \/ p.aborted # s.aborted
  <2>1. CASE s.youtubeApiAvailable \/ s.htmlPlayerLoaded
    BY <1>1, <2>1 DEF TimedOut
  <2>2. CASE ~(s.youtubeApiAvailable \/ s.htmlPlayerLoaded)
    <3>1. p = LoadHtmlPlayer(s, c)
      BY <2>2 DEF TimedOut
    <3> QED BY <1>1, <2>2, <3>1, LoadHtmlPlayerKeeps
  <2> QED BY <2>1, <2>2
<1> HIDE DEF p
<1>3. ASSUME NEW a \in {"unknown", "available", "unavailable"},
             c.sources /\ a = "unavailable" => p.htmlPlayerLoaded /\ ~p.youtubeApiAvailable
      PROVE  Consistent([p EXCEPT !.timer = "fired", !.availability = a], c)
  BY <1>2, <1>3 DEF Consistent, Phases, Counts, Flags, NewVideo, FlagsAgree, FlagsRemember
<1>4. CASE p.aborted # s.aborted
  <2>1. /\ p.availability \in {"unknown", "available", "unavailable"}
        /\ c.sources /\ p.availability = "unavailable" =>
             p.htmlPlayerLoaded /\ ~p.youtubeApiAvailable
    BY <1>2 DEF Consistent, Phases
  <2>2. Reported(s, c) = [p EXCEPT !.timer = "fired", !.availability = p.availability]
    BY <1>4 DEF Reported, p
  <2> QED BY <1>3, <2>1, <2>2
<1>5. CASE p.aborted = s.aborted /\ s.youtubeApiAvailable
  <2>1. Reported(s, c) = [p EXCEPT !.timer = "fired", !.availability = "available"]
    BY <1>5 DEF Reported, p
  <2> QED BY <1>3, <2>1
<1>6. CASE p.aborted = s.aborted /\ ~s.youtubeApiAvailable
  <2>1. Reported(s, c) = [p EXCEPT !.timer = "fired", !.availability = "unavailable"]
    BY <1>6 DEF Reported, p
  <2> QED BY <1>2, <1>3, <1>6, <2>1
<1> QED BY <1>4, <1>5, <1>6

\* YT.ready runs the callback of a video that waits.
LEMMA ReadyKeeps ==
  ASSUME NEW c \in Config, NEW s, Consistent(s, c), s.waiting
  PROVE  Consistent(OnYTApiReady(s), c)
<1>1. /\ s.phase = "main" /\ s.youtube = 0
      /\ s.aborted \in BOOLEAN /\ (s.aborted => s.videoType = "html5")
  BY DEF Consistent, NotStarted, Flags, FlagsAgree
<1>2. CASE s.htmlPlayerLoaded
  <2>1. OnYTApiReady(s) = [s EXCEPT !.waiting = FALSE]
    BY <1>2 DEF OnYTApiReady
  <2>2. Consistent([s EXCEPT !.waiting = FALSE], c)
    BY DEF Consistent, Phases, Counts, Flags, NewVideo, NotStarted, FlagsAgree, FlagsRemember
  <2> QED BY <2>1, <2>2
<1>3. CASE ~s.htmlPlayerLoaded /\ ~s.aborted
  <2>1. s.dfd = "pending" /\ s.videoType = "youtube"
    BY <1>3 DEF Consistent, FlagsAgree, FlagsRemember
  <2> QED BY <1>1, <1>3, <2>1, YoutubeBuilt
<1>4. CASE ~s.htmlPlayerLoaded /\ s.aborted
  BY <1>1, <1>4, SecondHtml5Built
<1> QED BY <1>1, <1>2, <1>3, <1>4

\* A callback that is never run.
LEMMA UnservedKeeps ==
  ASSUME NEW c \in Config, NEW s, Consistent(s, c)
  PROVE  Consistent([s EXCEPT !.waiting = FALSE], c)
BY DEF Consistent, Phases, Counts, Flags, NewVideo, NotStarted, FlagsAgree, FlagsRemember

\* destroyAndResolve is taken off the event; leaving takes a player, too.
LEMMA DestroyedKeeps ==
  ASSUME NEW c \in Config, NEW s, Consistent(s, c)
  PROVE  /\ Consistent([s EXCEPT !.hanging = FALSE], c)
         /\ Consistent([Destroyed(s) EXCEPT !.left = TRUE], c)
<1> DEFINE h == [s EXCEPT !.html5 = @ - 1, !.hanging = FALSE]
           y == [s EXCEPT !.youtube = @ - 1, !.hanging = FALSE]
<1>1. Consistent([s EXCEPT !.hanging = FALSE], c)
  BY DEF Consistent, Phases, Counts, Flags, NewVideo, NotStarted, FlagsAgree, FlagsRemember
<1>2. CASE s.html5 > 0
  <2>1. Destroyed(s) = h
    BY <1>2 DEF Destroyed
  <2>2. Consistent([h EXCEPT !.left = TRUE], c)
    BY <1>2 DEF Consistent, Phases, Counts, Flags, NewVideo, NotStarted, FlagsAgree,
                FlagsRemember
  <2> QED BY <1>1, <2>1, <2>2
<1>3. CASE ~(s.html5 > 0) /\ s.youtube > 0
  <2>1. Destroyed(s) = y
    BY <1>3 DEF Destroyed
  <2>2. Consistent([y EXCEPT !.left = TRUE], c)
    BY <1>3 DEF Consistent, Phases, Counts, Flags, NewVideo, NotStarted, FlagsAgree,
                FlagsRemember
  <2> QED BY <1>1, <2>1, <2>2
<1>4. CASE ~(s.html5 > 0) /\ ~(s.youtube > 0)
  <2>1. Destroyed(s) = s
    BY <1>4 DEF Destroyed
  <2>2. Consistent([s EXCEPT !.left = TRUE], c)
    BY DEF Consistent, Phases, Counts, Flags, NewVideo, NotStarted, FlagsAgree, FlagsRemember
  <2> QED BY <1>1, <2>1, <2>2
<1> QED BY <1>2, <1>3, <1>4

-----------------------------------------------------------------------------
(***************************************************************************)
(* The actions.                                                            *)
(***************************************************************************)
\* A step that changes one video keeps what is said of the others.
LEMMA OneVideoChanges ==
  ASSUME StartInvariant, NEW v \in Video, NEW s, Consistent(s, config[v]),
         SetVideo(v, s), UNCHANGED config,
         api' \in {"absent", "loaded", "ready"},
         anyReady' \in {"pending", "resolved", "stuck"}, isBumperShown' \in BOOLEAN
  PROVE  StartInvariant'
<1>1. DOMAIN video' = Video /\ \A u \in Video : video'[u] = IF u = v THEN s ELSE video[u]
  BY DEF StartInvariant, SetVideo
<1> QED BY <1>1 DEF StartInvariant

LEMMA ConfigOf == ASSUME StartInvariant, NEW v \in Video
                  PROVE  config[v] \in Config /\ Consistent(video[v], config[v])
BY ConstantsAssumption DEF StartInvariant

\* The first state.
LEMMA InitHolds == Init => StartInvariant
<1>1. ASSUME NEW c PROVE Consistent(NewVideo, c)
  BY DEF Consistent, Phases, Counts, Flags, NewVideo, NotStarted, FlagsAgree, FlagsRemember
<1> QED BY <1>1 DEF Init, StartInvariant

\* window.Video and the pre-roll.
LEMMA PageKeeps ==
  ASSUME StartInvariant, NEW v \in Video,
         NewState(v) \/ ClickPoster(v) \/ BumperEnds(v) \/ BumperTimer(v)
  PROVE  StartInvariant'
<1> DEFINE s == video[v]
           c == config[v]
<1>0. c \in Config /\ Consistent(s, c)
  BY ConfigOf
<1>1. s.phase \in {"new", "poster"} =>
        /\ Phases(s) /\ Counts(s) /\ Flags(s) /\ NotStarted(s)
        /\ s.bumper # "playing" /\ (s.bumperTimers > 0 => s.bumper # "none")
  BY <1>0 DEF Consistent
<1> HIDE DEF s, c
<1>2. CASE NewState(v)
  <2>1. s.phase = "new"
    BY <1>2 DEF NewState, s
  <2>2. Consistent([s EXCEPT !.phase = "poster"], c)
    BY <1>0, <2>1 DEF Consistent, Phases, Counts, Flags, NewVideo, NotStarted,
                      FlagsAgree, FlagsRemember
  <2>3. Consistent(Initialized(s, c), c)
    BY <1>0, <1>1, <2>1, InitializedKeeps
  <2>4. Consistent(IF c.bumper THEN [s EXCEPT !.phase = "poster"] ELSE Initialized(s, c), c)
    BY <2>2, <2>3
  <2> QED BY <1>2, <2>4, OneVideoChanges DEF NewState, StartInvariant, s, c
<1>3. CASE ClickPoster(v)
  <2>1. s.phase = "poster"
    BY <1>3 DEF ClickPoster, s
  <2>2. Consistent([s EXCEPT !.phase = "bumper", !.bumper = "playing"], c)
    BY <1>0, <2>1 DEF Consistent, Phases, Counts, Flags, NewVideo, NotStarted,
                      FlagsAgree, FlagsRemember
  <2>3. Consistent(Initialized(s, c), c)
    BY <1>0, <1>1, <2>1, InitializedKeeps
  <2>4. Consistent(IF isBumperShown THEN Initialized(s, c)
                   ELSE [s EXCEPT !.phase = "bumper", !.bumper = "playing"], c)
    BY <2>2, <2>3
  <2> QED BY <1>3, <2>4, OneVideoChanges DEF ClickPoster, StartInvariant, s, c
<1>4. CASE BumperEnds(v)
  <2>1. s.bumperTimers < 2 /\ s.bumper = "playing"
    BY <1>4 DEF BumperEnds, s
  <2>2. Consistent([s EXCEPT !.bumperTimers = @ + 1], c)
    BY <1>0, <2>1 DEF Consistent, Phases, Counts, Flags, NewVideo, NotStarted,
                      FlagsAgree, FlagsRemember
  <2> QED BY <1>4, <2>2, OneVideoChanges DEF BumperEnds, StartInvariant, s, c
<1>5. CASE BumperTimer(v)
  <2> DEFINE p == [s EXCEPT !.bumperTimers = @ - 1]
             q == [p EXCEPT !.bumper = "destroyed"]
  <2>1. s.bumperTimers > 0
    BY <1>5 DEF BumperTimer, s
  <2>2. Consistent(p, c)
    BY <1>0, <2>1 DEF Consistent, Phases, Counts, Flags, NewVideo, NotStarted,
                      FlagsAgree, FlagsRemember
  <2> HIDE DEF p
  <2>3. p.bumper # "playing" => Consistent([p EXCEPT !.hanging = TRUE], c)
    <3>1. s.bumper # "none" /\ p.bumper = s.bumper
      BY <1>0, <2>1 DEF Consistent, Phases, NewVideo, p
    <3>2. p.bumper # "playing" => p.phase = "main"
      BY <2>2, <3>1 DEF Consistent, Phases
    <3> QED BY <2>2, <3>2 DEF Consistent, Phases, Counts, Flags, NewVideo, NotStarted,
                              FlagsAgree, FlagsRemember
  <2>4. p.bumper = "playing" =>
          /\ Phases(q) /\ Counts(q) /\ Flags(q) /\ NotStarted(q)
          /\ q.bumper # "playing" /\ (q.bumperTimers > 0 => q.bumper # "none")
    BY <2>2 DEF Consistent, Phases, Counts, Flags, NewVideo, NotStarted
  <2> HIDE DEF q
  <2>5. p.bumper = "playing" => Consistent(Initialized(q, c), c)
    BY <1>0, <2>4, InitializedKeeps
  <2>6. ShowMainVideo(v) = IF p.bumper = "playing" THEN Initialized(q, c)
                           ELSE [p EXCEPT !.hanging = TRUE]
    BY DEF ShowMainVideo, p, q, s, c
  <2>7. Consistent(ShowMainVideo(v), c)
    BY <2>3, <2>5, <2>6
  <2> QED BY <1>5, <2>7, OneVideoChanges DEF BumperTimer, StartInvariant, s, c
<1> QED BY <1>2, <1>3, <1>4, <1>5

\* The script tag, the timer, the metadata, and leaving the unit.
LEMMA RaceKeeps ==
  ASSUME StartInvariant, NEW v \in Video,
         \/ ScriptLoads(v) \/ ScriptFails(v) \/ YtTestTimeout(v)
         \/ MetadataFetched(v) \/ SequenceChange(v)
  PROVE  StartInvariant'
<1> DEFINE s == video[v]
           c == config[v]
<1>0. c \in Config /\ Consistent(s, c)
  BY ConfigOf
<1> HIDE DEF s, c
<1>1. CASE ScriptLoads(v)
  <2>1. s.script = "pending"
    BY <1>1 DEF ScriptLoads, s
  <2>2. Consistent(LoadYoutubePlayer([s EXCEPT !.script = "loaded"]), c)
    BY <1>0, <2>1, ScriptLoadedKeeps
  <2> QED BY <1>1, <2>2, OneVideoChanges DEF ScriptLoads, StartInvariant, s, c
<1>2. CASE ScriptFails(v)
  <2> DEFINE q == [s EXCEPT !.script = "failed"]
             r == IF q.htmlPlayerLoaded THEN q ELSE LoadHtmlPlayer(q, c)
  <2>1. s.script = "pending"
    BY <1>2 DEF ScriptFails, s
  <2>2. Consistent(r, c)
    BY <1>0, <2>1, ScriptFailedKeeps
  <2>3. SetVideo(v, r)
    BY <1>2 DEF ScriptFails, s, c
  <2> HIDE DEF r
  <2> QED BY <1>2, <2>2, <2>3, OneVideoChanges DEF ScriptFails, StartInvariant, s, c
<1>3. CASE YtTestTimeout(v)
  <2> DEFINE r == Reported(s, c)
  <2>1. s.timer = "armed"
    BY <1>3 DEF YtTestTimeout, s
  <2>2. Consistent(r, c)
    BY <1>0, <2>1, TimedOutKeeps
  <2>3. SetVideo(v, r)
    BY <1>3 DEF YtTestTimeout, Reported, s, c
  <2> HIDE DEF r
  <2> QED BY <1>3, <2>2, <2>3, OneVideoChanges DEF YtTestTimeout, StartInvariant, s, c
<1>4. CASE MetadataFetched(v)
  <2>1. s.fetches > 0
    BY <1>4 DEF MetadataFetched, s
  <2>2. Consistent([s EXCEPT !.fetches = @ - 1, !.metadata = TRUE], c)
    BY <1>0, <2>1 DEF Consistent, Phases, Counts, Flags, NewVideo, NotStarted,
                      FlagsAgree, FlagsRemember
  <2> QED BY <1>4, <2>2, OneVideoChanges DEF MetadataFetched, StartInvariant, s, c
<1>5. CASE SequenceChange(v)
  <2>1. Consistent([Destroyed(s) EXCEPT !.left = TRUE], c)
    BY <1>0, DestroyedKeeps
  <2> QED BY <1>5, <2>1, OneVideoChanges DEF SequenceChange, StartInvariant, s, c
<1> QED BY <1>1, <1>2, <1>3, <1>4, <1>5

\* Every step keeps the invariant.
LEMMA StepKeeps == ASSUME StartInvariant, [Next]_vars PROVE StartInvariant'
<1>1. CASE UNCHANGED vars
  BY <1>1 DEF vars, StartInvariant
<1>2. CASE ApiReady
  <2>1. PICK served \in SUBSET Waiting :
          video' = [v \in Video |-> IF v \in served THEN OnYTApiReady(video[v])
                                    ELSE [video[v] EXCEPT !.waiting = FALSE]]
    BY <1>2 DEF ApiReady
  <2>2. ASSUME NEW v \in Video PROVE Consistent(video'[v], config[v])
    <3>1. config[v] \in Config /\ Consistent(video[v], config[v])
      BY ConfigOf
    <3>2. CASE v \in served
      <4>1. video[v].waiting
        BY <3>2 DEF Waiting
      <4> QED BY <2>1, <3>1, <3>2, <4>1, ReadyKeeps
    <3>3. CASE v \notin served
      BY <2>1, <3>1, <3>3, UnservedKeeps
    <3> QED BY <3>2, <3>3
  <2> QED BY <1>2, <2>1, <2>2 DEF ApiReady, StartInvariant
<1>3. CASE PlayerReady
  <2>1. CASE UNCHANGED video
    BY <1>3, <2>1 DEF PlayerReady, StartInvariant
  <2>2. ASSUME NEW v \in Video, SetVideo(v, [video[v] EXCEPT !.hanging = FALSE]),
               anyReady' = "stuck"
        PROVE  StartInvariant'
    <3>1. Consistent([video[v] EXCEPT !.hanging = FALSE], config[v])
      BY ConfigOf, DestroyedKeeps
    <3> QED BY <1>3, <2>2, <3>1, OneVideoChanges DEF PlayerReady, StartInvariant
  <2> QED BY <1>3, <2>1, <2>2 DEF PlayerReady
<1> QED BY <1>1, <1>2, <1>3, PageKeeps, RaceKeeps DEF Next, VideoNext

-----------------------------------------------------------------------------
(***************************************************************************)
(* Theorems.                                                               *)
(***************************************************************************)
\* However the API, script tags, timers and pre-rolls of a page race, what the
\* handlers of each video rely on holds.
THEOREM HandlersAgree == Spec => []StartInvariant
<1> QED BY InitHolds, StepKeeps, PTL DEF Spec

\* Players are built by onYTApiReady, BuildHtml5 and the pre-roll: one at a time,
\* but for the error of a script tag after the API came from another video, and for
\* a resolve() that the handler of a late pre-roll timer aborted.
THEOREM OnePlayer == Spec => []OnePlayerAtATime
<1>1. ASSUME StartInvariant PROVE OnePlayerAtATime
  BY <1>1 DEF StartInvariant, Consistent, Counts, NotStarted,
              FlagsAgree, FlagsRemember, OnePlayerAtATime, Players
<1> QED BY <1>1, HandlersAgree, PTL

\* _waitForYoutubeApi falls back for good: nothing that builds a player does so for
\* a video that was reported unavailable and has sources.
THEOREM FallbackStays == Spec => FallbackIsFinal
<1>1. ASSUME StartInvariant, [Next]_vars, NEW v \in Video, config[v].sources,
             video[v].availability = "unavailable"
      PROVE  /\ video'[v].youtube <= video[v].youtube
             /\ video'[v].html5 <= video[v].html5
  <2> DEFINE s == video[v]
             q == video'[v]
  <2>0. /\ DOMAIN s = DOMAIN NewVideo /\ s.youtube \in Nat /\ s.html5 \in Nat
        /\ s.htmlPlayerLoaded /\ s.phase = "main" /\ s.bumper # "playing"
    BY <1>1, ConfigOf DEF Consistent, Phases, Counts, NotStarted
  <2>1. \A r : \A u \in Video : u # v /\ SetVideo(u, r) => q = s
    BY <1>1 DEF SetVideo, StartInvariant
  <2>2. \A r : SetVideo(v, r) => q = r
    BY <1>1 DEF SetVideo, StartInvariant
  <2>3. \/ q = s
        \/ q = OnYTApiReady(s) \/ q = [s EXCEPT !.waiting = FALSE]
        \/ q = [s EXCEPT !.hanging = FALSE]
        \/ BumperEnds(v) /\ q = [s EXCEPT !.bumperTimers = @ + 1]
        \/ BumperTimer(v) /\ q = ShowMainVideo(v)
        \/ q = LoadYoutubePlayer([s EXCEPT !.script = "loaded"])
        \/ q = [s EXCEPT !.script = "failed"]
        \/ q = Reported(s, config[v])
        \/ q = [s EXCEPT !.fetches = @ - 1, !.metadata = TRUE]
        \/ q = [Destroyed(s) EXCEPT !.left = TRUE]
    <3>1. CASE UNCHANGED vars
      BY <3>1 DEF vars
    <3>2. CASE ApiReady
      BY <3>2 DEF ApiReady
    <3>3. CASE PlayerReady
      BY <2>1, <2>2, <3>3 DEF PlayerReady
    <3>4. ASSUME NEW u \in Video, u # v, VideoNext(u)
          PROVE  q = s
      BY <2>1, <3>4 DEF VideoNext, NewState, ClickPoster, BumperEnds, BumperTimer, ScriptLoads,
                        ScriptFails, YtTestTimeout, MetadataFetched, SequenceChange
    <3>5. CASE VideoNext(v)
      <4>1. ~NewState(v) /\ ~ClickPoster(v)
        BY <2>0 DEF NewState, ClickPoster
      <4>2. CASE BumperEnds(v)
        BY <2>2, <4>2 DEF BumperEnds
      <4>3. CASE BumperTimer(v)
        BY <2>2, <4>3 DEF BumperTimer
      <4>4. CASE ScriptLoads(v)
        BY <2>2, <4>4 DEF ScriptLoads
      <4>5. CASE ScriptFails(v)
        <5>1. [s EXCEPT !.script = "failed"].htmlPlayerLoaded
          BY <2>0 DEF NewVideo
        <5> QED BY <2>2, <4>5, <5>1 DEF ScriptFails
      <4>6. CASE YtTestTimeout(v)
        BY <2>2, <4>6 DEF YtTestTimeout, Reported
      <4>7. CASE MetadataFetched(v)
        BY <2>2, <4>7 DEF MetadataFetched
      <4>8. CASE SequenceChange(v)
        BY <2>2, <4>8 DEF SequenceChange
      <4> QED BY <3>5, <4>1, <4>2, <4>3, <4>4, <4>5, <4>6, <4>7, <4>8 DEF VideoNext
    <3> QED BY <1>1, <3>1, <3>2, <3>3, <3>4, <3>5 DEF Next
  <2>4. OnYTApiReady(s) = [s EXCEPT !.waiting = FALSE]
    BY <2>0 DEF OnYTApiReady
  <2>5. ShowMainVideo(v) = [s EXCEPT !.bumperTimers = @ - 1, !.hanging = TRUE]
    BY <2>0 DEF ShowMainVideo, NewVideo
  <2>6. LoadYoutubePlayer([s EXCEPT !.script = "loaded"]) = [s EXCEPT !.script = "loaded"]
    BY <2>0 DEF LoadYoutubePlayer, NewVideo
  <2>7. Reported(s, config[v]).youtube = s.youtube /\ Reported(s, config[v]).html5 = s.html5
    <3>1. TimedOut(s, config[v]) = s
      BY <2>0 DEF TimedOut
    <3> QED BY <2>0, <3>1 DEF Reported, NewVideo
  <2>8. /\ [Destroyed(s) EXCEPT !.left = TRUE].youtube <= s.youtube
        /\ [Destroyed(s) EXCEPT !.left = TRUE].html5 <= s.html5
    BY <2>0 DEF Destroyed, NewVideo
  <2>9. /\ ShowMainVideo(v).youtube = s.youtube /\ ShowMainVideo(v).html5 = s.html5
        /\ OnYTApiReady(s).youtube = s.youtube /\ OnYTApiReady(s).html5 = s.html5
    BY <2>0, <2>4, <2>5 DEF NewVideo
  <2>10. /\ [s EXCEPT !.waiting = FALSE].youtube = s.youtube
         /\ [s EXCEPT !.waiting = FALSE].html5 = s.html5
         /\ [s EXCEPT !.hanging = FALSE].youtube = s.youtube
         /\ [s EXCEPT !.hanging = FALSE].html5 = s.html5
    BY <2>0 DEF NewVideo
  <2>11. /\ [s EXCEPT !.bumperTimers = @ + 1].youtube = s.youtube
         /\ [s EXCEPT !.bumperTimers = @ + 1].html5 = s.html5
         /\ [s EXCEPT !.script = "failed"].youtube = s.youtube
         /\ [s EXCEPT !.script = "failed"].html5 = s.html5
         /\ [s EXCEPT !.script = "loaded"].youtube = s.youtube
         /\ [s EXCEPT !.script = "loaded"].html5 = s.html5
         /\ [s EXCEPT !.fetches = @ - 1, !.metadata = TRUE].youtube = s.youtube
         /\ [s EXCEPT !.fetches = @ - 1, !.metadata = TRUE].html5 = s.html5
    BY <2>0 DEF NewVideo
  <2>12. q.youtube <= s.youtube /\ q.html5 <= s.html5
    <3> HIDE DEF s, q
    <3>1. \A n \in Nat : n <= n
      OBVIOUS
    <3> QED BY <2>0, <2>3, <2>6, <2>7, <2>8, <2>9, <2>10, <2>11, <3>1
  <2> QED BY <2>12
<1>2. ASSUME StartInvariant, [Next]_vars
      PROVE  [\A v \in Video : NoOtherPlayer(v)]_vars
  BY <1>1, <1>2 DEF NoOtherPlayer
<1> QED BY <1>2, HandlersAgree, PTL DEF Spec, FallbackIsFinal

\* parseSpeed and _prepareHTML5Video leave the speeds of the player there is.
THEOREM SpeedsAgree == Spec => []SpeedsOfThePlayer
<1>1. ASSUME StartInvariant PROVE SpeedsOfThePlayer
  BY <1>1 DEF StartInvariant, Consistent, Counts, FlagsAgree, FlagsRemember,
              NotStarted, SpeedsOfThePlayer, Players
<1> QED BY <1>1, HandlersAgree, PTL
=============================================================================
