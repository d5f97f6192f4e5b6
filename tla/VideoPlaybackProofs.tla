------------------------- MODULE VideoPlaybackProofs -------------------------
(***************************************************************************)
(* Proofs about VideoPlayback, for any duration and any configurations.    *)
(* The handlers are functions of the page, built from a few others; there  *)
(* is a lemma for each of these that says what it does to a page.          *)
(***************************************************************************)
EXTENDS VideoPlaybackProperties, TLAPS

-----------------------------------------------------------------------------
(***************************************************************************)
(* The element.                                                            *)
(***************************************************************************)
\* What the commands to the element leave alone.
SameSeek(q, p) ==
  q.ask = p.ask /\ q.wanted = p.wanted /\ q.rewind = p.rewind

\* A seek that is in hand stays so, or is made.
SeekKept(p, q) == InHand(p) => InHand(q) \/ (q.wanted = NoTime /\ q.pos = p.wanted)

SameView(q, p) ==
  /\ q.phase = p.phase /\ q.playerState = p.playerState /\ q.known = p.known
  /\ q.startTime = p.startTime /\ q.endTime = p.endTime

\* A command of the element changes what it is, where it is, and what is due.
LEMMA Commanded ==
  ASSUME NEW p, Typed(p), NEW q, DOMAIN q = DOMAIN p,
         q.native \in {"unstarted", "cued", "playing", "buffering", "paused", "ended"},
         q.due \in Seq(PlayerState \ {"UNSTARTED"}), q.pos \in Time,
         q.wanted \in {p.wanted, NoTime},
         q.ask = p.ask, q.rewind = p.rewind, SameView(q, p),
         q.currentTime = p.currentTime, q.timer = p.timer, q.metadata = p.metadata,
         q.saved = p.saved, q.thumb = p.thumb, q.dragging = p.dragging,
         q.frozen = p.frozen, q.thaws = p.thaws, q.lastSeekValue = p.lastSeekValue,
         q.button = p.button, q.emitPlayVideoEvent = p.emitPlayVideoEvent
  PROVE  Typed(q)
<1>1. Phases(q)
  BY DEF Typed, Phases, SameView
<1>2. Times(q)
  BY DEF Typed, Times, SameView
<1>3. Switches(q)
  BY DEF Typed, Switches, SameView
<1> QED BY <1>1, <1>2, <1>3 DEF Typed

\* playVideo.
LEMMA PlayTyped ==
  ASSUME NEW p, Typed(p)
  PROVE  LET q == NativePlay(p)
         IN Typed(q) /\ SameView(q, p) /\ SameSeek(q, p)
<1> DEFINE q == NativePlay(p)
<1>1. 0 \in Time
  BY ConstantsAssumption DEF Time
<1>2. CASE p.native \in {"playing", "buffering"}
  BY <1>2 DEF NativePlay, SameView, SameSeek
<1>3. CASE p.native \notin {"playing", "buffering"}
  <2>1. /\ DOMAIN q = DOMAIN p /\ q.native = "buffering" /\ q.pos \in {p.pos, 0}
        /\ q.due = Append(p.due, "BUFFERING")
        /\ SameView(q, p) /\ SameSeek(q, p)
        /\ q.currentTime = p.currentTime /\ q.timer = p.timer /\ q.metadata = p.metadata
        /\ q.saved = p.saved /\ q.thumb = p.thumb /\ q.dragging = p.dragging
        /\ q.frozen = p.frozen /\ q.thaws = p.thaws /\ q.lastSeekValue = p.lastSeekValue
        /\ q.button = p.button /\ q.emitPlayVideoEvent = p.emitPlayVideoEvent
    BY <1>3 DEF Typed, Phases, NewPage, NativePlay, Reports, SameView, SameSeek
  <2>2. p.due \in Seq(PlayerState \ {"UNSTARTED"}) /\ p.pos \in Time
    BY DEF Typed, Phases, Times
  <2>3. Append(p.due, "BUFFERING") \in Seq(PlayerState \ {"UNSTARTED"})
    BY <2>2 DEF PlayerState
  <2> HIDE DEF q
  <2>4. Typed(q)
    BY <1>1, <2>1, <2>2, <2>3, Commanded DEF SameSeek
  <2> QED BY <2>1, <2>4 DEF q
<1> QED BY <1>2, <1>3

\* pauseVideo.
LEMMA PauseTyped ==
  ASSUME NEW p, Typed(p)
  PROVE  LET q == NativePause(p)
         IN /\ Typed(q) /\ SameView(q, p) /\ SameSeek(q, p)
            /\ q.pos = p.pos /\ q.timer = p.timer
<1> DEFINE q == NativePause(p)
<1>1. CASE p.native \notin {"playing", "buffering"}
  BY <1>1 DEF NativePause, SameView, SameSeek
<1>2. CASE p.native \in {"playing", "buffering"}
  <2>1. /\ DOMAIN q = DOMAIN p /\ q.native = "paused" /\ q.pos = p.pos
        /\ q.due = Append(p.due, "PAUSED")
        /\ SameView(q, p) /\ SameSeek(q, p)
        /\ q.currentTime = p.currentTime /\ q.timer = p.timer /\ q.metadata = p.metadata
        /\ q.saved = p.saved /\ q.thumb = p.thumb /\ q.dragging = p.dragging
        /\ q.frozen = p.frozen /\ q.thaws = p.thaws /\ q.lastSeekValue = p.lastSeekValue
        /\ q.button = p.button /\ q.emitPlayVideoEvent = p.emitPlayVideoEvent
    BY <1>2 DEF Typed, Phases, NewPage, NativePause, Reports, SameView, SameSeek
  <2>2. p.due \in Seq(PlayerState \ {"UNSTARTED"}) /\ p.pos \in Time
    BY DEF Typed, Phases, Times
  <2>3. Append(p.due, "PAUSED") \in Seq(PlayerState \ {"UNSTARTED"})
    BY <2>2 DEF PlayerState
  <2> HIDE DEF q
  <2>4. Typed(q)
    BY <2>1, <2>2, <2>3, Commanded DEF SameSeek
  <2> QED BY <2>1, <2>4 DEF q
<1> QED BY <1>1, <1>2

\* seekTo of the element.
LEMMA SeekTyped ==
  ASSUME NEW p, Typed(p), NEW t \in Time
  PROVE  LET q == NativeSeek(p, t)
         IN /\ Typed(q) /\ SameView(q, p) /\ q.pos = t /\ q.timer = p.timer
            /\ q.ask = p.ask /\ q.rewind = p.rewind
            /\ q.wanted = Got(p, t)
<1> DEFINE q == NativeSeek(p, t)
<1>1. /\ DOMAIN q = DOMAIN p /\ q.pos = t
      /\ q.native \in {p.native, "buffering", "paused"}
      /\ q.due \in {p.due, Append(p.due, "BUFFERING")}
      /\ q.wanted = Got(p, t)
      /\ SameView(q, p) /\ q.ask = p.ask /\ q.rewind = p.rewind
      /\ q.currentTime = p.currentTime /\ q.timer = p.timer /\ q.metadata = p.metadata
      /\ q.saved = p.saved /\ q.thumb = p.thumb /\ q.dragging = p.dragging
      /\ q.frozen = p.frozen /\ q.thaws = p.thaws /\ q.lastSeekValue = p.lastSeekValue
      /\ q.button = p.button /\ q.emitPlayVideoEvent = p.emitPlayVideoEvent
  BY DEF Typed, Phases, NewPage, NativeSeek, Reports, SameView
<1>2. p.due \in Seq(PlayerState \ {"UNSTARTED"})
  BY DEF Typed, Phases
<1>3. Append(p.due, "BUFFERING") \in Seq(PlayerState \ {"UNSTARTED"})
  BY <1>2 DEF PlayerState
<1>4. /\ p.native \in {"unstarted", "cued", "playing", "buffering", "paused", "ended"}
      /\ Got(p, t) \in {p.wanted, NoTime}
  BY DEF Typed, Phases, Got
<1> HIDE DEF q
<1>5. Typed(q)
  BY <1>1, <1>2, <1>3, <1>4, Commanded
<1> QED BY <1>1, <1>5 DEF q

\* cueVideoById.
LEMMA CueTyped ==
  ASSUME NEW p, Typed(p), NEW t \in Time
  PROVE  LET q == NativeCue(p, t)
         IN /\ Typed(q) /\ SameView(q, p) /\ q.pos = t /\ q.timer = p.timer
            /\ q.ask = p.ask /\ q.rewind = p.rewind /\ q.wanted = Got(p, t)
<1> DEFINE q == NativeCue(p, t)
<1>1. /\ DOMAIN q = DOMAIN p /\ q.pos = t /\ q.native = "cued"
      /\ q.due = Append(p.due, "CUED") /\ q.wanted = Got(p, t)
      /\ SameView(q, p) /\ q.ask = p.ask /\ q.rewind = p.rewind
      /\ q.currentTime = p.currentTime /\ q.timer = p.timer /\ q.metadata = p.metadata
      /\ q.saved = p.saved /\ q.thumb = p.thumb /\ q.dragging = p.dragging
      /\ q.frozen = p.frozen /\ q.thaws = p.thaws /\ q.lastSeekValue = p.lastSeekValue
      /\ q.button = p.button /\ q.emitPlayVideoEvent = p.emitPlayVideoEvent
  BY DEF Typed, Phases, NewPage, NativeCue, Reports, SameView
<1>2. p.due \in Seq(PlayerState \ {"UNSTARTED"})
  BY DEF Typed, Phases
<1>3. Append(p.due, "CUED") \in Seq(PlayerState \ {"UNSTARTED"})
  BY <1>2 DEF PlayerState
<1>4. Got(p, t) \in {p.wanted, NoTime}
  BY DEF Got
<1> HIDE DEF q
<1>5. Typed(q)
  BY <1>1, <1>3, <1>4, Commanded
<1> QED BY <1>1, <1>5 DEF q

-----------------------------------------------------------------------------
(***************************************************************************)
(* The controller.                                                         *)
(***************************************************************************)
\* The handlers change the thumb, the time shown, the interval, the button, the
\* log and the thaw.
LEMMA Handled ==
  ASSUME NEW p, Typed(p), NEW q, DOMAIN q = DOMAIN p,
         SameView(q, p), SameSeek(q, p),
         q.native = p.native, q.due = p.due, q.pos = p.pos,
         q.currentTime \in Time, q.thumb \in Time, q.timer \in BOOLEAN,
         q.button \in {"play", "pause"}, q.emitPlayVideoEvent \in BOOLEAN,
         q.metadata = p.metadata, q.saved = p.saved, q.dragging = p.dragging,
         q.frozen = p.frozen, q.thaws = p.thaws, q.lastSeekValue = p.lastSeekValue
  PROVE  Typed(q)
<1>1. Phases(q)
  BY DEF Typed, Phases, SameView
<1>2. Times(q)
  BY DEF Typed, Times, SameView, SameSeek
<1>3. Switches(q)
  BY DEF Typed, Switches, SameView
<1> QED BY <1>1, <1>2, <1>3 DEF Typed

\* updatePlayTime moves the thumb.
LEMMA ThumbTyped ==
  ASSUME NEW p, Typed(p), NEW t \in Time
  PROVE  LET q == UpdatePlayTime(p, t)
         IN /\ Typed(q) /\ SameView(q, p) /\ SameSeek(q, p)
            /\ q.pos = p.pos /\ q.timer = p.timer
<1> DEFINE q == UpdatePlayTime(p, t)
<1>1. /\ DOMAIN q = DOMAIN p /\ SameView(q, p) /\ SameSeek(q, p)
      /\ q.native = p.native /\ q.due = p.due /\ q.pos = p.pos
      /\ q.currentTime = p.currentTime /\ q.thumb \in {p.thumb, t} /\ q.timer = p.timer
      /\ q.button = p.button /\ q.emitPlayVideoEvent = p.emitPlayVideoEvent
      /\ q.metadata = p.metadata /\ q.saved = p.saved /\ q.dragging = p.dragging
      /\ q.frozen = p.frozen /\ q.thaws = p.thaws /\ q.lastSeekValue = p.lastSeekValue
  BY DEF Typed, Phases, NewPage, UpdatePlayTime, SameView, SameSeek
<1>2. /\ p.currentTime \in Time /\ p.thumb \in Time /\ p.timer \in BOOLEAN
      /\ p.button \in {"play", "pause"} /\ p.emitPlayVideoEvent \in BOOLEAN
  BY DEF Typed, Phases, Times, Switches
<1> HIDE DEF q
<1>3. Typed(q)
  BY <1>1, <1>2, Handled
<1> QED BY <1>1, <1>3 DEF q

\* update() reads the time of the element, and pauses it at the end of the region.
LEMMA UpdateTyped ==
  ASSUME NEW p, Typed(p)
  PROVE  LET q == Update(p)
         IN /\ Typed(q) /\ SameView(q, p) /\ SameSeek(q, p)
            /\ q.pos = p.pos /\ q.timer = p.timer
<1> DEFINE read == [p EXCEPT !.currentTime = p.pos]
           shown == UpdatePlayTime(read, p.pos)
           paused == NativePause(shown)
           stopped == Stopped(paused)
<1>1. /\ p.pos \in Time /\ p.thumb \in Time /\ p.timer \in BOOLEAN
      /\ p.button \in {"play", "pause"} /\ p.emitPlayVideoEvent \in BOOLEAN
  BY DEF Typed, Phases, Times, Switches
<1>2. /\ Typed(read) /\ SameView(read, p) /\ SameSeek(read, p)
      /\ read.pos = p.pos /\ read.timer = p.timer
  <2>1. /\ DOMAIN read = DOMAIN p /\ SameView(read, p) /\ SameSeek(read, p)
        /\ read.native = p.native /\ read.due = p.due /\ read.pos = p.pos
        /\ read.currentTime = p.pos /\ read.thumb = p.thumb /\ read.timer = p.timer
        /\ read.button = p.button /\ read.emitPlayVideoEvent = p.emitPlayVideoEvent
        /\ read.metadata = p.metadata /\ read.saved = p.saved
        /\ read.dragging = p.dragging /\ read.frozen = p.frozen
        /\ read.thaws = p.thaws /\ read.lastSeekValue = p.lastSeekValue
    BY DEF Typed, Phases, NewPage, SameView, SameSeek
  <2> HIDE DEF read
  <2> QED BY <1>1, <2>1, Handled
<1>a. Update(p) = IF shown.endTime # NoTime /\ shown.endTime <= shown.currentTime
                  THEN stopped ELSE shown
  BY DEF Update
<1> HIDE DEF read
<1>3. /\ Typed(shown) /\ SameView(shown, p) /\ SameSeek(shown, p)
      /\ shown.pos = p.pos /\ shown.timer = p.timer
  BY <1>1, <1>2, ThumbTyped DEF SameView, SameSeek
<1> HIDE DEF shown
<1>4. /\ Typed(paused) /\ SameView(paused, p) /\ SameSeek(paused, p)
      /\ paused.pos = p.pos /\ paused.timer = p.timer
  BY <1>3, PauseTyped DEF SameView, SameSeek
<1> HIDE DEF paused
<1>5. /\ Typed(stopped) /\ SameView(stopped, p) /\ SameSeek(stopped, p)
      /\ stopped.pos = p.pos /\ stopped.timer = p.timer
  <2>1. /\ DOMAIN stopped = DOMAIN paused /\ SameView(stopped, paused)
        /\ SameSeek(stopped, paused)
        /\ stopped.native = paused.native /\ stopped.due = paused.due
        /\ stopped.pos = paused.pos /\ stopped.currentTime = paused.currentTime
        /\ stopped.thumb = paused.thumb /\ stopped.timer = paused.timer
        /\ stopped.button = paused.button /\ stopped.emitPlayVideoEvent = TRUE
        /\ stopped.metadata = paused.metadata /\ stopped.saved = paused.saved
        /\ stopped.dragging = paused.dragging /\ stopped.frozen = paused.frozen
        /\ stopped.thaws = paused.thaws /\ stopped.lastSeekValue = paused.lastSeekValue
    BY <1>4 DEF Typed, Phases, NewPage, Stopped, SameView, SameSeek
  <2>2. /\ paused.currentTime \in Time /\ paused.thumb \in Time /\ paused.timer \in BOOLEAN
        /\ paused.button \in {"play", "pause"}
    BY <1>4 DEF Typed, Phases, Times, Switches
  <2> HIDE DEF stopped
  <2>3. Typed(stopped)
    BY <1>4, <2>1, <2>2, Handled
  <2> QED BY <1>4, <2>1, <2>3 DEF SameView, SameSeek
<1> HIDE DEF stopped
<1> QED BY <1>a, <1>3, <1>5

\* runTimer starts the interval and updates at once.
LEMMA RunTimerTyped ==
  ASSUME NEW p, Typed(p)
  PROVE  LET q == RunTimer(p)
         IN Typed(q) /\ SameView(q, p) /\ SameSeek(q, p) /\ q.pos = p.pos /\ q.timer
<1> DEFINE on == [p EXCEPT !.timer = TRUE]
<1>1. Typed(on) /\ SameView(on, p) /\ SameSeek(on, p) /\ on.pos = p.pos /\ on.timer
  <2>1. /\ DOMAIN on = DOMAIN p /\ SameView(on, p) /\ SameSeek(on, p)
        /\ on.native = p.native /\ on.due = p.due /\ on.pos = p.pos
        /\ on.currentTime = p.currentTime /\ on.thumb = p.thumb /\ on.timer = TRUE
        /\ on.button = p.button /\ on.emitPlayVideoEvent = p.emitPlayVideoEvent
        /\ on.metadata = p.metadata /\ on.saved = p.saved /\ on.dragging = p.dragging
        /\ on.frozen = p.frozen /\ on.thaws = p.thaws /\ on.lastSeekValue = p.lastSeekValue
    BY DEF Typed, Phases, NewPage, SameView, SameSeek
  <2>2. /\ p.currentTime \in Time /\ p.thumb \in Time
        /\ p.button \in {"play", "pause"} /\ p.emitPlayVideoEvent \in BOOLEAN
    BY DEF Typed, Phases, Times, Switches
  <2> HIDE DEF on
  <2>3. Typed(on)
    BY <2>1, <2>2, Handled
  <2> QED BY <2>1, <2>3
<1>2. RunTimer(p) = IF p.timer THEN p ELSE Update(on)
  BY DEF RunTimer
<1> HIDE DEF on
<1>3. CASE p.timer
  BY <1>2, <1>3 DEF SameView, SameSeek
<1>4. CASE ~p.timer
  BY <1>1, <1>2, <1>4, UpdateTyped DEF SameView, SameSeek
<1> QED BY <1>3, <1>4

\* seekTo: the seek is made, waits for the buffering to end, or is refused.
LEMMA SeekToTyped ==
  ASSUME NEW p, Typed(p), NEW t \in Int, p.ask = NoTime, p.wanted \in {t, NoTime}
  PROVE  LET q == SeekTo(p, t)
         IN /\ Typed(q) /\ SeekWaits(q) /\ SameView(q, p) /\ q.ask = NoTime
            /\ t \in 0 .. DurationOf(p) /\ p.playerState # "BUFFERING" => q.pos = t
            /\ t \in 0 .. DurationOf(p) /\ p.wanted = t =>
                 InHand(q) \/ (q.wanted = NoTime /\ q.pos = t)
<1> DEFINE begun == [p EXCEPT !.rewind = NoTime, !.timer = @ /\ ~IsPlaying(p)]
           waits == [begun EXCEPT !.rewind = t]
           moved == IF IsYoutube /\ p.playerState \in {"UNSTARTED", "CUED"} THEN NativeCue(begun, t)
                    ELSE IF IsYoutube /\ p.playerState = "BUFFERING" THEN waits
                    ELSE NativeSeek(begun, t)
           shown == UpdatePlayTime(moved, t)
           ticking == IF IsPlaying(p) THEN RunTimer(shown) ELSE shown
           done == [ticking EXCEPT !.currentTime = t]
<1>1. SeekTo(p, t) = IF t > DurationOf(p) \/ t < 0 THEN p ELSE done
  BY DEF SeekTo
<1>2. DurationOf(p) \in Nat /\ DurationOf(p) <= Duration
  BY ConstantsAssumption DEF DurationOf
<1>3. CASE t > DurationOf(p) \/ t < 0
  <2>1. SeekTo(p, t) = p
    BY <1>1, <1>3
  <2>2. SeekWaits(p) /\ SameView(p, p)
    BY DEF SeekWaits, SameView
  <2>3. ~(t \in 0 .. DurationOf(p))
    BY <1>2, <1>3
  <2> QED BY <2>1, <2>2, <2>3
<1>4. CASE ~(t > DurationOf(p) \/ t < 0)
  <2>1. t \in Time
    BY <1>2, <1>4, ConstantsAssumption DEF Time
  <2>2. /\ Typed(begun) /\ SameView(begun, p) /\ begun.ask = NoTime
        /\ begun.wanted = p.wanted /\ begun.rewind = NoTime
    <3>1. /\ DOMAIN begun = DOMAIN p /\ SameView(begun, p) /\ begun.ask = p.ask
          /\ begun.wanted = p.wanted /\ begun.rewind = NoTime
          /\ begun.native = p.native /\ begun.due = p.due /\ begun.pos = p.pos
          /\ begun.currentTime = p.currentTime /\ begun.thumb = p.thumb
          /\ begun.timer = (p.timer /\ ~IsPlaying(p)) /\ begun.button = p.button
          /\ begun.emitPlayVideoEvent = p.emitPlayVideoEvent
          /\ begun.metadata = p.metadata /\ begun.saved = p.saved
          /\ begun.dragging = p.dragging /\ begun.frozen = p.frozen
          /\ begun.thaws = p.thaws /\ begun.lastSeekValue = p.lastSeekValue
      BY DEF Typed, Phases, NewPage, SameView
    <3> HIDE DEF begun
    <3>2. Phases(begun)
      BY <3>1 DEF Typed, Phases, SameView
    <3>3. Times(begun)
      BY <3>1 DEF Typed, Times, SameView
    <3>4. (p.timer /\ ~IsPlaying(p)) \in BOOLEAN
      OBVIOUS
    <3>5. Switches(begun)
      BY <3>1, <3>4 DEF Typed, Switches, SameView
    <3> QED BY <3>1, <3>2, <3>3, <3>5 DEF Typed
  <2> HIDE DEF begun
  <2>3. /\ Typed(waits) /\ SameView(waits, p) /\ waits.ask = NoTime
        /\ waits.wanted = p.wanted /\ waits.rewind = t
    <3>1. /\ DOMAIN waits = DOMAIN begun /\ SameView(waits, begun)
          /\ waits.ask = begun.ask /\ waits.wanted = begun.wanted /\ waits.rewind = t
          /\ waits.native = begun.native /\ waits.due = begun.due /\ waits.pos = begun.pos
          /\ waits.currentTime = begun.currentTime /\ waits.thumb = begun.thumb
          /\ waits.timer = begun.timer /\ waits.button = begun.button
          /\ waits.emitPlayVideoEvent = begun.emitPlayVideoEvent
          /\ waits.metadata = begun.metadata /\ waits.saved = begun.saved
          /\ waits.dragging = begun.dragging /\ waits.frozen = begun.frozen
          /\ waits.thaws = begun.thaws /\ waits.lastSeekValue = begun.lastSeekValue
      BY <2>2 DEF Typed, Phases, NewPage, SameView
    <3> HIDE DEF waits
    <3>2. Phases(waits)
      BY <2>2, <3>1 DEF Typed, Phases, SameView
    <3>3. Times(waits)
      BY <2>1, <2>2, <3>1 DEF Typed, Times, SameView
    <3>4. Switches(waits)
      BY <2>2, <3>1 DEF Typed, Switches, SameView
    <3> QED BY <2>2, <3>1, <3>2, <3>3, <3>4 DEF Typed, SameView
  <2> HIDE DEF waits
  <2>4. /\ Typed(moved) /\ SameView(moved, p) /\ moved.ask = NoTime
        /\ \/ moved.wanted = NoTime /\ moved.pos = t
           \/ p.wanted = t => moved.wanted = t /\ moved.rewind = t
        /\ p.playerState # "BUFFERING" => moved.pos = t
    <3>1. CASE IsYoutube /\ p.playerState \in {"UNSTARTED", "CUED"}
      <4>1. moved = NativeCue(begun, t)
        BY <3>1
      <4> QED BY <2>1, <2>2, <4>1, CueTyped DEF SameView, Got
    <3>2. CASE IsYoutube /\ p.playerState = "BUFFERING"
      <4>1. moved = waits
        BY <3>2
      <4> QED BY <2>3, <3>2, <4>1
    <3>3. CASE ~IsYoutube \/ p.playerState \notin {"UNSTARTED", "CUED", "BUFFERING"}
      <4>1. moved = NativeSeek(begun, t)
        BY <3>3
      <4> QED BY <2>1, <2>2, <4>1, SeekTyped DEF SameView, Got
    <3> QED BY <3>1, <3>2, <3>3
  <2> HIDE DEF moved
  <2>5. Typed(shown) /\ SameView(shown, moved) /\ SameSeek(shown, moved) /\ shown.pos = moved.pos
    BY <2>1, <2>4, ThumbTyped
  <2> HIDE DEF shown
  <2>6. /\ Typed(ticking) /\ SameView(ticking, moved) /\ SameSeek(ticking, moved)
        /\ ticking.pos = moved.pos
    BY <2>5, RunTimerTyped DEF SameView, SameSeek
  <2> HIDE DEF ticking
  <2>7. Typed(done) /\ SameView(done, ticking) /\ SameSeek(done, ticking) /\ done.pos = ticking.pos
    <3>1. /\ DOMAIN done = DOMAIN ticking /\ SameView(done, ticking) /\ SameSeek(done, ticking)
          /\ done.native = ticking.native /\ done.due = ticking.due /\ done.pos = ticking.pos
          /\ done.currentTime = t /\ done.thumb = ticking.thumb /\ done.timer = ticking.timer
          /\ done.button = ticking.button
          /\ done.emitPlayVideoEvent = ticking.emitPlayVideoEvent
          /\ done.metadata = ticking.metadata /\ done.saved = ticking.saved
          /\ done.dragging = ticking.dragging /\ done.frozen = ticking.frozen
          /\ done.thaws = ticking.thaws /\ done.lastSeekValue = ticking.lastSeekValue
      BY <2>6 DEF Typed, Phases, NewPage, SameView, SameSeek
    <3>2. /\ ticking.thumb \in Time /\ ticking.timer \in BOOLEAN
          /\ ticking.button \in {"play", "pause"} /\ ticking.emitPlayVideoEvent \in BOOLEAN
      BY <2>6 DEF Typed, Phases, Times, Switches
    <3> HIDE DEF done
    <3>3. Typed(done)
      BY <2>1, <2>6, <3>1, <3>2, Handled
    <3> QED BY <3>1, <3>3
  <2> HIDE DEF done
  <2>8. SeekWaits(done)
    BY <2>4, <2>6, <2>7 DEF SeekWaits, SameSeek
  <2>9. /\ SameView(done, p) /\ done.ask = NoTime
        /\ p.playerState # "BUFFERING" => done.pos = t
    BY <2>4, <2>6, <2>7 DEF SameView, SameSeek
  <2>10. p.wanted = t => InHand(done) \/ (done.wanted = NoTime /\ done.pos = t)
    <3>1. t # NoTime
      BY <2>1, ConstantsAssumption DEF Time, NoTime
    <3> QED BY <2>4, <2>6, <2>7, <3>1 DEF SameSeek, InHand
  <2> QED BY <1>1, <1>4, <2>7, <2>8, <2>9, <2>10
<1> QED BY <1>3, <1>4

\* trigger('play') makes the seek that waits.
LEMMA PlayedTyped ==
  ASSUME NEW p, Typed(p), SeekWaits(p)
  PROVE  LET q == OnPlay(p)
         IN Typed(q) /\ SeekWaits(q) /\ SeekKept(p, q) /\ q.phase = p.phase
<1> DEFINE run == RunTimer(p)
           shown == [run EXCEPT !.button = "pause", !.emitPlayVideoEvent = FALSE]
<1>1. Typed(run) /\ SameView(run, p) /\ SameSeek(run, p)
  BY RunTimerTyped
<1>2. OnPlay(p) = IF shown.rewind = NoTime THEN shown ELSE NativeSeek(shown, shown.rewind)
  BY DEF OnPlay
<1> HIDE DEF run
<1>3. Typed(shown) /\ SameView(shown, p) /\ SameSeek(shown, p)
  <2>1. /\ DOMAIN shown = DOMAIN run /\ SameView(shown, run) /\ SameSeek(shown, run)
        /\ shown.native = run.native /\ shown.due = run.due /\ shown.pos = run.pos
        /\ shown.currentTime = run.currentTime /\ shown.thumb = run.thumb
        /\ shown.timer = run.timer /\ shown.button = "pause"
        /\ shown.emitPlayVideoEvent = FALSE
        /\ shown.metadata = run.metadata /\ shown.saved = run.saved
        /\ shown.dragging = run.dragging /\ shown.frozen = run.frozen
        /\ shown.thaws = run.thaws /\ shown.lastSeekValue = run.lastSeekValue
    BY <1>1 DEF Typed, Phases, NewPage, SameView, SameSeek
  <2>2. run.currentTime \in Time /\ run.thumb \in Time /\ run.timer \in BOOLEAN
    BY <1>1 DEF Typed, Times, Switches
  <2> HIDE DEF shown
  <2>3. Typed(shown)
    BY <1>1, <2>1, <2>2, Handled
  <2> QED BY <1>1, <2>1, <2>3 DEF SameView, SameSeek
<1> HIDE DEF shown
<1>4. CASE shown.rewind = NoTime
  BY <1>2, <1>3, <1>4 DEF SeekWaits, SameView, SameSeek, SeekKept, InHand
<1>5. CASE shown.rewind # NoTime
  <2> DEFINE q == NativeSeek(shown, shown.rewind)
  <2>1. shown.rewind \in Time
    BY <1>3, <1>5 DEF Typed, Times
  <2>2. /\ Typed(q) /\ SameView(q, shown) /\ q.ask = shown.ask /\ q.rewind = shown.rewind
        /\ q.wanted = Got(shown, shown.rewind) /\ q.pos = shown.rewind
    BY <1>3, <2>1, SeekTyped
  <2> HIDE DEF q
  <2>3. SeekWaits(q) /\ q.phase = p.phase
    BY <1>3, <2>2 DEF SeekWaits, SameView, SameSeek, Got
  <2>4. SeekKept(p, q)
    BY <1>3, <2>2 DEF SeekWaits, SeekKept, InHand, SameSeek, Got
  <2> QED BY <1>2, <1>5, <2>2, <2>3, <2>4 DEF q
<1> QED BY <1>4, <1>5

-----------------------------------------------------------------------------
(***************************************************************************)
(* The region and the time to start from.                                  *)
(***************************************************************************)
\* figureOutStartEndTime: the region is not empty, and lies inside the video.
LEMMA RegionTyped ==
  ASSUME NEW c \in Config, NEW dur \in Nat
  PROVE  /\ StartTimeOf(c, dur) \in Nat
         /\ StartTimeOf(c, dur) = 0 \/ StartTimeOf(c, dur) < dur
         /\ RegionEnd(c, dur) \in Nat \cup {NoTime}
         /\ RegionEnd(c, dur) # NoTime => StartTimeOf(c, dur) < RegionEnd(c, dur)
<1>1. c.start \in Nat /\ c.end \in Nat
  BY DEF Config
<1>2. EndTimeOf(c) \in Nat \cup {NoTime}
  BY <1>1 DEF EndTimeOf
<1>3. /\ StartTimeOf(c, dur) \in Nat
      /\ StartTimeOf(c, dur) = 0 \/ StartTimeOf(c, dur) < dur
  BY <1>1 DEF StartTimeOf
<1> QED BY <1>2, <1>3 DEF RegionEnd, NoTime

\* figureOutStartingTime: a time inside the region; the saved one unless it lies
\* outside or in the last second.
LEMMA StartingTimeTyped ==
  ASSUME NEW c \in Config, NEW dur \in Nat, NEW saved \in Nat
  PROVE  LET start == StartTimeOf(c, dur)
             end == RegionEnd(c, dur)
             t == StartingTime(c, saved, dur)
         IN /\ t \in Nat /\ start <= t /\ (t = 0 \/ t < dur)
            /\ end # NoTime => t < end
            /\ t = saved \/ saved <= start \/ saved >= dur - 1 \/ (end # NoTime /\ saved >= end)
<1> DEFINE start == StartTimeOf(c, dur)
           end == RegionEnd(c, dur)
           t == StartingTime(c, saved, dur)
<1>1. /\ start \in Nat /\ (start = 0 \/ start < dur)
      /\ end \in Nat \cup {NoTime} /\ (end # NoTime => start < end)
  BY RegionTyped
<1>2. t = IF start < saved /\ (end > saved \/ end = NoTime) /\ saved < dur - 1
          THEN saved ELSE start
  BY DEF StartingTime
<1> HIDE DEF start, end, t
<1>3. /\ t \in Nat /\ start <= t /\ (t = 0 \/ t < dur)
      /\ end # NoTime => t < end
      /\ t = saved \/ saved <= start \/ saved >= dur - 1 \/ (end # NoTime /\ saved >= end)
  <2>1. CASE start < saved /\ (end > saved \/ end = NoTime) /\ saved < dur - 1
    BY <1>1, <1>2, <2>1 DEF NoTime
  <2>2. CASE ~(start < saved /\ (end > saved \/ end = NoTime) /\ saved < dur - 1)
    BY <1>1, <1>2, <2>2 DEF NoTime
  <2> QED BY <2>1, <2>2
<1> QED BY <1>3 DEF start, end, t

\* The region goes into the page when the duration is told.
LEMMA RegionSet ==
  ASSUME NEW p, Typed(p), config \in Config
  PROVE  LET q == WithRegion(p)
         IN /\ Typed(q) /\ SameSeek(q, p) /\ q.phase = p.phase /\ q.pos = p.pos
            /\ q.playerState = p.playerState /\ q.known = p.known /\ q.saved = p.saved
            /\ q.startTime = StartTimeOf(config, DurationOf(p))
            /\ q.endTime = RegionEnd(config, DurationOf(p))
<1> DEFINE q == WithRegion(p)
<1>1. DurationOf(p) \in Nat
  BY ConstantsAssumption DEF DurationOf
<1>2. /\ StartTimeOf(config, DurationOf(p)) \in Nat
      /\ RegionEnd(config, DurationOf(p)) \in Nat \cup {NoTime}
  BY <1>1, RegionTyped
<1>3. /\ DOMAIN q = DOMAIN p /\ SameSeek(q, p) /\ q.phase = p.phase
      /\ q.playerState = p.playerState /\ q.known = p.known
      /\ q.startTime = StartTimeOf(config, DurationOf(p))
      /\ q.endTime = RegionEnd(config, DurationOf(p))
      /\ q.native = p.native /\ q.due = p.due /\ q.pos = p.pos
      /\ q.currentTime = p.currentTime /\ q.thumb = p.thumb /\ q.timer = p.timer
      /\ q.button = p.button /\ q.emitPlayVideoEvent = p.emitPlayVideoEvent
      /\ q.metadata = p.metadata /\ q.saved = p.saved /\ q.dragging = p.dragging
      /\ q.frozen = p.frozen /\ q.thaws = p.thaws /\ q.lastSeekValue = p.lastSeekValue
  BY DEF Typed, Phases, NewPage, WithRegion, SameSeek
<1> HIDE DEF q
<1>4. Phases(q)
  BY <1>3 DEF Typed, Phases
<1>5. Times(q)
  BY <1>2, <1>3 DEF Typed, Times, SameSeek
<1>6. Switches(q)
  BY <1>3 DEF Typed, Switches
<1> QED BY <1>3, <1>4, <1>5, <1>6 DEF Typed, q

\* A player as it is built.
LEMMA NewPageTyped ==
  ASSUME config \in Config, NEW stored \in Time
  PROVE  LET p == NewPage(config, stored) IN Typed(p) /\ SeekWaits(p) /\ p.phase = "loading"
<1> DEFINE p == NewPage(config, stored)
<1>1. /\ config.kind \in {"html5", "youtube"} /\ config.saved \in Nat
      /\ config.known \in BOOLEAN
  BY DEF Config
<1>2. 0 \in Time /\ SavedVideoPosition(config, stored) \in Nat
  BY <1>1, ConstantsAssumption DEF Time, SavedVideoPosition
<1>3. Phases(p)
  BY <1>1 DEF Phases, NewPage, PlayerState
<1>4. Times(p)
  BY <1>2 DEF Times, NewPage
<1>5. Switches(p)
  BY <1>1 DEF Switches, NewPage
<1>6. SeekWaits(p) /\ p.phase = "loading"
  BY DEF SeekWaits, NewPage
<1> QED BY <1>3, <1>4, <1>5, <1>6 DEF Typed

-----------------------------------------------------------------------------
(***************************************************************************)
(* The actions.                                                            *)
(***************************************************************************)
\* A step that leaves the player ready needs to look at the page only.
LEMMA ReadyStays ==
  ASSUME NEW q, Typed(q), SeekWaits(q), q.phase = "ready", page' = q, UNCHANGED config,
         config \in Configs, storage' \in Time, acts' \in 0 .. MaxActs
  PROVE  PlaybackInvariant'
<1>1. Typed(page)'
  BY DEF Typed, Phases, Times, Switches, NewPage
<1>2. SeekWaits(page)'
  BY DEF SeekWaits
<1> QED BY <1>1, <1>2 DEF PlaybackInvariant

\* onReady leaves the player where it starts.
LEMMA ReadyStarts ==
  ASSUME PlaybackInvariant, OnReady
  PROVE  /\ PlaybackInvariant'
         /\ page'.pos = StartingTime(config, page.saved, DurationOf(page))
         /\ page'.startTime = StartTimeOf(config, DurationOf(page))
         /\ page'.endTime = RegionEnd(config, DurationOf(page))
<1> DEFINE ready == [page EXCEPT !.phase = "ready",
                                 !.playerState = IF IsYoutube THEN @ ELSE "PAUSED"]
           p == WithRegion(ready)
           t == StartingTime(config, p.saved, DurationOf(p))
<1>1. config \in Config /\ Typed(page) /\ page.phase = "loading" /\ Untouched(page)
  BY ConstantsAssumption DEF PlaybackInvariant, OnReady
<1>2. /\ page' = IF t > 0 THEN SeekTo(p, t) ELSE p
      /\ UNCHANGED <<config, storage, acts>>
  BY DEF OnReady
<1>3. /\ Typed(ready) /\ SameSeek(ready, page) /\ ready.phase = "ready"
      /\ ready.playerState \in {"UNSTARTED", "PAUSED"} /\ ready.known = page.known
      /\ ready.pos = page.pos /\ ready.saved = page.saved
  <2>1. /\ DOMAIN ready = DOMAIN page /\ SameSeek(ready, page) /\ ready.phase = "ready"
        /\ ready.playerState \in {page.playerState, "PAUSED"}
        /\ ready.startTime = page.startTime /\ ready.endTime = page.endTime
        /\ ready.native = page.native /\ ready.due = page.due /\ ready.pos = page.pos
        /\ ready.currentTime = page.currentTime /\ ready.thumb = page.thumb
        /\ ready.timer = page.timer /\ ready.button = page.button
        /\ ready.emitPlayVideoEvent = page.emitPlayVideoEvent
        /\ ready.metadata = page.metadata /\ ready.saved = page.saved
        /\ ready.dragging = page.dragging /\ ready.frozen = page.frozen
        /\ ready.thaws = page.thaws /\ ready.lastSeekValue = page.lastSeekValue
        /\ ready.known = page.known
    BY <1>1 DEF Typed, Phases, NewPage, SameSeek
  <2>2. page.playerState = "UNSTARTED"
    BY <1>1 DEF Untouched
  <2> HIDE DEF ready
  <2>3. Phases(ready)
    BY <1>1, <2>1, <2>2 DEF Typed, Phases, PlayerState
  <2>4. Times(ready)
    BY <1>1, <2>1 DEF Typed, Times, SameSeek
  <2>5. Switches(ready)
    BY <1>1, <2>1 DEF Typed, Switches
  <2> QED BY <2>1, <2>2, <2>3, <2>4, <2>5 DEF Typed
<1> HIDE DEF ready
<1>4. /\ Typed(p) /\ SameSeek(p, page) /\ p.phase = "ready"
      /\ p.playerState \in {"UNSTARTED", "PAUSED"} /\ p.known = page.known
      /\ p.pos = page.pos /\ p.saved = page.saved
      /\ p.startTime = StartTimeOf(config, DurationOf(page))
      /\ p.endTime = RegionEnd(config, DurationOf(page))
  BY <1>1, <1>3, RegionSet DEF SameSeek, DurationOf
<1> HIDE DEF p
<1>5. DurationOf(p) = DurationOf(page) /\ DurationOf(p) \in Nat
  BY <1>4, ConstantsAssumption DEF DurationOf
<1>6. t \in Nat /\ (t = 0 \/ t < DurationOf(p))
  BY <1>1, <1>4, <1>5, StartingTimeTyped DEF Typed, Times
<1>a. t = StartingTime(config, page.saved, DurationOf(page))
  BY <1>4, <1>5
<1> HIDE DEF t
<1>7. p.ask = NoTime /\ p.wanted = NoTime /\ p.pos = 0
  BY <1>1, <1>4 DEF Untouched, SameSeek
<1>8. CASE t > 0
  <2> DEFINE q == SeekTo(p, t)
  <2>1. /\ Typed(q) /\ SeekWaits(q) /\ SameView(q, p) /\ q.pos = t
    BY <1>4, <1>5, <1>6, <1>7, <1>8, SeekToTyped
  <2>2. page' = q
    BY <1>2, <1>8
  <2> HIDE DEF q
  <2>3. q.phase = "ready" /\ q.startTime = p.startTime /\ q.endTime = p.endTime
    BY <1>4, <2>1 DEF SameView
  <2>4. PlaybackInvariant'
    BY <1>2, <2>1, <2>2, <2>3, ReadyStays DEF PlaybackInvariant
  <2> QED BY <1>4, <1>a, <2>1, <2>2, <2>3, <2>4
<1>9. CASE ~(t > 0)
  <2>1. page' = p /\ t = 0
    BY <1>2, <1>6, <1>9
  <2>2. SeekWaits(p)
    BY <1>7 DEF SeekWaits
  <2>3. PlaybackInvariant'
    BY <1>2, <1>4, <2>1, <2>2, ReadyStays DEF PlaybackInvariant
  <2> QED BY <1>4, <1>7, <1>a, <2>1, <2>3
<1> QED BY <1>8, <1>9

\* The metadata that comes late.
LEMMA MetadataKeeps ==
  ASSUME PlaybackInvariant, MetadataReceived
  PROVE  PlaybackInvariant' /\ SeekKept(page, page')
<1> DEFINE told == [page EXCEPT !.known = TRUE, !.metadata = TRUE]
           p == WithRegion(told)
           t == StartingTime(config, p.saved, Duration)
           q == UpdatePlayTime(p, t)
<1>1. /\ config \in Config /\ Typed(page) /\ SeekWaits(page) /\ page.phase = "ready"
      /\ page' = q /\ UNCHANGED <<config, storage, acts>>
  BY ConstantsAssumption DEF PlaybackInvariant, MetadataReceived
<1>2. Typed(told) /\ SameSeek(told, page) /\ told.phase = "ready"
  <2>1. /\ DOMAIN told = DOMAIN page /\ SameSeek(told, page) /\ told.phase = page.phase
        /\ told.playerState = page.playerState
        /\ told.startTime = page.startTime /\ told.endTime = page.endTime
        /\ told.native = page.native /\ told.due = page.due /\ told.pos = page.pos
        /\ told.currentTime = page.currentTime /\ told.thumb = page.thumb
        /\ told.timer = page.timer /\ told.button = page.button
        /\ told.emitPlayVideoEvent = page.emitPlayVideoEvent
        /\ told.metadata = TRUE /\ told.known = TRUE /\ told.saved = page.saved
        /\ told.dragging = page.dragging /\ told.frozen = page.frozen
        /\ told.thaws = page.thaws /\ told.lastSeekValue = page.lastSeekValue
    BY <1>1 DEF Typed, Phases, NewPage, SameSeek
  <2> HIDE DEF told
  <2>2. Phases(told)
    BY <1>1, <2>1 DEF Typed, Phases
  <2>3. Times(told)
    BY <1>1, <2>1 DEF Typed, Times, SameSeek
  <2>4. Switches(told)
    BY <1>1, <2>1 DEF Typed, Switches
  <2> QED BY <1>1, <2>1, <2>2, <2>3, <2>4 DEF Typed
<1> HIDE DEF told
<1>3. Typed(p) /\ SameSeek(p, page) /\ p.phase = "ready"
  BY <1>1, <1>2, RegionSet DEF SameSeek
<1> HIDE DEF p
<1>4. t \in Time
  <2>1. p.saved \in Nat /\ Duration \in Nat
    BY <1>3, ConstantsAssumption DEF Typed, Times
  <2>2. t \in Nat /\ (t = 0 \/ t < Duration)
    BY <1>1, <2>1, StartingTimeTyped
  <2> HIDE DEF t
  <2> QED BY <2>1, <2>2 DEF Time
<1> HIDE DEF t
<1>5. Typed(q) /\ SameView(q, p) /\ SameSeek(q, p)
  BY <1>3, <1>4, ThumbTyped
<1> HIDE DEF q
<1>6. SeekWaits(q) /\ q.phase = "ready" /\ SeekKept(page, q)
  BY <1>1, <1>3, <1>5 DEF SeekWaits, SameSeek, SameView, SeekKept, InHand
<1> QED BY <1>1, <1>5, <1>6, ReadyStays DEF PlaybackInvariant

\* What the element does on its own, and a click on it, leave the seeks alone.
LEMMA Moved ==
  ASSUME NEW p, Typed(p), SeekWaits(p), NEW q, DOMAIN q = DOMAIN p,
         q.native \in {"unstarted", "cued", "playing", "buffering", "paused", "ended"},
         q.due \in Seq(PlayerState \ {"UNSTARTED"}), q.pos \in Time, q.known \in BOOLEAN,
         q.playerState \in PlayerState, SameSeek(q, p), q.phase = p.phase,
         q.startTime = p.startTime, q.endTime = p.endTime,
         q.currentTime = p.currentTime, q.timer = p.timer, q.metadata = p.metadata,
         q.saved = p.saved, q.thumb = p.thumb, q.dragging = p.dragging,
         q.frozen = p.frozen, q.thaws = p.thaws, q.lastSeekValue = p.lastSeekValue,
         q.button = p.button, q.emitPlayVideoEvent = p.emitPlayVideoEvent
  PROVE  Typed(q) /\ SeekWaits(q)
<1>1. Phases(q)
  BY DEF Typed, Phases
<1>2. Times(q)
  BY DEF Typed, Times, SameSeek
<1>3. Switches(q)
  BY DEF Typed, Switches
<1>4. SeekWaits(q)
  BY DEF SeekWaits, SameSeek
<1> QED BY <1>1, <1>2, <1>3, <1>4 DEF Typed

\* Playing, stalling and ending.
LEMMA ElementKeeps ==
  ASSUME PlaybackInvariant, StartsPlaying \/ Advances \/ Stalls \/ ReachesEnd
  PROVE  PlaybackInvariant' /\ SeekKept(page, page')
<1> DEFINE q == page'
<1>1. /\ Typed(page) /\ SeekWaits(page) /\ page.phase = "ready"
      /\ UNCHANGED <<config, storage, acts>>
  BY DEF PlaybackInvariant, StartsPlaying, Advances, Stalls, ReachesEnd, ElementActs
<1>2. /\ DOMAIN q = DOMAIN page /\ SameSeek(q, page) /\ q.phase = page.phase
      /\ q.native \in {"playing", "buffering", "ended"}
      /\ q.known \in {page.known, TRUE}
      /\ q.due \in {page.due, Append(page.due, "PLAYING"), Append(page.due, "BUFFERING"),
                    Append(page.due, "ENDED"), Append(Append(page.due, "PAUSED"), "ENDED")}
      /\ q.pos = page.pos \/ (page.pos < Duration /\ q.pos = page.pos + 1)
      /\ q.playerState = page.playerState
      /\ q.startTime = page.startTime /\ q.endTime = page.endTime
      /\ q.currentTime = page.currentTime /\ q.timer = page.timer
      /\ q.metadata = page.metadata /\ q.saved = page.saved
      /\ q.thumb = page.thumb /\ q.dragging = page.dragging
      /\ q.frozen = page.frozen /\ q.thaws = page.thaws
      /\ q.lastSeekValue = page.lastSeekValue /\ q.button = page.button
      /\ q.emitPlayVideoEvent = page.emitPlayVideoEvent
  <2>0. DOMAIN page = DOMAIN NewPage(config, 0)
    BY <1>1 DEF Typed, Phases
  <2>1. CASE StartsPlaying
    BY <2>0, <2>1 DEF NewPage, StartsPlaying, Reports, SameSeek
  <2>2. CASE Advances
    BY <2>0, <2>2 DEF NewPage, Advances, SameSeek
  <2>3. CASE Stalls
    BY <2>0, <2>3 DEF NewPage, Stalls, Reports, SameSeek
  <2>4. CASE ReachesEnd
    BY <2>0, <2>4 DEF NewPage, ReachesEnd, Reports, SameSeek
  <2> QED BY <2>1, <2>2, <2>3, <2>4
<1> HIDE DEF q
<1>3. q.due \in Seq(PlayerState \ {"UNSTARTED"})
  <2>1. page.due \in Seq(PlayerState \ {"UNSTARTED"})
    BY <1>1 DEF Typed, Phases
  <2>2. /\ Append(page.due, "PAUSED") \in Seq(PlayerState \ {"UNSTARTED"})
        /\ Append(page.due, "PLAYING") \in Seq(PlayerState \ {"UNSTARTED"})
        /\ Append(page.due, "BUFFERING") \in Seq(PlayerState \ {"UNSTARTED"})
        /\ Append(page.due, "ENDED") \in Seq(PlayerState \ {"UNSTARTED"})
    BY <2>1 DEF PlayerState
  <2>3. Append(Append(page.due, "PAUSED"), "ENDED") \in Seq(PlayerState \ {"UNSTARTED"})
    BY <2>2 DEF PlayerState
  <2> QED BY <1>2, <2>1, <2>2, <2>3
<1>4. q.pos \in Time
  BY <1>1, <1>2, ConstantsAssumption DEF Typed, Times, Time
<1>5. q.known \in BOOLEAN /\ q.playerState \in PlayerState
  BY <1>1, <1>2 DEF Typed, Phases, Switches
<1>6. Typed(q) /\ SeekWaits(q)
  BY <1>1, <1>2, <1>3, <1>4, <1>5, Moved
<1>7. SeekKept(page, q)
  BY <1>2 DEF SameSeek, SeekKept, InHand
<1> QED BY <1>1, <1>2, <1>6, <1>7, ReadyStays DEF PlaybackInvariant, q

\* The commands of the learner: the button, and a click on a <video>.
LEMMA CommandKeeps ==
  ASSUME PlaybackInvariant, TogglePlayback \/ ClickVideo
  PROVE  PlaybackInvariant' /\ SeekKept(page, page')
<1>1. /\ Typed(page) /\ SeekWaits(page) /\ page.phase = "ready" /\ UNCHANGED <<config, storage>>
      /\ acts' \in 0 .. MaxActs
  BY ConstantsAssumption DEF PlaybackInvariant, TogglePlayback, ClickVideo, LearnerActs
<1>2. ASSUME NEW p, Typed(p), SeekWaits(p), SameSeek(p, page), p.phase = "ready",
             page' = NativePause(p) \/ page' = NativePlay(p)
      PROVE  PlaybackInvariant' /\ SeekKept(page, page')
  <2> DEFINE pause == NativePause(p)
             play == NativePlay(p)
  <2>1. Typed(pause) /\ SameView(pause, p) /\ SameSeek(pause, p)
    BY <1>2, PauseTyped
  <2>2. Typed(play) /\ SameView(play, p) /\ SameSeek(play, p)
    BY <1>2, PlayTyped
  <2>3. page' = pause \/ page' = play
    BY <1>2
  <2> HIDE DEF pause, play
  <2>4. /\ SeekWaits(pause) /\ pause.phase = "ready"
        /\ SeekWaits(play) /\ play.phase = "ready"
        /\ SeekKept(page, pause) /\ SeekKept(page, play)
    BY <1>2, <2>1, <2>2 DEF SeekWaits, SameSeek, SameView, SeekKept, InHand
  <2> QED BY <1>1, <2>1, <2>2, <2>3, <2>4, ReadyStays DEF PlaybackInvariant
<1>3. CASE TogglePlayback
  <2>1. SameSeek(page, page)
    BY DEF SameSeek
  <2> QED BY <1>1, <1>2, <1>3, <2>1 DEF TogglePlayback
<1>4. CASE ClickVideo
  <2>1. PICK state \in {"PAUSED", "PLAYING"} :
          LET p == [page EXCEPT !.playerState = state]
          IN page' = NativePause(p) \/ page' = NativePlay(p)
    BY <1>4 DEF ClickVideo
  <2> DEFINE p == [page EXCEPT !.playerState = state]
  <2>2. /\ DOMAIN p = DOMAIN page /\ SameSeek(p, page) /\ p.phase = page.phase
        /\ p.native = page.native /\ p.known = page.known
        /\ p.due = page.due /\ p.pos = page.pos /\ p.playerState = state
        /\ p.startTime = page.startTime /\ p.endTime = page.endTime
        /\ p.currentTime = page.currentTime /\ p.timer = page.timer
        /\ p.metadata = page.metadata /\ p.saved = page.saved
        /\ p.thumb = page.thumb /\ p.dragging = page.dragging
        /\ p.frozen = page.frozen /\ p.thaws = page.thaws
        /\ p.lastSeekValue = page.lastSeekValue /\ p.button = page.button
        /\ p.emitPlayVideoEvent = page.emitPlayVideoEvent
    BY <1>1 DEF Typed, Phases, NewPage, SameSeek
  <2>3. page' = NativePause(p) \/ page' = NativePlay(p)
    BY <2>1
  <2> HIDE DEF p
  <2>4. /\ page.native \in {"unstarted", "cued", "playing", "buffering", "paused", "ended"}
        /\ page.due \in Seq(PlayerState \ {"UNSTARTED"})
        /\ page.pos \in Time /\ page.known \in BOOLEAN
    BY <1>1 DEF Typed, Phases, Times, Switches
  <2>5. state \in PlayerState
    BY DEF PlayerState
  <2>6. Typed(p) /\ SeekWaits(p) /\ p.phase = "ready"
    BY <1>1, <2>2, <2>4, <2>5, Moved
  <2> QED BY <1>2, <2>2, <2>3, <2>6
<1> QED BY <1>3, <1>4

\* trigger('pause') on PAUSED, which stops the interval, and on ENDED.
LEMMA PausedTyped ==
  ASSUME NEW p, Typed(p), SeekWaits(p)
  PROVE  /\ LET q == OnPause(p)
            IN Typed(q) /\ SeekWaits(q) /\ SameSeek(q, p) /\ q.phase = p.phase
         /\ LET q == OnEnded(p)
            IN Typed(q) /\ SeekWaits(q) /\ SameSeek(q, p) /\ q.phase = p.phase
<1>1. ASSUME NEW r, Typed(r), SeekWaits(r)
      PROVE  LET q == Paused(r)
             IN Typed(q) /\ SeekWaits(q) /\ SameSeek(q, r) /\ q.phase = r.phase
  <2> DEFINE q == Paused(r)
  <2>1. /\ DOMAIN q = DOMAIN r /\ SameView(q, r) /\ SameSeek(q, r)
        /\ q.native = r.native /\ q.due = r.due /\ q.pos = r.pos
        /\ q.currentTime = r.currentTime /\ q.thumb = r.thumb /\ q.timer = r.timer
        /\ q.button = "play" /\ q.emitPlayVideoEvent = TRUE
        /\ q.metadata = r.metadata /\ q.saved = r.saved /\ q.dragging = r.dragging
        /\ q.frozen = r.frozen /\ q.thaws = r.thaws /\ q.lastSeekValue = r.lastSeekValue
    BY <1>1 DEF Typed, Phases, NewPage, Paused, SameView, SameSeek
  <2>2. r.currentTime \in Time /\ r.thumb \in Time /\ r.timer \in BOOLEAN
    BY <1>1 DEF Typed, Times, Switches
  <2> HIDE DEF q
  <2>3. Typed(q)
    BY <1>1, <2>1, <2>2, Handled
  <2>4. SeekWaits(q) /\ q.phase = r.phase
    BY <1>1, <2>1 DEF SeekWaits, SameView, SameSeek
  <2> QED BY <2>1, <2>3, <2>4 DEF q
<1> DEFINE still == StopTimer(p)
<1>6. Typed(still) /\ SeekWaits(still) /\ SameSeek(still, p) /\ still.phase = p.phase
  <2>1. /\ DOMAIN still = DOMAIN p /\ SameView(still, p) /\ SameSeek(still, p)
        /\ still.native = p.native /\ still.due = p.due /\ still.pos = p.pos
        /\ still.currentTime = p.currentTime /\ still.thumb = p.thumb
        /\ still.timer = FALSE /\ still.button = p.button
        /\ still.emitPlayVideoEvent = p.emitPlayVideoEvent
        /\ still.metadata = p.metadata /\ still.saved = p.saved
        /\ still.dragging = p.dragging /\ still.frozen = p.frozen
        /\ still.thaws = p.thaws /\ still.lastSeekValue = p.lastSeekValue
    BY DEF Typed, Phases, NewPage, StopTimer, SameView, SameSeek
  <2>2. /\ p.currentTime \in Time /\ p.thumb \in Time
        /\ p.button \in {"play", "pause"} /\ p.emitPlayVideoEvent \in BOOLEAN
    BY DEF Typed, Phases, Times, Switches
  <2> HIDE DEF still
  <2>3. Typed(still)
    BY <2>1, <2>2, Handled
  <2> QED BY <2>1, <2>3 DEF SeekWaits, SameView, SameSeek
<1> DEFINE shown == UpdatePlayTime(p, DurationOf(p))
<1>2. DurationOf(p) \in Time
  BY ConstantsAssumption DEF DurationOf, Time
<1>3. Typed(shown) /\ SameView(shown, p) /\ SameSeek(shown, p)
  BY <1>2, ThumbTyped
<1>4. OnEnded(p) = Paused(shown) /\ OnPause(p) = Paused(still)
  BY DEF OnEnded, OnPause
<1> HIDE DEF shown, still
<1>5. SeekWaits(shown) /\ shown.phase = p.phase
  BY <1>3 DEF SeekWaits, SameView, SameSeek
<1>7. /\ Typed(OnEnded(p)) /\ SeekWaits(OnEnded(p)) /\ SameSeek(OnEnded(p), shown)
      /\ OnEnded(p).phase = p.phase
  BY <1>1, <1>3, <1>4, <1>5
<1>8. /\ Typed(OnPause(p)) /\ SeekWaits(OnPause(p)) /\ SameSeek(OnPause(p), still)
      /\ OnPause(p).phase = p.phase
  BY <1>1, <1>4, <1>6
<1> QED BY <1>3, <1>6, <1>7, <1>8 DEF SameSeek

\* onStateChange.
LEMMA StateChangeKeeps ==
  ASSUME PlaybackInvariant, OnStateChange
  PROVE  PlaybackInvariant' /\ SeekKept(page, page')
<1> DEFINE state == Head(page.due)
           p == [page EXCEPT !.due = Tail(@), !.playerState = state]
<1>1. /\ Typed(page) /\ SeekWaits(page) /\ page.phase = "ready" /\ page.due # <<>>
      /\ UNCHANGED <<config, acts>>
  BY DEF PlaybackInvariant, OnStateChange
<1>2. page.due \in Seq(PlayerState \ {"UNSTARTED"})
  BY <1>1 DEF Typed, Phases
<1>3. state \in PlayerState /\ Tail(page.due) \in Seq(PlayerState \ {"UNSTARTED"})
  BY <1>1, <1>2
<1>4. storage' \in Time
  BY DEF PlaybackInvariant, OnStateChange, Typed, Times
<1>5. /\ page' = OnPlay(p) \/ page' = OnPause(p) \/ page' = OnEnded(p) \/ page' = p
  BY DEF OnStateChange
<1>6. /\ DOMAIN p = DOMAIN page /\ SameSeek(p, page) /\ p.phase = page.phase
      /\ p.native = page.native /\ p.known = page.known
      /\ p.due = Tail(page.due) /\ p.pos = page.pos /\ p.playerState = state
      /\ p.startTime = page.startTime /\ p.endTime = page.endTime
      /\ p.currentTime = page.currentTime /\ p.timer = page.timer
      /\ p.metadata = page.metadata /\ p.saved = page.saved
      /\ p.thumb = page.thumb /\ p.dragging = page.dragging
      /\ p.frozen = page.frozen /\ p.thaws = page.thaws
      /\ p.lastSeekValue = page.lastSeekValue /\ p.button = page.button
      /\ p.emitPlayVideoEvent = page.emitPlayVideoEvent
  BY <1>1 DEF Typed, Phases, NewPage, SameSeek
<1> HIDE DEF p, state
<1>7. /\ page.native \in {"unstarted", "cued", "playing", "buffering", "paused", "ended"}
      /\ page.pos \in Time /\ page.known \in BOOLEAN
  BY <1>1 DEF Typed, Phases, Times, Switches
<1>8. Typed(p) /\ SeekWaits(p) /\ p.phase = "ready"
  BY <1>1, <1>3, <1>6, <1>7, Moved
<1>9. /\ Typed(OnPlay(p)) /\ SeekWaits(OnPlay(p)) /\ OnPlay(p).phase = "ready"
      /\ SeekKept(p, OnPlay(p))
  BY <1>8, PlayedTyped
<1>10. /\ Typed(OnPause(p)) /\ SeekWaits(OnPause(p)) /\ OnPause(p).phase = "ready"
       /\ Typed(OnEnded(p)) /\ SeekWaits(OnEnded(p)) /\ OnEnded(p).phase = "ready"
       /\ SameSeek(OnPause(p), p) /\ SameSeek(OnEnded(p), p)
  BY <1>8, PausedTyped
<1>11. PICK q \in {OnPlay(p), OnPause(p), OnEnded(p), p} : page' = q
  BY <1>5
<1>12. Typed(q) /\ SeekWaits(q) /\ q.phase = "ready"
  BY <1>8, <1>9, <1>10, <1>11
<1>13. SeekKept(p, q)
  BY <1>9, <1>10, <1>11 DEF SameSeek, SeekKept, InHand
<1>14. SeekKept(page, q)
  BY <1>6, <1>13 DEF SameSeek, SeekKept, InHand
<1> QED BY <1>1, <1>4, <1>11, <1>12, <1>14, ReadyStays DEF PlaybackInvariant

\* The interval, and the debounced seek of the slider.
LEMMA TimerKeeps ==
  ASSUME PlaybackInvariant, Tick \/ OnSeek
  PROVE  PlaybackInvariant' /\ (page.known => SeekKept(page, page'))
<1>1. /\ Typed(page) /\ SeekWaits(page) /\ page.phase = "ready"
      /\ UNCHANGED <<config, storage, acts>>
  BY DEF PlaybackInvariant, Tick, OnSeek
<1>2. CASE Tick
  <2> DEFINE q == Update(page)
  <2>1. Typed(q) /\ SameView(q, page) /\ SameSeek(q, page)
    BY <1>1, UpdateTyped
  <2>2. page' = q
    BY <1>2 DEF Tick
  <2> HIDE DEF q
  <2>3. SeekWaits(q) /\ q.phase = "ready" /\ SeekKept(page, q)
    BY <1>1, <2>1 DEF SeekWaits, SameView, SameSeek, SeekKept, InHand
  <2> QED BY <1>1, <2>1, <2>2, <2>3, ReadyStays DEF PlaybackInvariant
<1>3. CASE OnSeek
  <2> DEFINE p == [page EXCEPT !.ask = NoTime]
             q == SeekTo(p, page.ask)
  <2>1. page' = q /\ page.ask # NoTime
    BY <1>3 DEF OnSeek
  <2>2. page.ask \in Time /\ page.wanted = page.ask
    BY <1>1, <2>1 DEF Typed, Times, SeekWaits
  <2>3. /\ Typed(p) /\ p.ask = NoTime /\ p.wanted = page.wanted /\ p.phase = page.phase
        /\ p.known = page.known
    <3>1. /\ DOMAIN p = DOMAIN page /\ p.ask = NoTime /\ p.wanted = page.wanted
          /\ p.rewind = page.rewind /\ SameView(p, page)
          /\ p.native = page.native /\ p.due = page.due /\ p.pos = page.pos
          /\ p.currentTime = page.currentTime /\ p.timer = page.timer
          /\ p.metadata = page.metadata /\ p.saved = page.saved
          /\ p.thumb = page.thumb /\ p.dragging = page.dragging
          /\ p.frozen = page.frozen /\ p.thaws = page.thaws
          /\ p.lastSeekValue = page.lastSeekValue /\ p.button = page.button
          /\ p.emitPlayVideoEvent = page.emitPlayVideoEvent
      BY <1>1 DEF Typed, Phases, NewPage, SameView
    <3> HIDE DEF p
    <3>2. Phases(p)
      BY <1>1, <3>1 DEF Typed, Phases, SameView
    <3>3. Times(p)
      BY <1>1, <3>1 DEF Typed, Times, SameView
    <3>4. Switches(p)
      BY <1>1, <3>1 DEF Typed, Switches, SameView
    <3> QED BY <3>1, <3>2, <3>3, <3>4 DEF Typed, SameView
  <2> HIDE DEF p
  <2>4. page.ask \in Int
    BY <2>2, ConstantsAssumption DEF Time
  <2>5. /\ Typed(q) /\ SeekWaits(q) /\ q.phase = p.phase
        /\ page.ask \in 0 .. DurationOf(p) =>
             InHand(q) \/ (q.wanted = NoTime /\ q.pos = page.ask)
    BY <2>2, <2>3, <2>4, SeekToTyped DEF SameView
  <2>6. page.known => page.ask \in 0 .. DurationOf(p)
    BY <2>2, <2>3 DEF DurationOf, Time
  <2> HIDE DEF q
  <2>7. page.known => SeekKept(page, q)
    BY <2>2, <2>5, <2>6 DEF SeekKept
  <2> QED BY <1>1, <2>1, <2>3, <2>5, <2>7, ReadyStays DEF PlaybackInvariant
<1> QED BY <1>2, <1>3

\* What the slider keeps, and the seek it asks for.
LEMMA Slid ==
  ASSUME NEW p, Typed(p), NEW q, DOMAIN q = DOMAIN p, SameView(q, p),
         q.native = p.native, q.due = p.due, q.pos = p.pos, q.rewind = p.rewind,
         q.thumb \in Time, q.lastSeekValue \in Time \cup {NoTime},
         q.ask \in Time \cup {NoTime}, q.wanted \in Time \cup {NoTime},
         q.dragging \in BOOLEAN, q.frozen \in BOOLEAN, q.thaws \in 0 .. 1,
         q.currentTime = p.currentTime, q.timer = p.timer, q.button = p.button,
         q.emitPlayVideoEvent = p.emitPlayVideoEvent,
         q.metadata = p.metadata, q.saved = p.saved
  PROVE  Typed(q)
<1>1. Phases(q)
  BY DEF Typed, Phases, SameView
<1>2. Times(q)
  BY DEF Typed, Times, SameView
<1>3. Switches(q)
  BY DEF Typed, Switches, SameView
<1> QED BY <1>1, <1>2, <1>3 DEF Typed

\* The slider, and its timer.
LEMMA SliderKeeps ==
  ASSUME PlaybackInvariant, (\E t \in Time : OnSlide(t)) \/ OnStop \/ Thaw
  PROVE  PlaybackInvariant' /\ SeekKept(page, page')
<1> DEFINE q == page'
<1>1. Typed(page) /\ SeekWaits(page) /\ acts \in 0 .. MaxActs /\ MaxActs \in Nat
  BY ConstantsAssumption DEF PlaybackInvariant
<1>2. /\ page.thumb \in Time /\ page.lastSeekValue \in Time \cup {NoTime}
      /\ page.ask \in Time \cup {NoTime} /\ page.wanted \in Time \cup {NoTime}
      /\ page.dragging \in BOOLEAN /\ page.frozen \in BOOLEAN /\ page.thaws \in 0 .. 1
      /\ DOMAIN page = DOMAIN NewPage(config, 0)
  BY <1>1 DEF Typed, Phases, Times, Switches
<1> DEFINE Kept == /\ DOMAIN q = DOMAIN page /\ SameView(q, page)
                   /\ q.native = page.native /\ q.due = page.due /\ q.pos = page.pos
                   /\ q.rewind = page.rewind /\ q.currentTime = page.currentTime
                   /\ q.timer = page.timer /\ q.button = page.button
                   /\ q.emitPlayVideoEvent = page.emitPlayVideoEvent
                   /\ q.metadata = page.metadata /\ q.saved = page.saved
           Slides == /\ q.thumb \in Time /\ q.lastSeekValue \in Time \cup {NoTime}
                     /\ \/ q.ask \in Time /\ q.wanted = q.ask
                        \/ q.ask = page.ask /\ q.wanted = page.wanted
                     /\ q.dragging \in BOOLEAN /\ q.frozen \in BOOLEAN /\ q.thaws \in 0 .. 1
           Others == page.phase = "ready" /\ UNCHANGED <<config, storage>> /\ acts' \in 0 .. MaxActs
<1>3. Kept /\ Slides /\ Others
  <2>1. ASSUME NEW t \in Time, OnSlide(t) PROVE Kept /\ Slides /\ Others
    <3>1. Kept
      BY <1>2, <2>1 DEF NewPage, OnSlide, SameView
    <3>2. /\ q.thumb = t /\ q.lastSeekValue = t /\ q.ask = t /\ q.wanted = t
          /\ q.dragging = TRUE /\ q.frozen = TRUE /\ q.thaws = page.thaws
      BY <1>2, <2>1 DEF NewPage, OnSlide
    <3>3. LearnerActs /\ UNCHANGED storage
      BY <2>1 DEF OnSlide
    <3>4. acts' \in 0 .. MaxActs
      BY <1>1, <3>3 DEF LearnerActs
    <3>5. Others
      BY <3>3, <3>4 DEF LearnerActs
    <3> QED BY <1>2, <3>1, <3>2, <3>5
  <2>2. CASE OnStop
    <3>1. Kept
      BY <1>2, <2>2 DEF NewPage, OnStop, SameView
    <3>2. /\ q.thumb = page.thumb /\ q.lastSeekValue = page.lastSeekValue
          /\ q.ask = IF page.lastSeekValue # page.thumb THEN page.thumb ELSE page.ask
          /\ q.wanted = IF page.lastSeekValue # page.thumb THEN page.thumb ELSE page.wanted
          /\ q.dragging = FALSE /\ q.frozen = TRUE /\ q.thaws = 1
      BY <1>2, <2>2 DEF NewPage, OnStop
    <3>3. Others
      BY <1>1, <2>2 DEF OnStop
    <3> HIDE DEF Kept, Others
    <3>4. q.thumb \in Time /\ q.lastSeekValue \in Time \cup {NoTime} /\ q.thaws \in 0 .. 1
      BY <1>2, <3>2
    <3>5. \/ q.ask \in Time /\ q.wanted = q.ask
          \/ q.ask = page.ask /\ q.wanted = page.wanted
      BY <1>2, <3>2
    <3>6. q.dragging \in BOOLEAN /\ q.frozen \in BOOLEAN
      BY <1>2, <3>2
    <3> QED BY <3>1, <3>3, <3>4, <3>5, <3>6
  <2>3. CASE Thaw
    <3>1. Kept
      BY <1>2, <2>3 DEF NewPage, Thaw, SameView
    <3>2. /\ q.thumb = page.thumb /\ q.lastSeekValue = page.lastSeekValue
          /\ q.ask = page.ask /\ q.wanted = page.wanted /\ q.dragging = page.dragging
          /\ q.frozen = FALSE /\ q.thaws = page.thaws - 1 /\ page.thaws > 0
      BY <1>2, <2>3 DEF NewPage, Thaw
    <3>3. Others
      BY <1>1, <2>3 DEF Thaw
    <3> HIDE DEF Kept, Others
    <3>4. q.thumb \in Time /\ q.lastSeekValue \in Time \cup {NoTime} /\ q.thaws \in 0 .. 1
      BY <1>2, <3>2
    <3>5. \/ q.ask \in Time /\ q.wanted = q.ask
          \/ q.ask = page.ask /\ q.wanted = page.wanted
      BY <1>2, <3>2
    <3>6. q.dragging \in BOOLEAN /\ q.frozen \in BOOLEAN
      BY <1>2, <3>2
    <3> QED BY <3>1, <3>3, <3>4, <3>5, <3>6
  <2> QED BY <2>1, <2>2, <2>3
<1> HIDE DEF q
<1>5. q.ask \in Time \cup {NoTime} /\ q.wanted \in Time \cup {NoTime}
  BY <1>2, <1>3
<1>6. Typed(q)
  BY <1>1, <1>3, <1>5, Slid
<1>7. SeekWaits(q) /\ q.phase = "ready"
  BY <1>1, <1>3 DEF SeekWaits, SameView
<1>8. SeekKept(page, q)
  <2>1. NoTime \notin Time
    BY DEF Time, NoTime
  <2> QED BY <1>3, <2>1 DEF SeekKept, InHand
<1> QED BY <1>1, <1>3, <1>6, <1>7, <1>8, ReadyStays DEF PlaybackInvariant, q

\* Leaving the unit saves the position for the player that is built on the return.
LEMMA UnitKeeps == ASSUME PlaybackInvariant, Destroy \/ Return PROVE PlaybackInvariant'
<1>1. /\ config \in Configs /\ config \in Config /\ config' = config
      /\ storage' \in Time /\ acts' \in 0 .. MaxActs
  BY ConstantsAssumption
  DEF PlaybackInvariant, Destroy, Return, LearnerActs, SavedOnLeave, Typed, Times
<1> DEFINE built == NewPage(config, storage')
           away == [built EXCEPT !.phase = "away"]
<1>2. page' = away \/ page' = built
  BY DEF Destroy, Return
<1>3. Typed(built) /\ SeekWaits(built) /\ built.phase = "loading"
  BY <1>1, NewPageTyped
<1>4. /\ built.pos = 0 /\ built.playerState = "UNSTARTED" /\ built.timer = FALSE
      /\ built.ask = NoTime /\ built.wanted = NoTime
      /\ built.saved = SavedVideoPosition(config, storage') /\ built.known = config.known
  BY DEF NewPage
<1> HIDE DEF built
<1>5. /\ DOMAIN away = DOMAIN built /\ away.phase = "away"
      /\ away.native = built.native /\ away.due = built.due /\ away.pos = built.pos
      /\ away.playerState = built.playerState /\ away.known = built.known
      /\ SameSeek(away, built)
      /\ away.startTime = built.startTime /\ away.endTime = built.endTime
      /\ away.currentTime = built.currentTime /\ away.timer = built.timer
      /\ away.metadata = built.metadata /\ away.saved = built.saved
      /\ away.thumb = built.thumb /\ away.dragging = built.dragging
      /\ away.frozen = built.frozen /\ away.thaws = built.thaws
      /\ away.lastSeekValue = built.lastSeekValue /\ away.button = built.button
      /\ away.emitPlayVideoEvent = built.emitPlayVideoEvent
  BY <1>3 DEF Typed, Phases, NewPage, SameSeek
<1> HIDE DEF away
<1>6. Typed(away) /\ SeekWaits(away)
  <2>1. Phases(away)
    BY <1>3, <1>5 DEF Typed, Phases
  <2>2. Times(away)
    BY <1>3, <1>5 DEF Typed, Times, SameSeek
  <2>3. Switches(away)
    BY <1>3, <1>5 DEF Typed, Switches
  <2> QED BY <1>3, <1>5, <2>1, <2>2, <2>3 DEF Typed, SeekWaits, SameSeek
<1>7. PICK q \in {away, built} : page' = q
  BY <1>2
<1>8. /\ Typed(q) /\ SeekWaits(q) /\ q.phase # "ready"
      /\ q.pos = 0 /\ q.playerState = "UNSTARTED" /\ q.timer = FALSE
      /\ q.ask = NoTime /\ q.wanted = NoTime
      /\ q.saved = SavedVideoPosition(config, storage') /\ q.known = config.known
  BY <1>3, <1>4, <1>5, <1>6, <1>7 DEF SameSeek
<1>9. Typed(page)' /\ SeekWaits(page)'
  BY <1>1, <1>7, <1>8 DEF Typed, Phases, Times, Switches, NewPage, SeekWaits
<1>10. Untouched(page)'
  BY <1>1, <1>7, <1>8 DEF Untouched, SavedVideoPosition
<1> QED BY <1>1, <1>9, <1>10 DEF PlaybackInvariant

\* The first state.
LEMMA PlaybackStarts == Init => PlaybackInvariant
<1> SUFFICES ASSUME Init PROVE PlaybackInvariant
  OBVIOUS
<1>1. config \in Configs /\ config \in Config /\ 0 \in Time /\ 0 \in 0 .. MaxActs
  BY ConstantsAssumption DEF Init, Time
<1>2. Typed(page) /\ SeekWaits(page) /\ page = NewPage(config, 0)
  BY <1>1, NewPageTyped DEF Init
<1>3. Untouched(page)
  BY <1>2 DEF Untouched, NewPage, Init
<1> QED BY <1>1, <1>2, <1>3 DEF PlaybackInvariant, Init

\* Every step keeps the invariant.
LEMMA PlaybackKeeps == ASSUME PlaybackInvariant, [Next]_vars PROVE PlaybackInvariant'
<1>1. CASE UNCHANGED vars
  <2>1. Typed(page)' /\ SeekWaits(page)'
    BY <1>1 DEF vars, PlaybackInvariant, Typed, Phases, Times, Switches, NewPage, SeekWaits
  <2>2. page'.phase # "ready" => Untouched(page)'
    BY <1>1 DEF vars, PlaybackInvariant, Untouched, SavedVideoPosition
  <2> QED BY <1>1, <2>1, <2>2 DEF vars, PlaybackInvariant
<1> QED BY <1>1, ReadyStarts, MetadataKeeps, ElementKeeps, StateChangeKeeps, TimerKeeps,
           CommandKeeps, SliderKeeps, UnitKeeps DEF Next

-----------------------------------------------------------------------------
(***************************************************************************)
(* Theorems.                                                               *)
(***************************************************************************)
\* However the reports of the element, the timers and the learner interleave,
\* the page is typed, and the debounce holds the seek asked for last.
THEOREM PlayerAndSliderAgree == Spec => []PlaybackInvariant
<1> QED BY PlaybackStarts, PlaybackKeeps, PTL DEF Spec

\* onSeek, seekTo and 'play.seek' lose no seek once the duration is known.
THEOREM LastSeekIsKept == Spec => SeekNotLost
<1> DEFINE Kept == page.phase = "ready" /\ page'.phase = "ready" /\ page.known /\ InHand(page) =>
                     InHand(page') \/ (page'.wanted = NoTime /\ page'.pos = page.wanted)
<1>1. ASSUME PlaybackInvariant, Next PROVE Kept
  <2>1. SUFFICES ASSUME page.phase = "ready", page'.phase = "ready", page.known
                 PROVE  SeekKept(page, page')
    BY DEF SeekKept
  <2>2. ~OnReady
    BY <2>1 DEF OnReady
  <2>3. ~Destroy /\ ~Return
    <3>1. ~Return
      BY <2>1 DEF Return
    <3>2. ASSUME Destroy PROVE FALSE
      <4>1. page' = [NewPage(config, storage') EXCEPT !.phase = "away"]
        BY <3>2 DEF Destroy
      <4>2. page'.phase = "away"
        BY <4>1 DEF NewPage
      <4> QED BY <2>1, <4>2
    <3> QED BY <3>1, <3>2
  <2> QED BY <1>1, <2>1, <2>2, <2>3, MetadataKeeps, ElementKeeps, StateChangeKeeps,
             TimerKeeps, CommandKeeps, SliderKeeps DEF Next
<1>2. PlaybackInvariant /\ [Next]_vars => [Kept]_vars
  BY <1>1
<1>3. [][Kept]_vars => SeekNotLost
  BY PTL DEF SeekNotLost
<1> QED BY <1>2, <1>3, PlayerAndSliderAgree, PTL DEF Spec

\* figureOutStartingTime and onReady, for every region and saved position.
THEOREM StartIsInside == Spec => StartsInsideRegion
<1> DEFINE Inside == OnReady /\ page.known =>
                       /\ page'.pos < Duration
                       /\ page'.startTime <= page'.pos
                       /\ page'.endTime # NoTime => page'.pos < page'.endTime
<1>1. ASSUME PlaybackInvariant PROVE Inside
  <2> SUFFICES ASSUME OnReady, page.known
               PROVE  /\ page'.pos < Duration
                      /\ page'.startTime <= page'.pos
                      /\ page'.endTime # NoTime => page'.pos < page'.endTime
    OBVIOUS
  <2>1. /\ config \in Config /\ page.saved \in Nat
        /\ DurationOf(page) = Duration /\ Duration \in Nat \ {0}
    BY <1>1, ConstantsAssumption DEF PlaybackInvariant, Typed, Times, DurationOf
  <2>2. /\ page'.pos = StartingTime(config, page.saved, Duration)
        /\ page'.startTime = StartTimeOf(config, Duration)
        /\ page'.endTime = RegionEnd(config, Duration)
    BY <1>1, <2>1, ReadyStarts
  <2>3. /\ page'.pos \in Nat /\ (page'.pos = 0 \/ page'.pos < Duration)
        /\ page'.startTime <= page'.pos
        /\ page'.endTime # NoTime => page'.pos < page'.endTime
    BY <2>1, <2>2, StartingTimeTyped
  <2> QED BY <2>1, <2>3
<1>2. PlaybackInvariant /\ [Next]_vars => [Inside]_vars
  BY <1>1
<1>3. [][Inside]_vars => StartsInsideRegion
  BY PTL DEF StartsInsideRegion
<1> QED BY <1>2, <1>3, PlayerAndSliderAgree, PTL DEF Spec

\* The position that Destroy left in the storage is the one onReady seeks to.
THEOREM ReturnsToWhereLeft == Spec => ResumesWhereLeft
<1> DEFINE Resumes == OnReady /\ page.known /\ storage # 0 =>
                        \/ page'.pos = storage
                        \/ storage <= page'.startTime
                        \/ storage >= Duration - 1
                        \/ page'.endTime # NoTime /\ storage >= page'.endTime
<1>1. ASSUME PlaybackInvariant PROVE Resumes
  <2> SUFFICES ASSUME OnReady, page.known, storage # 0
               PROVE  \/ page'.pos = storage
                      \/ storage <= page'.startTime
                      \/ storage >= Duration - 1
                      \/ page'.endTime # NoTime /\ storage >= page'.endTime
    OBVIOUS
  <2>1. /\ config \in Config /\ page.saved \in Nat
        /\ DurationOf(page) = Duration /\ Duration \in Nat
    BY <1>1, ConstantsAssumption DEF PlaybackInvariant, Typed, Times, DurationOf
  <2>2. page.saved = storage
    <3>1. Untouched(page)
      BY <1>1 DEF PlaybackInvariant, OnReady
    <3> QED BY <3>1 DEF Untouched, SavedVideoPosition
  <2>3. /\ page'.pos = StartingTime(config, storage, Duration)
        /\ page'.startTime = StartTimeOf(config, Duration)
        /\ page'.endTime = RegionEnd(config, Duration)
    BY <1>1, <2>1, <2>2, ReadyStarts
  <2> QED BY <2>1, <2>2, <2>3, StartingTimeTyped
<1>2. PlaybackInvariant /\ [Next]_vars => [Resumes]_vars
  BY <1>1
<1>3. [][Resumes]_vars => ResumesWhereLeft
  BY PTL DEF ResumesWhereLeft
<1> QED BY <1>2, <1>3, PlayerAndSliderAgree, PTL DEF Spec

-----------------------------------------------------------------------------
(***************************************************************************)
(* What the page shows, and what is still to be reported.  The element is  *)
(* playing only if "PLAYING" is the last report, made or due; a <video>    *)
(* that is not, and a YouTube video that was paused, has reported PAUSED   *)
(* last, with the ENDED of a <video> after it.                             *)
(***************************************************************************)
LastIs(d, s) == d # <<>> /\ d[Len(d)] = s

\* n: what the element does; d: the reports that are due; s, b, t, e: the state
\* of the player, the button, the interval, and what the log expects next.
Reported(n, d, s, b, t, e) ==
  /\ n = "playing" =>
       \/ d = <<>> /\ s = "PLAYING" /\ b = "pause" /\ t /\ ~e
       \/ LastIs(d, "PLAYING")
  /\ n = "paused" \/ (n = "ended" /\ ~IsYoutube) =>
       \/ d = <<>> /\ s # "PLAYING" /\ b = "play" /\ ~t /\ e
       \/ LastIs(d, "PAUSED")
       \/ ~IsYoutube /\ Len(d) = 1 /\ LastIs(d, "ENDED") /\ s # "PLAYING" /\ ~t
       \/ ~IsYoutube /\ Len(d) > 1 /\ LastIs(d, "ENDED") /\ d[Len(d) - 1] = "PAUSED"

\* What a handler does to the element is reported, if it matters.
Moves(p, q) ==
  \/ q.native = p.native /\ q.due = p.due
  \/ q.native \in {"buffering", "cued"}
  \/ q.native = "paused" /\ LastIs(q.due, "PAUSED")
  \/ ~IsYoutube /\ p.native = "ended" /\ q.native = "paused" /\ q.due = p.due

Emits(p, q) ==
  \/ q.emitPlayVideoEvent = p.emitPlayVideoEvent
  \/ q.emitPlayVideoEvent = TRUE /\ q.native # "playing"

SameFace(p, q) == q.playerState = p.playerState /\ q.button = p.button

LEMMA LastAppended ==
  ASSUME NEW S, NEW d \in Seq(S), NEW s \in S
  PROVE  /\ LastIs(Append(d, s), s)
         /\ Append(d, s) # <<>> /\ Len(Append(d, s)) = Len(d) + 1
         /\ \A i \in 1 .. Len(d) : Append(d, s)[i] = d[i]
BY DEF LastIs

LEMMA MovesOn ==
  ASSUME NEW p, NEW q, NEW r, Moves(p, q), Moves(q, r), Emits(p, q), Emits(q, r)
  PROVE  Moves(p, r) /\ Emits(p, r)
<1>1. Moves(p, r)
  BY DEF Moves
<1>2. r.native = "playing" => q.native = "playing"
  BY DEF Moves
<1>3. Emits(p, r)
  BY <1>2 DEF Emits
<1> QED BY <1>1, <1>3

LEMMA StaysReported ==
  ASSUME NEW p, NEW q, Moves(p, q), NEW s, NEW b, NEW t, NEW e, NEW f,
         Reported(p.native, p.due, s, b, t, e),
         f = e \/ (f = TRUE /\ q.native # "playing")
  PROVE  Reported(q.native, q.due, s, b, t, f)
<1>1. CASE q.native = p.native /\ q.due = p.due
  BY <1>1 DEF Reported
<1>2. CASE q.native \in {"buffering", "cued"}
  BY <1>2 DEF Reported
<1>3. CASE q.native = "paused" /\ LastIs(q.due, "PAUSED")
  BY <1>3 DEF Reported
<1>4. CASE ~IsYoutube /\ p.native = "ended" /\ q.native = "paused" /\ q.due = p.due
  BY <1>4 DEF Reported
<1> QED BY <1>1, <1>2, <1>3, <1>4 DEF Moves

\* The part of the type that matters here.
Paged(p) ==
  /\ DOMAIN p = DOMAIN NewPage(config, 0)
  /\ p.due \in Seq(PlayerState \ {"UNSTARTED"})

\* What a handler that only moves the element leaves alone.
MovesOnly(p, q) ==
  /\ Paged(q) /\ Moves(p, q) /\ SameFace(p, q) /\ q.timer = p.timer
  /\ q.emitPlayVideoEvent = p.emitPlayVideoEvent

\* The commands of the element.
LEMMA PauseMoves ==
  ASSUME NEW p, Paged(p)
  PROVE  MovesOnly(p, NativePause(p)) /\ NativePause(p).native # "playing"
<1> DEFINE q == NativePause(p)
<1>1. /\ LastIs(Append(p.due, "PAUSED"), "PAUSED")
      /\ Append(p.due, "PAUSED") \in Seq(PlayerState \ {"UNSTARTED"})
  BY LastAppended DEF Paged, PlayerState
<1>2. CASE p.native \in {"playing", "buffering"}
  <2>1. /\ q.native = "paused" /\ q.due = Append(p.due, "PAUSED") /\ SameFace(p, q)
        /\ q.timer = p.timer /\ q.emitPlayVideoEvent = p.emitPlayVideoEvent
        /\ DOMAIN q = DOMAIN p
    BY <1>2 DEF Paged, NewPage, NativePause, Reports, SameFace
  <2> HIDE DEF q
  <2>2. Moves(p, q) /\ q.native # "playing" /\ Paged(q)
    BY <1>1, <2>1 DEF Moves, Paged
  <2> QED BY <2>1, <2>2 DEF q, MovesOnly
<1>3. CASE p.native \notin {"playing", "buffering"}
  BY <1>3 DEF NativePause, Moves, SameFace, MovesOnly
<1> QED BY <1>2, <1>3

LEMMA PlayMoves ==
  ASSUME NEW p, Paged(p)
  PROVE  LET q == NativePlay(p)
         IN \/ q.native = "buffering"
            \/ p.native = "playing" /\ q = p
BY DEF Paged, NewPage, NativePlay, Reports

LEMMA SeekMoves ==
  ASSUME NEW p, Paged(p), NEW t
  PROVE  LET q == NativeSeek(p, t)
         IN MovesOnly(p, q) /\ (p.native # "ended" => q.native = p.native /\ q.due = p.due)
<1> DEFINE q == NativeSeek(p, t)
<1>1. Append(p.due, "BUFFERING") \in Seq(PlayerState \ {"UNSTARTED"})
  BY LastAppended DEF Paged, PlayerState
<1>2. /\ SameFace(p, q) /\ q.timer = p.timer /\ DOMAIN q = DOMAIN p
      /\ q.emitPlayVideoEvent = p.emitPlayVideoEvent
      /\ \/ q.native = p.native /\ q.due = p.due
         \/ p.native = "ended" /\ q.native = "buffering" /\ q.due = Append(p.due, "BUFFERING")
         \/ ~IsYoutube /\ p.native = "ended" /\ q.native = "paused" /\ q.due = p.due
  BY DEF Paged, NewPage, NativeSeek, Reports, SameFace
<1> HIDE DEF q
<1>3. Moves(p, q) /\ Paged(q)
  BY <1>1, <1>2 DEF Moves, Paged
<1> QED BY <1>2, <1>3 DEF q, MovesOnly

LEMMA CueMoves ==
  ASSUME NEW p, Paged(p), NEW t
  PROVE  MovesOnly(p, NativeCue(p, t))
<1> DEFINE q == NativeCue(p, t)
<1>1. Append(p.due, "CUED") \in Seq(PlayerState \ {"UNSTARTED"})
  BY LastAppended DEF Paged, PlayerState
<1>2. /\ SameFace(p, q) /\ q.timer = p.timer /\ q.native = "cued" /\ DOMAIN q = DOMAIN p
      /\ q.emitPlayVideoEvent = p.emitPlayVideoEvent /\ q.due = Append(p.due, "CUED")
  BY DEF Paged, NewPage, NativeCue, Reports, SameFace
<1> HIDE DEF q
<1> QED BY <1>1, <1>2 DEF q, MovesOnly, Moves, Paged

\* The handlers that do not touch what is reported.
SameReports(p, q) ==
  /\ Paged(q) /\ SameFace(p, q) /\ q.native = p.native /\ q.due = p.due /\ q.timer = p.timer
  /\ q.emitPlayVideoEvent = p.emitPlayVideoEvent

LEMMA ThumbMoves == ASSUME NEW p, Paged(p), NEW t PROVE SameReports(p, UpdatePlayTime(p, t))
BY DEF Paged, UpdatePlayTime, SameReports, SameFace, NewPage

LEMMA UpdateMoves ==
  ASSUME NEW p, Paged(p)
  PROVE  LET q == Update(p)
         IN Paged(q) /\ Moves(p, q) /\ Emits(p, q) /\ SameFace(p, q) /\ q.timer = p.timer
<1> DEFINE read == [p EXCEPT !.currentTime = p.pos]
           shown == UpdatePlayTime(read, p.pos)
           paused == NativePause(shown)
           stopped == Stopped(paused)
<1>1. Update(p) = IF shown.endTime # NoTime /\ shown.endTime <= shown.currentTime
                  THEN stopped ELSE shown
  BY DEF Update
<1>2. SameReports(p, read)
  BY DEF Paged, NewPage, SameReports, SameFace
<1> HIDE DEF read
<1>3. SameReports(p, shown)
  <2>1. Paged(read) /\ SameReports(read, shown)
    BY <1>2, ThumbMoves DEF SameReports
  <2> HIDE DEF shown
  <2> QED BY <1>2, <2>1 DEF SameReports, SameFace
<1> HIDE DEF shown
<1>4. MovesOnly(shown, paused) /\ paused.native # "playing"
  BY <1>3, PauseMoves DEF SameReports
<1> HIDE DEF paused
<1>5. /\ stopped.native = paused.native /\ stopped.due = paused.due /\ Paged(stopped)
      /\ SameFace(paused, stopped) /\ stopped.timer = paused.timer
      /\ stopped.emitPlayVideoEvent = TRUE
  BY <1>4 DEF MovesOnly, Paged, Stopped, NewPage, SameFace
<1> HIDE DEF stopped
<1>6. /\ Paged(stopped) /\ Moves(p, stopped) /\ Emits(p, stopped) /\ SameFace(p, stopped)
      /\ stopped.timer = p.timer
  BY <1>3, <1>4, <1>5 DEF Moves, Emits, SameFace, SameReports, MovesOnly
<1>7. /\ Paged(shown) /\ Moves(p, shown) /\ Emits(p, shown) /\ SameFace(p, shown)
      /\ shown.timer = p.timer
  BY <1>3 DEF Moves, Emits, SameReports
<1> QED BY <1>1, <1>6, <1>7

LEMMA RunTimerMoves ==
  ASSUME NEW p, Paged(p), p.timer \in BOOLEAN
  PROVE  LET q == RunTimer(p)
         IN Paged(q) /\ Moves(p, q) /\ Emits(p, q) /\ SameFace(p, q) /\ q.timer = TRUE
<1> DEFINE on == [p EXCEPT !.timer = TRUE]
<1>1. RunTimer(p) = IF p.timer THEN p ELSE Update(on)
  BY DEF RunTimer
<1>2. /\ Paged(on) /\ SameFace(p, on) /\ on.native = p.native /\ on.due = p.due
      /\ on.emitPlayVideoEvent = p.emitPlayVideoEvent /\ on.timer = TRUE
  BY DEF Paged, NewPage, SameFace
<1> HIDE DEF on
<1>3. CASE p.timer
  <2>1. RunTimer(p) = p /\ p.timer = TRUE
    BY <1>1, <1>3
  <2> QED BY <2>1 DEF Moves, Emits, SameFace
<1>4. CASE ~p.timer
  <2> DEFINE q == Update(on)
  <2>1. Paged(q) /\ Moves(on, q) /\ Emits(on, q) /\ SameFace(on, q) /\ q.timer = on.timer
    BY <1>2, UpdateMoves
  <2>2. RunTimer(p) = q
    BY <1>1, <1>4
  <2> HIDE DEF q
  <2> QED BY <1>2, <2>1, <2>2 DEF Moves, Emits, SameFace
<1> QED BY <1>3, <1>4

LEMMA SeekToMoves ==
  ASSUME NEW p, Paged(p), p.timer \in BOOLEAN, NEW t
  PROVE  LET q == SeekTo(p, t)
         IN /\ Paged(q) /\ Moves(p, q) /\ Emits(p, q) /\ SameFace(p, q)
            /\ q.timer = p.timer \/ (q.timer = TRUE /\ IsPlaying(p))
<1> DEFINE begun == [p EXCEPT !.rewind = NoTime, !.timer = @ /\ ~IsPlaying(p)]
           waits == [begun EXCEPT !.rewind = t]
           moved == IF IsYoutube /\ p.playerState \in {"UNSTARTED", "CUED"} THEN NativeCue(begun, t)
                    ELSE IF IsYoutube /\ p.playerState = "BUFFERING" THEN waits
                    ELSE NativeSeek(begun, t)
           shown == UpdatePlayTime(moved, t)
           ticking == IF IsPlaying(p) THEN RunTimer(shown) ELSE shown
           done == [ticking EXCEPT !.currentTime = t]
<1>1. SeekTo(p, t) = IF t > DurationOf(p) \/ t < 0 THEN p ELSE done
  BY DEF SeekTo
<1>3. /\ Paged(begun) /\ SameFace(p, begun) /\ begun.native = p.native /\ begun.due = p.due
      /\ begun.timer = (p.timer /\ ~IsPlaying(p))
      /\ begun.emitPlayVideoEvent = p.emitPlayVideoEvent
  BY DEF Paged, NewPage, SameFace
<1> HIDE DEF begun
<1>4. MovesOnly(begun, waits)
  BY <1>3 DEF Paged, NewPage, SameFace, MovesOnly, Moves
<1> HIDE DEF waits
<1>5. MovesOnly(begun, moved)
  BY <1>3, <1>4, CueMoves, SeekMoves
<1> HIDE DEF moved
<1>6. SameReports(moved, shown)
  BY <1>5, ThumbMoves DEF MovesOnly
<1> HIDE DEF shown
<1>7. shown.timer \in BOOLEAN /\ Paged(shown)
  BY <1>3, <1>5, <1>6 DEF MovesOnly, SameReports
<1>8. /\ Paged(ticking) /\ Moves(shown, ticking) /\ Emits(shown, ticking)
      /\ SameFace(shown, ticking)
      /\ ticking.timer = IF IsPlaying(p) THEN TRUE ELSE shown.timer
  <2>1. CASE IsPlaying(p)
    BY <1>7, <2>1, RunTimerMoves
  <2>2. CASE ~IsPlaying(p)
    BY <1>7, <2>2 DEF Moves, Emits, SameFace
  <2> QED BY <2>1, <2>2
<1> HIDE DEF ticking
<1>9. SameReports(ticking, done)
  BY <1>8 DEF Paged, NewPage, SameReports, SameFace
<1> HIDE DEF done
<1>10. /\ Paged(done) /\ Moves(p, done) /\ Emits(p, done) /\ SameFace(p, done)
       /\ done.timer = p.timer \/ (done.timer = TRUE /\ IsPlaying(p))
  <2>1. Moves(p, moved) /\ Emits(p, moved) /\ SameFace(p, moved)
    BY <1>3, <1>5 DEF MovesOnly, Moves, Emits, SameFace
  <2>2. Moves(moved, ticking) /\ Emits(moved, ticking) /\ SameFace(moved, ticking)
    BY <1>6, <1>8 DEF SameReports, Moves, Emits, SameFace
  <2>3. Moves(p, ticking) /\ Emits(p, ticking) /\ SameFace(p, ticking)
    <3>1. Moves(p, ticking) /\ Emits(p, ticking)
      BY <2>1, <2>2, MovesOn
    <3> QED BY <2>1, <2>2, <3>1 DEF SameFace
  <2>4. ticking.timer = IF IsPlaying(p) THEN TRUE ELSE p.timer
    BY <1>3, <1>5, <1>6, <1>8 DEF MovesOnly, SameReports
  <2> QED BY <1>9, <2>3, <2>4 DEF SameReports, Moves, Emits, SameFace
<1>11. Moves(p, p) /\ Emits(p, p) /\ SameFace(p, p)
  BY DEF Moves, Emits, SameFace
<1> QED BY <1>1, <1>10, <1>11

-----------------------------------------------------------------------------
\* Reported, of a page.
Tells(p) ==
  Reported(p.native, p.due, p.playerState, p.button, p.timer, p.emitPlayVideoEvent)

LEMMA MovesTell ==
  ASSUME NEW p, Tells(p), NEW q, Moves(p, q), Emits(p, q), SameFace(p, q),
         q.timer = p.timer \/ (q.timer = TRUE /\ p.playerState = "PLAYING"),
         p.timer \in BOOLEAN
  PROVE  Tells(q)
<1>1. Reported(q.native, q.due, p.playerState, p.button, p.timer, q.emitPlayVideoEvent)
  BY StaysReported DEF Tells, Emits
<1>2. Reported(q.native, q.due, p.playerState, p.button, q.timer, q.emitPlayVideoEvent)
  <2>1. CASE q.timer = p.timer
    BY <1>1, <2>1
  <2>2. CASE q.timer = TRUE /\ p.playerState = "PLAYING"
    BY <1>1, <2>2 DEF Reported
  <2> QED BY <2>1, <2>2
<1> QED BY <1>2 DEF Tells, SameFace

LEMMA PlayTells ==
  ASSUME NEW p, Paged(p), Tells(p)
  PROVE  Tells(NativePause(p)) /\ Tells(NativePlay(p))
<1>1. Tells(NativePause(p))
  BY PauseMoves, StaysReported DEF Tells, MovesOnly, SameFace
<1>2. Tells(NativePlay(p))
  <2>1. CASE NativePlay(p).native = "buffering"
    BY <2>1 DEF Tells, Reported
  <2>2. CASE NativePlay(p) = p
    BY <2>2
  <2> QED BY <2>1, <2>2, PlayMoves
<1> QED BY <1>1, <1>2

\* A report comes off the queue.
LEMMA HeadTells ==
  ASSUME NEW S, NEW d \in Seq(S), d # <<>>, NEW n, NEW s, NEW b, NEW t, NEW e,
         Reported(n, d, s, b, t, e), NEW x, x = Head(d), NEW r, r = Tail(d)
  PROVE  /\ x = "PLAYING" => Reported(n, r, "PLAYING", "pause", TRUE, FALSE)
         /\ x = "PAUSED" => Reported(n, r, "PAUSED", "play", FALSE, TRUE)
         /\ x = "ENDED" => Reported(n, r, "ENDED", "play", t, TRUE)
         /\ x \notin {"PLAYING", "PAUSED", "ENDED"} => Reported(n, r, x, b, t, e)
<1> PICK k : k = Len(d)
  OBVIOUS
<1>1. /\ k \in Nat \ {0} /\ r \in Seq(S) /\ Len(r) = k - 1 /\ x = d[1]
      /\ \A i \in 1 .. k - 1 : r[i] = d[i + 1]
      /\ d \in [1 .. k -> S]
  OBVIOUS
<1>2. CASE k = 1
  <2>1. r = <<>> /\ d[Len(d)] = x /\ Len(d) = 1
    BY <1>1, <1>2
  <2> QED BY <2>1 DEF Reported, LastIs
<1>3. CASE k > 1
  <2>1. r # <<>> /\ r[Len(r)] = d[Len(d)] /\ Len(d) > 1
    <3>1. k - 1 \in 1 .. k - 1 /\ (k - 1) + 1 = k /\ Len(r) # 0
      BY <1>1, <1>3
    <3>2. Len(<<>>) = 0
      OBVIOUS
    <3>3. r # <<>>
      BY ONLY <3>1, <3>2
    <3>4. r[k - 1] = d[(k - 1) + 1]
      BY <1>1, <3>1
    <3> QED BY <1>1, <1>3, <3>1, <3>3, <3>4
  <2>2. ASSUME d[Len(d) - 1] = "PAUSED"
        PROVE  \/ Len(r) > 1 /\ r[Len(r) - 1] = "PAUSED"
               \/ Len(r) = 1 /\ x = "PAUSED"
    <3>1. CASE k = 2
      BY <1>1, <2>2, <3>1
    <3>2. CASE k > 2
      <4>1. (k - 1) - 1 \in 1 .. k - 1 /\ ((k - 1) - 1) + 1 = k - 1 /\ k - 1 > 1
        BY <1>1, <3>2
      <4> QED BY <1>1, <2>2, <4>1
    <3> QED BY <1>1, <1>3, <3>1, <3>2
  <2> QED BY <2>1, <2>2 DEF Reported, LastIs
<1>4. k = 1 \/ k > 1
  BY <1>1
<1> QED BY <1>2, <1>3, <1>4

\* The handlers of the reports.
LEMMA OnPlayTells ==
  ASSUME NEW p, Paged(p), p.timer \in BOOLEAN, p.playerState = "PLAYING",
         Reported(p.native, p.due, "PLAYING", "pause", TRUE, FALSE)
  PROVE  Tells(OnPlay(p))
<1> DEFINE run == RunTimer(p)
           shown == [run EXCEPT !.button = "pause", !.emitPlayVideoEvent = FALSE]
           moved == NativeSeek(shown, shown.rewind)
<1>1. Paged(run) /\ Moves(p, run) /\ SameFace(p, run) /\ run.timer = TRUE
  BY RunTimerMoves
<1>2. OnPlay(p) = IF shown.rewind = NoTime THEN shown ELSE moved
  BY DEF OnPlay
<1> HIDE DEF run
<1>3. Reported(run.native, run.due, "PLAYING", "pause", TRUE, FALSE)
  BY <1>1, StaysReported
<1>4. /\ Paged(shown) /\ shown.native = run.native /\ shown.due = run.due
      /\ shown.playerState = "PLAYING" /\ shown.button = "pause" /\ shown.timer = TRUE
      /\ shown.emitPlayVideoEvent = FALSE
  BY <1>1 DEF Paged, NewPage, SameFace
<1> HIDE DEF shown
<1>5. Tells(shown)
  BY <1>3, <1>4 DEF Tells
<1>6. MovesOnly(shown, moved)
  BY <1>4, SeekMoves
<1> HIDE DEF moved
<1>7. Tells(moved)
  <2>1. /\ Moves(shown, moved) /\ Emits(shown, moved) /\ SameFace(shown, moved)
        /\ moved.timer = shown.timer /\ shown.timer \in BOOLEAN
    BY <1>4, <1>6 DEF MovesOnly, Emits
  <2> QED BY <1>5, <2>1, MovesTell
<1> QED BY <1>2, <1>5, <1>7

LEMMA OnPauseTells ==
  ASSUME NEW p, Paged(p), p.playerState = "PAUSED",
         Reported(p.native, p.due, "PAUSED", "play", FALSE, TRUE)
  PROVE  Tells(OnPause(p))
<1> DEFINE q == OnPause(p)
<1>1. /\ q.native = p.native /\ q.due = p.due /\ q.playerState = p.playerState
      /\ q.button = "play" /\ q.timer = FALSE /\ q.emitPlayVideoEvent = TRUE
  BY DEF Paged, NewPage, OnPause, Paused, StopTimer
<1> HIDE DEF q
<1>2. Tells(q)
  BY <1>1 DEF Tells
<1> QED BY <1>2 DEF q

LEMMA OnEndedTells ==
  ASSUME NEW p, Paged(p), p.playerState = "ENDED",
         Reported(p.native, p.due, "ENDED", "play", p.timer, TRUE)
  PROVE  Tells(OnEnded(p))
<1> DEFINE shown == UpdatePlayTime(p, DurationOf(p))
           q == Paused(shown)
<1>1. SameReports(p, shown)
  BY ThumbMoves
<1> HIDE DEF shown
<1>2. /\ q.native = p.native /\ q.due = p.due /\ q.playerState = p.playerState
      /\ q.button = "play" /\ q.timer = p.timer /\ q.emitPlayVideoEvent = TRUE
  BY <1>1 DEF SameReports, SameFace, Paged, NewPage, Paused
<1>3. OnEnded(p) = q
  BY DEF OnEnded, shown
<1> HIDE DEF q
<1>4. Tells(q)
  BY <1>2 DEF Tells
<1> QED BY <1>3, <1>4

-----------------------------------------------------------------------------
LEMMA TellsNext ==
  ASSUME NEW q, Tells(q), page' = q, UNCHANGED config
  PROVE  Tells(page)'
BY DEF Tells, Reported, LastIs, IsYoutube

LEMMA PageIs ==
  ASSUME PlaybackInvariant
  PROVE  Paged(page) /\ page.timer \in BOOLEAN /\ page.emitPlayVideoEvent \in BOOLEAN
BY DEF PlaybackInvariant, Typed, Phases, Switches, Paged

\* A player that was just built has nothing to report.
LEMMA BuiltTells ==
  ASSUME NEW c, c = config, NEW stored
  PROVE  Tells(NewPage(c, stored)) /\ Tells([NewPage(c, stored) EXCEPT !.phase = "away"])
<1> DEFINE p == NewPage(c, stored)
           q == [p EXCEPT !.phase = "away"]
<1>1. /\ p.native = (IF IsYoutube THEN "unstarted" ELSE "paused")
      /\ p.due = <<>> /\ p.playerState = "UNSTARTED" /\ p.button = "play"
      /\ p.timer = FALSE /\ p.emitPlayVideoEvent = TRUE
  BY DEF NewPage, IsYoutube
<1>2. /\ q.native = p.native /\ q.due = p.due /\ q.playerState = p.playerState
      /\ q.button = p.button /\ q.timer = p.timer
      /\ q.emitPlayVideoEvent = p.emitPlayVideoEvent
  BY DEF NewPage
<1> HIDE DEF p, q
<1>3. Tells(p) /\ Tells(q)
  BY <1>1, <1>2 DEF Tells, Reported
<1> QED BY <1>3 DEF p, q

LEMMA ReadyTells ==
  ASSUME PlaybackInvariant, Tells(page), OnReady
  PROVE  Tells(page)'
<1> DEFINE ready == [page EXCEPT !.phase = "ready",
                                 !.playerState = IF IsYoutube THEN @ ELSE "PAUSED"]
           p == WithRegion(ready)
           t == StartingTime(config, p.saved, DurationOf(p))
           q == SeekTo(p, t)
<1>1. /\ Paged(page) /\ page.timer \in BOOLEAN /\ page.playerState = "UNSTARTED"
      /\ UNCHANGED config
  BY PageIs DEF OnReady, PlaybackInvariant, Untouched
<1>2. page' = IF t > 0 THEN q ELSE p
  BY DEF OnReady
<1>3. /\ Paged(p) /\ p.native = page.native /\ p.due = page.due /\ p.timer = page.timer
      /\ p.button = page.button /\ p.emitPlayVideoEvent = page.emitPlayVideoEvent
      /\ p.playerState \in {"UNSTARTED", "PAUSED"}
  BY <1>1 DEF Paged, NewPage, WithRegion
<1> HIDE DEF p
<1>4. Tells(p)
  BY <1>1, <1>3 DEF Tells, Reported
<1>5. /\ Moves(p, q) /\ Emits(p, q) /\ SameFace(p, q)
      /\ q.timer = p.timer \/ (q.timer = TRUE /\ IsPlaying(p))
  BY <1>1, <1>3, SeekToMoves
<1> HIDE DEF q, t
<1>6. Tells(q)
  BY <1>1, <1>3, <1>4, <1>5, MovesTell DEF IsPlaying
<1>7. PICK r \in {p, q} : page' = r
  BY <1>2
<1>8. Tells(r)
  BY <1>4, <1>6, <1>7
<1> QED BY <1>1, <1>7, <1>8, TellsNext

LEMMA MetadataTells ==
  ASSUME PlaybackInvariant, Tells(page), MetadataReceived
  PROVE  Tells(page)'
<1> DEFINE p == WithRegion([page EXCEPT !.known = TRUE, !.metadata = TRUE])
           t == StartingTime(config, p.saved, Duration)
           q == UpdatePlayTime(p, t)
<1>1. Paged(page) /\ page' = q /\ UNCHANGED config
  BY PageIs DEF MetadataReceived
<1>2. SameReports(page, p)
  BY <1>1 DEF Paged, NewPage, WithRegion, SameReports, SameFace
<1> HIDE DEF p
<1>3. SameReports(p, q)
  BY <1>2, ThumbMoves DEF SameReports
<1> HIDE DEF q
<1>4. Tells(q)
  BY <1>2, <1>3 DEF SameReports, SameFace, Tells
<1> QED BY <1>1, <1>4, TellsNext

LEMMA ElementTells ==
  ASSUME PlaybackInvariant, Tells(page), StartsPlaying \/ Advances \/ Stalls \/ ReachesEnd
  PROVE  Tells(page)'
<1> DEFINE q == page'
<1>1. Paged(page) /\ UNCHANGED config
  BY PageIs DEF StartsPlaying, Advances, Stalls, ReachesEnd, ElementActs
<1>2. DOMAIN page = DOMAIN NewPage(config, 0) /\ page.due \in Seq(PlayerState \ {"UNSTARTED"})
  BY <1>1 DEF Paged
<1> DEFINE Face == /\ q.playerState = page.playerState /\ q.button = page.button
                   /\ q.timer = page.timer
                   /\ q.emitPlayVideoEvent = page.emitPlayVideoEvent
<1>3. CASE StartsPlaying
  <2>1. q.native = "playing" /\ q.due = Append(page.due, "PLAYING")
    BY <1>2, <1>3 DEF StartsPlaying, NewPage, Reports
  <2>2. LastIs(Append(page.due, "PLAYING"), "PLAYING")
    BY <1>2, LastAppended DEF PlayerState
  <2>3. Tells(q)
    BY <2>1, <2>2 DEF Tells, Reported
  <2> QED BY <1>1, <2>3, TellsNext
<1>4. CASE Advances
  <2>1. q.native = page.native /\ q.due = page.due /\ Face
    BY <1>2, <1>4 DEF Advances, NewPage
  <2> HIDE DEF q
  <2>2. Tells(q)
    BY <2>1 DEF Tells
  <2> QED BY <1>1, <2>2, TellsNext DEF q
<1>5. CASE Stalls
  <2>1. q.native = "buffering"
    BY <1>2, <1>5 DEF Stalls, NewPage, Reports
  <2>2. Tells(q)
    BY <2>1 DEF Tells, Reported
  <2> QED BY <1>1, <2>2, TellsNext
<1>6. CASE ReachesEnd
  <2> DEFINE d == Append(Append(page.due, "PAUSED"), "ENDED")
  <2>1. q.native = "ended" /\ (~IsYoutube => q.due = d)
    BY <1>2, <1>6 DEF ReachesEnd, NewPage, Reports
  <2>2. LastIs(d, "ENDED") /\ Len(d) > 1 /\ d[Len(d) - 1] = "PAUSED"
    <3> PICK f : f = Append(page.due, "PAUSED")
      OBVIOUS
    <3> PICK k : k = Len(page.due)
      OBVIOUS
    <3>1. /\ f \in Seq(PlayerState \ {"UNSTARTED"}) /\ Len(f) = k + 1 /\ f[k + 1] = "PAUSED"
          /\ k \in Nat
      BY <1>2, LastAppended DEF LastIs, PlayerState
    <3>2. /\ LastIs(Append(f, "ENDED"), "ENDED") /\ Len(Append(f, "ENDED")) = k + 2
          /\ Append(f, "ENDED")[k + 1] = "PAUSED"
      <4>1. "ENDED" \in PlayerState \ {"UNSTARTED"} /\ k + 1 \in 1 .. Len(f)
        BY <3>1 DEF PlayerState
      <4>2. /\ LastIs(Append(f, "ENDED"), "ENDED") /\ Len(Append(f, "ENDED")) = Len(f) + 1
            /\ \A i \in 1 .. Len(f) : Append(f, "ENDED")[i] = f[i]
        BY <3>1, <4>1, LastAppended
      <4> QED BY <3>1, <4>1, <4>2
    <3> QED BY <3>1, <3>2
  <2> HIDE DEF d, q
  <2>3. Tells(q)
    BY <2>1, <2>2 DEF Tells, Reported
  <2> QED BY <1>1, <2>3, TellsNext DEF q
<1> QED BY <1>3, <1>4, <1>5, <1>6

LEMMA StateChangeTells ==
  ASSUME PlaybackInvariant, Tells(page), OnStateChange
  PROVE  Tells(page)'
<1> PICK state : state = Head(page.due)
  OBVIOUS
<1> DEFINE p == [page EXCEPT !.due = Tail(@), !.playerState = state]
<1>1. /\ Paged(page) /\ page.timer \in BOOLEAN /\ page.due # <<>> /\ UNCHANGED config
      /\ page.due \in Seq(PlayerState \ {"UNSTARTED"})
  BY PageIs DEF OnStateChange, Paged
<1>2. page' = CASE state = "PLAYING" -> OnPlay(p)
                [] state = "PAUSED" -> OnPause(p)
                [] state = "ENDED" -> OnEnded(p)
                [] OTHER -> p
  BY DEF OnStateChange
<1>3. /\ Paged(p) /\ p.native = page.native /\ p.due = Tail(page.due) /\ p.playerState = state
      /\ p.button = page.button /\ p.timer = page.timer
      /\ p.emitPlayVideoEvent = page.emitPlayVideoEvent
  BY <1>1 DEF Paged, NewPage
<1> HIDE DEF p
<1>4. /\ state = "PLAYING" => Reported(p.native, p.due, "PLAYING", "pause", TRUE, FALSE)
      /\ state = "PAUSED" => Reported(p.native, p.due, "PAUSED", "play", FALSE, TRUE)
      /\ state = "ENDED" => Reported(p.native, p.due, "ENDED", "play", p.timer, TRUE)
      /\ state \notin {"PLAYING", "PAUSED", "ENDED"} => Tells(p)
  BY <1>1, <1>3, HeadTells DEF Tells
<1>5. CASE state = "PLAYING"
  <2>1. Tells(OnPlay(p)) /\ page' = OnPlay(p)
    BY <1>1, <1>2, <1>3, <1>4, <1>5, OnPlayTells
  <2> QED BY <1>1, <2>1, TellsNext
<1>6. CASE state = "PAUSED"
  <2>1. Tells(OnPause(p)) /\ page' = OnPause(p)
    BY <1>2, <1>3, <1>4, <1>6, OnPauseTells
  <2> QED BY <1>1, <2>1, TellsNext
<1>7. CASE state = "ENDED"
  <2>1. Tells(OnEnded(p)) /\ page' = OnEnded(p)
    BY <1>2, <1>3, <1>4, <1>7, OnEndedTells
  <2> QED BY <1>1, <2>1, TellsNext
<1>8. CASE state \notin {"PLAYING", "PAUSED", "ENDED"}
  <2>1. Tells(p) /\ page' = p
    BY <1>2, <1>4, <1>8
  <2> QED BY <1>1, <2>1, TellsNext
<1> QED BY <1>5, <1>6, <1>7, <1>8

LEMMA TimerTells ==
  ASSUME PlaybackInvariant, Tells(page), Tick \/ OnSeek
  PROVE  Tells(page)'
<1>1. Paged(page) /\ page.timer \in BOOLEAN /\ UNCHANGED config
  BY PageIs DEF Tick, OnSeek
<1>2. CASE Tick
  <2> DEFINE q == Update(page)
  <2>1. Moves(page, q) /\ Emits(page, q) /\ SameFace(page, q) /\ q.timer = page.timer
    BY <1>1, UpdateMoves
  <2>2. page' = q
    BY <1>2 DEF Tick
  <2> HIDE DEF q
  <2>3. Tells(q)
    BY <1>1, <2>1, MovesTell
  <2> QED BY <1>1, <2>2, <2>3, TellsNext
<1>3. CASE OnSeek
  <2> DEFINE p == [page EXCEPT !.ask = NoTime]
             q == SeekTo(p, page.ask)
  <2>1. page' = q
    BY <1>3 DEF OnSeek
  <2>2. SameReports(page, p)
    BY <1>1 DEF Paged, NewPage, SameReports, SameFace
  <2> HIDE DEF p
  <2>3. Tells(p) /\ Paged(p) /\ p.timer \in BOOLEAN
    BY <1>1, <2>2 DEF SameReports, SameFace, Tells
  <2>4. /\ Moves(p, q) /\ Emits(p, q) /\ SameFace(p, q)
        /\ q.timer = p.timer \/ (q.timer = TRUE /\ IsPlaying(p))
    BY <2>3, SeekToMoves
  <2> HIDE DEF q
  <2>5. Tells(q)
    BY <2>3, <2>4, MovesTell DEF IsPlaying
  <2> QED BY <1>1, <2>1, <2>5, TellsNext
<1> QED BY <1>2, <1>3

LEMMA CommandTells ==
  ASSUME PlaybackInvariant, Tells(page), TogglePlayback \/ ClickVideo
  PROVE  Tells(page)'
<1>1. Paged(page) /\ page.timer \in BOOLEAN /\ UNCHANGED config
  BY PageIs DEF TogglePlayback, ClickVideo, LearnerActs
<1>2. CASE TogglePlayback
  <2>1. PICK q \in {NativePause(page), NativePlay(page)} : page' = q
    BY <1>2 DEF TogglePlayback
  <2>2. Tells(q)
    BY <1>1, <2>1, PlayTells
  <2> QED BY <1>1, <2>1, <2>2, TellsNext
<1>3. CASE ClickVideo /\ IsPlaying(page)
  <2> DEFINE p == [page EXCEPT !.playerState = "PAUSED"]
             q == NativePause(p)
  <2>1. page' = q
    BY <1>3 DEF ClickVideo
  <2>2. /\ Paged(p) /\ p.native = page.native /\ p.due = page.due /\ p.timer = page.timer
        /\ p.button = page.button /\ p.emitPlayVideoEvent = page.emitPlayVideoEvent
        /\ p.playerState = "PAUSED"
    BY <1>1 DEF Paged, NewPage
  <2> HIDE DEF p
  <2>3. MovesOnly(p, q) /\ q.native # "playing"
    BY <2>2, PauseMoves
  <2> HIDE DEF q
  <2>4. page.playerState = "PLAYING"
    BY <1>3 DEF IsPlaying
  <2>5. Reported(q.native, q.due, page.playerState, page.button, page.timer,
                 page.emitPlayVideoEvent)
    <3>1. Moves(page, q)
      BY <2>2, <2>3 DEF MovesOnly, Moves
    <3> QED BY <3>1, StaysReported DEF Tells
  <2>6. Tells(q)
    BY <2>2, <2>3, <2>4, <2>5 DEF Tells, Reported, MovesOnly, SameFace
  <2> QED BY <1>1, <2>1, <2>6, TellsNext
<1>4. CASE ClickVideo /\ ~IsPlaying(page)
  <2> DEFINE p == [page EXCEPT !.playerState = "PLAYING"]
             q == NativePlay(p)
  <2>1. page' = q
    BY <1>4 DEF ClickVideo
  <2>2. /\ Paged(p) /\ p.native = page.native /\ p.due = page.due /\ p.timer = page.timer
        /\ p.button = page.button /\ p.emitPlayVideoEvent = page.emitPlayVideoEvent
        /\ p.playerState = "PLAYING"
    BY <1>1 DEF Paged, NewPage
  <2> HIDE DEF p
  <2>3. q.native = "buffering" \/ (p.native = "playing" /\ q = p)
    BY <2>2, PlayMoves
  <2> HIDE DEF q
  <2>4. Tells(q)
    <3>1. CASE q.native = "buffering"
      BY <3>1 DEF Tells, Reported
    <3>2. CASE p.native = "playing" /\ q = p
      <4>1. LastIs(page.due, "PLAYING")
        BY <1>4, <2>2, <3>2 DEF Tells, Reported, IsPlaying
      <4> QED BY <2>2, <3>2, <4>1 DEF Tells, Reported
    <3> QED BY <2>3, <3>1, <3>2
  <2> QED BY <1>1, <2>1, <2>4, TellsNext
<1> QED BY <1>2, <1>3, <1>4

LEMMA SliderTells ==
  ASSUME PlaybackInvariant, Tells(page), (\E t \in Time : OnSlide(t)) \/ OnStop \/ Thaw
  PROVE  Tells(page)'
<1> DEFINE q == page'
<1>1. Paged(page) /\ UNCHANGED config
  BY PageIs DEF OnSlide, OnStop, Thaw, LearnerActs
<1>2. /\ q.native = page.native /\ q.due = page.due /\ q.playerState = page.playerState
      /\ q.button = page.button /\ q.timer = page.timer
      /\ q.emitPlayVideoEvent = page.emitPlayVideoEvent
  <2>1. ASSUME NEW t \in Time, OnSlide(t)
        PROVE  /\ q.native = page.native /\ q.due = page.due
               /\ q.playerState = page.playerState
               /\ q.button = page.button /\ q.timer = page.timer
               /\ q.emitPlayVideoEvent = page.emitPlayVideoEvent
    BY <1>1, <2>1 DEF Paged, NewPage, OnSlide
  <2>2. CASE OnStop
    BY <1>1, <2>2 DEF Paged, NewPage, OnStop
  <2>3. CASE Thaw
    BY <1>1, <2>3 DEF Paged, NewPage, Thaw
  <2> QED BY <2>1, <2>2, <2>3
<1> HIDE DEF q
<1>3. Tells(q)
  BY <1>2 DEF Tells
<1> QED BY <1>1, <1>3, TellsNext DEF q

LEMMA UnitTells ==
  ASSUME PlaybackInvariant, Tells(page), Destroy \/ Return
  PROVE  Tells(page)'
<1>1. UNCHANGED config
  BY DEF Destroy, Return, LearnerActs
<1>2. CASE Destroy
  <2> DEFINE q == [NewPage(config, storage') EXCEPT !.phase = "away"]
  <2>1. page' = q /\ Tells(q)
    BY <1>2, BuiltTells DEF Destroy
  <2> QED BY <1>1, <2>1, TellsNext
<1>3. CASE Return
  <2> DEFINE q == NewPage(config, storage)
  <2>1. page' = q /\ Tells(q)
    BY <1>3, BuiltTells DEF Return
  <2> QED BY <1>1, <2>1, TellsNext
<1> QED BY <1>2, <1>3

LEMMA ReportsKeep ==
  ASSUME PlaybackInvariant, Tells(page), [Next]_vars
  PROVE  Tells(page)'
<1>1. CASE UNCHANGED vars
  BY <1>1, TellsNext DEF vars
<1> QED BY <1>1, ReadyTells, MetadataTells, ElementTells, StateChangeTells, TimerTells,
           CommandTells, SliderTells, UnitTells DEF Next

\* However clicks, seeks, stalls and the end of the region are interleaved with
\* the reports of the element, what was last reported, or is due last, is what
\* the element does; so the button, the log and the interval agree with it as
\* soon as nothing is due.
THEOREM ViewSettles == Spec => []SettledViewAgrees
<1>1. Init => Tells(page)
  <2> SUFFICES ASSUME Init PROVE Tells(page)
    OBVIOUS
  <2> PICK p : p = NewPage(config, 0)
    OBVIOUS
  <2>1. Tells(p) /\ page = p
    BY BuiltTells DEF Init
  <2> QED BY <2>1
<1>2. PlaybackInvariant /\ Tells(page) /\ [Next]_vars => Tells(page)'
  BY ReportsKeep
<1>3. Tells(page) => SettledViewAgrees
  BY DEF Tells, Reported, LastIs, SettledViewAgrees, Quiet
<1> QED BY <1>1, <1>2, <1>3, PlayerAndSliderAgree, PTL DEF Spec
=============================================================================
