----------------------- MODULE VideoPlaybackProperties -----------------------
(***************************************************************************)
(* What VideoPlayback promises the learner.                                *)
(***************************************************************************)
EXTENDS VideoPlayback

\* The types of a page.
Phases(p) ==
  /\ DOMAIN p = DOMAIN NewPage(config, 0)
  /\ p.phase \in {"loading", "ready", "away"}
  /\ p.native \in {"unstarted", "cued", "playing", "buffering", "paused", "ended"}
  /\ p.due \in Seq(PlayerState \ {"UNSTARTED"})
  /\ p.playerState \in PlayerState
  /\ p.button \in {"play", "pause"}

Times(p) ==
  /\ p.pos \in Time /\ p.currentTime \in Time /\ p.thumb \in Time
  /\ p.rewind \in Time \cup {NoTime} /\ p.ask \in Time \cup {NoTime}
  /\ p.wanted \in Time \cup {NoTime} /\ p.lastSeekValue \in Time \cup {NoTime}
  /\ p.startTime \in Nat /\ p.endTime \in Nat \cup {NoTime} /\ p.saved \in Nat
  /\ p.thaws \in 0 .. 1

Switches(p) ==
  /\ p.timer \in BOOLEAN /\ p.known \in BOOLEAN /\ p.metadata \in BOOLEAN
  /\ p.dragging \in BOOLEAN /\ p.frozen \in BOOLEAN /\ p.emitPlayVideoEvent \in BOOLEAN

Typed(p) == Phases(p) /\ Times(p) /\ Switches(p)

\* The seek that the debounce holds is the last one the learner asked for.
SeekWaits(p) == p.ask # NoTime => p.wanted = p.ask

\* Until it reports onReady a player is as it was built, with the position that
\* the storage held then.
Untouched(p) ==
  /\ p.pos = 0 /\ p.playerState = "UNSTARTED" /\ ~p.timer
  /\ p.ask = NoTime /\ p.wanted = NoTime
  /\ p.saved = SavedVideoPosition(config, storage) /\ p.known = config.known

\* The inductive invariant of the proofs, with the type of every variable.
PlaybackInvariant ==
  /\ config \in Configs
  /\ storage \in Time
  /\ acts \in 0 .. MaxActs
  /\ Typed(page) /\ SeekWaits(page)
  /\ page.phase # "ready" => Untouched(page)

Quiet == page.phase = "ready" /\ page.due = <<>>

\* Once all the element did has been reported, the button, the log of play and
\* pause events and the interval agree with what the element does, however
\* clicks, seeks and stalls were interleaved with the reports.
SettledViewAgrees ==
  Quiet =>
    /\ page.native = "playing" =>
         /\ page.playerState = "PLAYING" /\ page.button = "pause"
         /\ page.timer /\ ~page.emitPlayVideoEvent
    /\ page.native = "paused" =>
         page.button = "play" /\ ~page.timer /\ page.emitPlayVideoEvent

\* The last position asked for, and not reached, waits: for the debounce of
\* 300 ms, or bound to 'play.seek' until the YouTube video stops buffering.
InHand(p) == p.wanted # NoTime /\ p.wanted \in {p.ask, p.rewind}

\* Once the duration is known no handler drops the last seek the learner asked
\* for, whatever stalls, pauses, ticks and older seeks come between: it goes on
\* waiting until the element is at that very position, a newer seek takes its
\* place, or the learner leaves.  (onSeek, seekTo, 'play.seek'; before the
\* duration is known seekTo drops it: NoSeekDropped.)
SeekNotLost ==
  [][page.phase = "ready" /\ page'.phase = "ready" /\ page.known /\ InHand(page) =>
       InHand(page') \/ (page'.wanted = NoTime /\ page'.pos = page.wanted)]_vars

\* "After the user seeks, the video will start playing from the sought point"
\* (onSeek): a position that was asked for is reached, or waits.
NoSeekDropped == page.wanted # NoTime => InHand(page)

\* The video starts inside the region that the course author set, whatever
\* region and saved position the server rendered, and not at its very end.
StartsInsideRegion ==
  [][OnReady /\ page.known =>
       /\ page'.pos < Duration
       /\ page'.startTime <= page'.pos
       /\ page'.endTime # NoTime => page'.pos < page'.endTime]_vars

\* A learner who comes back to a unit finds the video where it was left, if
\* that is inside its region and neither its first nor its last second.
ResumesWhereLeft ==
  [][OnReady /\ page.known /\ storage # 0 =>
       \/ page'.pos = storage
       \/ storage <= page'.startTime
       \/ storage >= Duration - 1
       \/ page'.endTime # NoTime /\ storage >= page'.endTime]_vars

\* The video goes back only where the learner asked for it, or when it starts
\* again after its end; "wait to finish bufferization and then rewind the
\* video" (seekTo) is about the seek that waits, and not about later ones.
JumpsAreAsked ==
  [][page'.phase = "ready" /\ page.phase = "ready" /\ page'.pos < page.pos =>
       page.wanted # NoTime \/ page.native = "ended"]_vars
=============================================================================
