--------------------------- MODULE MCVideoPlayback ---------------------------
(***************************************************************************)
(* Instances of VideoPlayback for TLC.                                     *)
(***************************************************************************)
EXTENDS VideoPlaybackProperties

\* The whole video; a part of it, with a saved position inside, at the end of
\* the part, and past it; a region that ends where it starts; one that lies
\* beyond the end; a position in the last second.  A <video> knows its duration
\* when it is ready, a YouTube video may not.
Regions == {<<0, 0, 0>>, <<1, 3, 2>>, <<1, 3, 3>>, <<0, 1, 2>>, <<1, 1, 0>>, <<5, 5, 3>>}

ManyConfigs ==
  {c \in [kind : {"html5", "youtube"}, start : {0, 1, 5}, end : {0, 1, 3, 5},
          saved : {0, 2, 3}, known : BOOLEAN] :
     /\ <<c.start, c.end, c.saved>> \in Regions
     /\ c.kind = "html5" => c.known}

PlainYoutube ==
  {[kind |-> "youtube", start |-> 0, end |-> 0, saved |-> 0, known |-> TRUE]}
=============================================================================
