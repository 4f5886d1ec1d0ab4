---------------------------- MODULE MCCCLQueue ----------------------------
(***************************************************************************)
(* The video queue of the player with the threads that use it: the demuxer *)
(* (CCLFFmpeg::start), the software decoder (codecFrame), the renderer     *)
(* (CCLVideo::decodVideo) and the user's thread, which seeks and releases. *)
(***************************************************************************)
EXTENDS CCLQueue

CONSTANTS demux, decoder, renderer, user

MCThreads == {demux, decoder, renderer, user}

\* The calls of each thread of the player.
MCCalls ==
    [t \in Threads |->
        CASE t = demux    -> {<<"put", "packet">>, <<"size", "packet">>}
          [] t = decoder  -> {<<"get", "packet">>, <<"put", "frame">>}
          [] t = renderer -> {<<"get", "frame">>, <<"clearToKey", "packet">>}
          [] OTHER        -> {<<"clear", "frame">>, <<"clear", "packet">>,
                              <<"notice", "packet">>, <<"release", "packet">>}]

\* The same without the software decoder's frames, for the liveness run.
MCPacketThreads == {demux, decoder, user}

MCPacketCalls ==
    [t \in Threads |->
        CASE t = demux   -> {<<"put", "packet">>}
          [] t = decoder -> {<<"get", "packet">>}
          [] OTHER       -> {<<"clear", "packet">>, <<"notice", "packet">>}]

\* The second packet is a key packet.
MCKeyItems == {2}
=============================================================================
