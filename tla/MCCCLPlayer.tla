---------------------------- MODULE MCCCLPlayer ----------------------------
(***************************************************************************)
(* Small inputs for the playing threads.                                   *)
(***************************************************************************)
EXTENDS CCLPlayer

MCBoth == {{"audio", "video"}}
MCAny == {{}, {"audio"}, {"video"}, {"audio", "video"}}
MCFilters == {TRUE}
MCSingle == {{"audio"}, {"video"}}
=============================================================================
