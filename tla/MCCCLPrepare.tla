--------------------------- MODULE MCCCLPrepare ---------------------------
(***************************************************************************)
(* Inputs with up to four streams, and the frame rates at which            *)
(* setVideoChannel behaves differently: less than one frame a second, an   *)
(* ordinary rate and a big one.                                            *)
(***************************************************************************)
EXTENDS CCLPrepare

MCFrameRates == {0, 25, 60}
MCZeroDivision == {"fault", "zero"}
=============================================================================
