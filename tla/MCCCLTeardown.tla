--------------------------- MODULE MCCCLTeardown ---------------------------
(***************************************************************************)
(* Small instances for the teardown.                                       *)
(***************************************************************************)
EXTENDS CCLTeardown

MCAny == {{}, {"audio"}, {"video"}, {"audio", "video"}}
=============================================================================
