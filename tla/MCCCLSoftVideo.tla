--------------------------- MODULE MCCCLSoftVideo ---------------------------
(***************************************************************************)
(* Small inputs for the software decoder.                                  *)
(***************************************************************************)
EXTENDS CCLSoftVideo

MCVideo == {{"video"}}
MCFilters == {FALSE}

\* Bound: a playback that has ended is followed only if there was no seek in it.
Followed == exit => epoch = 0
=============================================================================
