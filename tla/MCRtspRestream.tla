--------------------------- MODULE MCRtspRestream ---------------------------
(* A camera that sends a clean frame, one out of display order, one        *)
(* without a stamp, and whose clock goes back; two medias.                 *)
EXTENDS RtspRestream
CONSTANTS stream, http
MCStamps == 0 .. 4
MCInputs == {[pts |-> 1, dts |-> 1], [pts |-> 4, dts |-> 2], NoStamps}
MCFeeds == 1 .. 2
MCCallers == {stream, http}
=============================================================================
