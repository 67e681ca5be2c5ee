------------------------------- MODULE MCRtsp -------------------------------
(* A session of one resource: three requests, of which the last two can be *)
(* pending together, and an event.                                         *)
EXTENDS Rtsp

SomeMethods == <<{"SETUP", "DESCRIBE"}, {"SETUP", "ANNOUNCE", "TEARDOWN"}, {"ANNOUNCE"}>>
=============================================================================
