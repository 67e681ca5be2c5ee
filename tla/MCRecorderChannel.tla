------------------------- MODULE MCRecorderChannel -------------------------
(* Instances of RecorderChannel.  Three requests are enough for a recording *)
(* to be stopped and a second one accepted.  Three clients and timings:     *)
(* two requests of any method; three of RECORD and STOP; and three when the *)
(* callback of the media thread returns before the server task takes its    *)
(* next message.                                                            *)
EXTENDS RecorderChannel

VARIABLE scenario

AnyMethod == INSTANCE RecorderChannel WITH MaxRequests <- 2
Stopping == INSTANCE RecorderChannel
    WITH Method <- {"RECORD", "STOP"}, Param <- {}, TimeCap <- 1
Prompt == INSTANCE RecorderChannel
    WITH Method <- {"RECORD", "STOP"}, Param <- {1}, TimeCap <- 1, MediaPrompt <- TRUE

MCInit ==
    \/ scenario = "any_method" /\ AnyMethod!RecorderInit
    \/ scenario = "stopping" /\ Stopping!RecorderInit
    \/ scenario = "prompt" /\ Prompt!RecorderInit

MCNext ==
    \/ scenario = "any_method" /\ AnyMethod!Next /\ UNCHANGED scenario
    \/ scenario = "stopping" /\ Stopping!Next /\ UNCHANGED scenario
    \/ scenario = "prompt" /\ Prompt!Next /\ UNCHANGED scenario

(* Both threads keep running; the client need not do anything.  A message   *)
(* that waits is taken even if the media thread is in and out of its        *)
(* callback all the time.                                                   *)
MCSpec ==
    /\ MCInit /\ [][MCNext]_<<vars, scenario>>
    /\ WF_vars(scenario = "prompt" /\ Prompt!ServerTask)
    /\ SF_vars(scenario = "prompt" /\ Prompt!TakeMessage)
    /\ WF_vars(scenario = "prompt" /\ Prompt!MediaThread)

(* EveryRequestAnswered and SessionTerminates, when recorder_stream_write  *)
(* is not overtaken                                                        *)
ServedWhenPrompt ==
    /\ scenario = "prompt" => EveryRequestAnswered
    /\ scenario = "prompt" => SessionTerminates

(* RecordingBounded by Max-Time, when recorder_stream_write is not         *)
(* overtaken                                                               *)
BoundedWhenPrompt == scenario = "prompt" => RecordingBounded
=============================================================================
