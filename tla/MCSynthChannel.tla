--------------------------- MODULE MCSynthChannel ---------------------------
(* Instances of SynthChannel.  With three or four requests a SPEAK can be   *)
(* in progress, another pending and a third request arrive while the second *)
(* is on its way to the engine.  Three clients and timings: three requests  *)
(* of any method; SPEAK and STOP, some for one request; and SPEAK and STOP  *)
(* of a client that keeps quiet while a pending SPEAK starts, with a        *)
(* callback that returns before the server task takes its next message.     *)
EXTENDS SynthChannel

VARIABLE scenario

AnyMethod == INSTANCE SynthChannel WITH MaxRequests <- 3, Param <- {}
Stopping == INSTANCE SynthChannel WITH Method <- {"SPEAK", "STOP"}
Orderly == INSTANCE SynthChannel
    WITH Method <- {"SPEAK", "STOP"}, Param <- {}, MediaPrompt <- TRUE, Quiet <- TRUE

MCInit ==
    \/ scenario = "any_method" /\ AnyMethod!SynthInit
    \/ scenario = "stopping" /\ Stopping!SynthInit
    \/ scenario = "orderly" /\ Orderly!SynthInit

MCNext ==
    \/ scenario = "any_method" /\ AnyMethod!Next /\ UNCHANGED scenario
    \/ scenario = "stopping" /\ Stopping!Next /\ UNCHANGED scenario
    \/ scenario = "orderly" /\ Orderly!Next /\ UNCHANGED scenario

(* The three threads keep running; the client need not do anything.  A      *)
(* message that waits is taken even if the media thread is in and out of    *)
(* its callback all the time.                                               *)
MCSpec ==
    /\ MCInit /\ [][MCNext]_<<vars, scenario>>
    /\ WF_vars(scenario = "orderly" /\ Orderly!ServerTask)
    /\ SF_vars(scenario = "orderly" /\ Orderly!Receive)
    /\ WF_vars(scenario = "orderly" /\ Orderly!EngineTask)
    /\ WF_vars(scenario = "orderly" /\ Orderly!MediaThread)

(* Whatever the client does and however the threads are scheduled: types,   *)
(* ResponsesInOrder of the session and StopFindsSpeaker of                  *)
(* synth_response_stop                                                      *)
SafeAnyhow == TypeOK /\ ResponsesInOrder /\ StopFindsSpeaker

(* SpeechInOrder, AcceptedSpeakKept and MarkerForPending, when              *)
(* demo_synth_stream_read is not overtaken and no SPEAK comes while         *)
(* synth_response_stop or synth_event_speak_complete hands a pending one to *)
(* the engine                                                               *)
SpokenWhenOrderly ==
    scenario = "orderly" => SpeechInOrder /\ AcceptedSpeakKept /\ MarkerForPending

(* EveryRequestAnswered and SessionTerminates of the session and            *)
(* EverySpeakEnds of demo_synth_stream_read, under the same conditions      *)
ServedWhenOrderly ==
    /\ scenario = "orderly" => EveryRequestAnswered
    /\ scenario = "orderly" => SessionTerminates
    /\ scenario = "orderly" => EverySpeakEnds
=============================================================================
