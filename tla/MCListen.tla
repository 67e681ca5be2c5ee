------------------------------ MODULE MCListen ------------------------------
(* A recognizer or a verifier channel.  With three requests a RECOGNIZE can  *)
(* be in progress, another pending and a third request arrive while the      *)
(* second is on its way to the engine; START-SESSION, VERIFY and STOP take   *)
(* three, a second VERIFY after a STOP or a completion a fourth.  Clients    *)
(* and timings: a few requests of any method of the resource; RECOGNIZE and  *)
(* STOP, some for one request; and an orderly client of each resource, with  *)
(* a callback that returns before the server task takes its next message.    *)
(* The orderly client of the recognizer keeps quiet while a pending          *)
(* RECOGNIZE starts, that of the verifier does not end its session; what the *)
(* former gets in the end is checked with three requests.                    *)
EXTENDS RecogChannel

VARIABLES scenario, verify

RecogMethods ==
    {"SET-PARAMS", "GET-PARAMS", "DEFINE-GRAMMAR", "RECOGNIZE", "INTERPRET", "GET-RESULT",
     "START-INPUT-TIMERS", "STOP"}
VerifierMethods ==
    {"SET-PARAMS", "GET-PARAMS", "START-SESSION", "END-SESSION", "QUERY-VOICEPRINT", "VERIFY",
     "VERIFY-FROM-BUFFER", "STOP", "START-INPUT-TIMERS",
     "GET-INTERMEDIATE-RESULT"}

AnyMethod == INSTANCE RecogChannel WITH Method <- RecogMethods, MaxRequests <- 2, Param <- {}
Stopping == INSTANCE RecogChannel
    WITH Method <- {"RECOGNIZE", "STOP"}, MaxRequests <- 3, Dtmf <- FALSE
Orderly == INSTANCE RecogChannel
    WITH Method <- {"RECOGNIZE", "STOP"}, Param <- {}, Dtmf <- FALSE,
         MediaPrompt <- TRUE, Quiet <- TRUE
Served == INSTANCE RecogChannel
    WITH Method <- {"RECOGNIZE", "STOP"}, MaxRequests <- 3, Param <- {}, Dtmf <- FALSE,
         MediaPrompt <- TRUE, Quiet <- TRUE

AnyVerifier == INSTANCE VerifierChannel
    WITH Method <- VerifierMethods, MaxRequests <- 3, Param <- {}
OrderlyVerifier == INSTANCE VerifierChannel
    WITH Method <- {"START-SESSION", "VERIFY", "STOP"}, Param <- {}, Dtmf <- FALSE,
         MediaPrompt <- TRUE

Listening == {"any_method", "stopping", "orderly", "served"}
Verifying == {"any_verifier", "orderly_verifier"}

\* what the other resource's state machine has
NoRecog == UNCHANGED <<is_pending, recog, queue>>

MCInit ==
    /\ scenario \in Listening \cup Verifying
    /\ verify = NULL
    /\ Init /\ MachineInit /\ ChannelInit /\ InputInit

MCNext ==
    /\ UNCHANGED scenario
    /\ \/ scenario = "any_method" /\ AnyMethod!Next /\ UNCHANGED verify
       \/ scenario = "stopping" /\ Stopping!Next /\ UNCHANGED verify
       \/ scenario = "orderly" /\ Orderly!Next /\ UNCHANGED verify
       \/ scenario = "served" /\ Served!Next /\ UNCHANGED verify
       \/ scenario = "any_verifier" /\ AnyVerifier!Next /\ NoRecog
       \/ scenario = "orderly_verifier" /\ OrderlyVerifier!Next /\ NoRecog

ServerTaskRuns ==
    \/ scenario = "served" /\ Served!ServerTask
    \/ scenario = "orderly_verifier" /\ OrderlyVerifier!ServerTask /\ NoRecog
ReceiveRuns ==
    \/ scenario = "served" /\ Served!Receive
    \/ scenario = "orderly_verifier" /\ OrderlyVerifier!Receive /\ NoRecog
PluginTaskRuns ==
    \/ scenario = "served" /\ Served!PluginTask
    \/ scenario = "orderly_verifier" /\ OrderlyVerifier!PluginTask /\ NoRecog
MediaStopRuns ==
    \/ scenario = "served" /\ Served!MediaStop /\ UNCHANGED machineVars
    \/ scenario = "orderly_verifier" /\ OrderlyVerifier!MediaStop
                                     /\ UNCHANGED <<state, verify>> /\ NoRecog

(* The three threads keep running; the client need not do anything, and      *)
(* nobody needs to speak: only a STOP is sure to make the media thread act.  *)
MCSpec ==
    /\ MCInit /\ [][MCNext]_<<vars, verify, scenario>>
    /\ WF_vars(ServerTaskRuns) /\ SF_vars(ReceiveRuns)
    /\ WF_vars(PluginTaskRuns) /\ WF_vars(MediaStopRuns)

(* Whatever the client does and however the threads are scheduled: types,    *)
(* ResponsesInOrder of the session, StopFindsRecog of recog_response_stop    *)
(* and StopFindsVerify of verifier_response_stop                             *)
SafeAnyhow ==
    /\ ResponsesInOrder
    /\ scenario \in Listening => TypeOK /\ StopFindsRecog
    /\ scenario \in Verifying => AnyVerifier!TypeOK /\ AnyVerifier!StopFindsVerify

(* ResultsInOrder, AcceptedRecogKept, NothingAfterStop and                   *)
(* IsPendingAsDocumented, when demo_recog_stream_write is not overtaken and  *)
(* no RECOGNIZE comes while recog_response_stop or                           *)
(* recog_event_recognition_complete hands a pending one to the engine        *)
RecognizedWhenOrderly ==
    scenario = "orderly"
        => ResultsInOrder /\ AcceptedRecogKept /\ NothingAfterStop /\ IsPendingAsDocumented

(* AcceptedVerifyKept and NothingAfterStop, when demo_verifier_stream_write  *)
(* is not overtaken, and NothingLeftToStop in verifier_state_deactivate, as  *)
(* the client does not end its session with END-SESSION                      *)
VerifiedWhenOrderly ==
    scenario = "orderly_verifier"
        => /\ OrderlyVerifier!AcceptedVerifyKept /\ OrderlyVerifier!NothingAfterStop
           /\ OrderlyVerifier!NothingLeftToStop

(* EveryRequestAnswered and SessionTerminates of the session, under the      *)
(* same conditions                                                           *)
ServedWhenOrderly ==
    /\ scenario \in {"served", "orderly_verifier"} => EveryRequestAnswered
    /\ scenario \in {"served", "orderly_verifier"} => SessionTerminates
=============================================================================
