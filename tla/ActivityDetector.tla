-------------------------- MODULE ActivityDetector --------------------------
(***************************************************************************)
(* libs/mpf/src/mpf_activity_detector.c: tells speech from silence by the  *)
(* level of the frames.  A frame is loud or quiet here; a change of the    *)
(* threshold changes which ones are loud.  The plugins set the time-outs   *)
(* when a request starts and never reset the detector.                     *)
(***************************************************************************)
EXTENDS Integers

CONSTANTS Speech,    \* speech_timeout and silence_timeout of a new detector, in ms
          Noinput,   \* noinput_timeout of a new detector
          Timeouts,  \* what the time-outs may be set to
          MaxFrames  \* bound of the model: runs of quiet or loud frames

VARIABLES detector,  \* the fields of mpf_activity_detector_t
          det_event, \* what mpf_activity_detector_process has returned
          listener   \* what a listener remembers: the numbers of loud and of quiet
                     \* frames up to now, whether speech goes on, and the number of
                     \* quiet frames since speech or noise was over, -1 if it is not

activityVars == <<detector, det_event, listener>>

FrameTime == 10  \* CODEC_FRAME_TIME_BASE

(* mpf_activity_detector_create; the listener has heard nothing *)
DetectorInit ==
    /\ detector = [state |-> "INACTIVITY", duration |-> 0, speech_timeout |-> Speech,
                   silence_timeout |-> Speech, noinput_timeout |-> Noinput]
    /\ det_event = "NONE"
    /\ listener = [loud |-> 0, quiet |-> 0, talking |-> FALSE, idle |-> 0]

(* Counting on through the change. *)
ChangedCountingOn(state) == [detector EXCEPT !.state = state]

\* mpf_activity_detector_state_change, and a frame that leaves the state as it is
Changed(state) == [detector EXCEPT !.state = state, !.duration = 0]
Longer == [detector EXCEPT !.duration = @ + FrameTime]

Goes(d, event) == detector' = d /\ det_event' = event

(* mpf_activity_detector_process, by the state and the level of the frame *)
Inactive(loud) ==
    /\ detector.state = "INACTIVITY"
    /\ \/ loud /\ Goes(Changed("ACTIVITY_TRANSITION"), "NONE")
       \/ /\ ~loud
          /\ Goes(Longer, IF Longer.duration >= detector.noinput_timeout THEN "NOINPUT" ELSE "NONE")

ActivityTransition(loud) ==
    /\ detector.state = "ACTIVITY_TRANSITION"
    /\ \/ loud /\ Longer.duration >= detector.speech_timeout /\ Goes(Changed("ACTIVITY"), "ACTIVITY")
       \/ loud /\ Longer.duration < detector.speech_timeout /\ Goes(Longer, "NONE")
       \/ ~loud /\ Goes(Changed("INACTIVITY"), "NONE")

Active(loud) ==
    /\ detector.state = "ACTIVITY"
    /\ \/ loud /\ Goes(Longer, "NONE")
       \/ ~loud /\ Goes(Changed("INACTIVITY_TRANSITION"), "NONE")

InactivityTransition(loud) ==
    /\ detector.state = "INACTIVITY_TRANSITION"
    /\ \/ loud /\ Goes(Changed("ACTIVITY"), "NONE")
       \/ ~loud /\ Longer.duration >= detector.silence_timeout /\ Goes(Changed("INACTIVITY"), "INACTIVITY")
       \/ ~loud /\ Longer.duration < detector.silence_timeout /\ Goes(Longer, "NONE")

Listened(loud) ==
    [loud |-> IF loud THEN listener.loud + 1 ELSE 0,
     quiet |-> IF loud THEN 0 ELSE listener.quiet + 1,
     talking |-> IF det_event' = "ACTIVITY" THEN TRUE
                 ELSE IF det_event' = "INACTIVITY" THEN FALSE ELSE listener.talking,
     idle |-> IF loud \/ (listener.talking /\ det_event' # "INACTIVITY") THEN -1
              ELSE IF det_event' = "INACTIVITY" THEN 0 ELSE listener.idle + 1]

Process(loud) ==
    /\ listener.loud + listener.quiet < MaxFrames
    /\ \/ Inactive(loud) \/ ActivityTransition(loud) \/ Active(loud) \/ InactivityTransition(loud)
    /\ listener' = Listened(loud)

(* mpf_activity_detector_noinput_timeout_set and the other two *)
TimeoutSet(which, timeout) ==
    /\ detector' = [detector EXCEPT ![which] = timeout]
    /\ det_event' = "NONE"
    /\ UNCHANGED listener

(* mpf_activity_detector_reset *)
DetectorReset ==
    /\ Goes(Changed("INACTIVITY"), "NONE")
    /\ listener' = [loud |-> 0, quiet |-> 0, talking |-> FALSE, idle |-> 0]

DetectorNext ==
    \/ \E loud \in BOOLEAN : Process(loud)
    \/ \E which \in {"speech_timeout", "silence_timeout", "noinput_timeout"}, timeout \in Timeouts :
          TimeoutSet(which, timeout)
    \/ DetectorReset

DetectorSpec == DetectorInit /\ [][DetectorNext]_activityVars
-----------------------------------------------------------------------------
(* What the listener expects of a loud and of a quiet frame *)
Expected(loud) ==
    IF loud
    THEN IF ~listener.talking /\ listener.loud >= 1 /\ listener.loud * FrameTime >= detector.speech_timeout
         THEN "ACTIVITY" ELSE "NONE"
    ELSE IF /\ listener.talking /\ listener.quiet >= 1
            /\ listener.quiet * FrameTime >= detector.silence_timeout
         THEN "INACTIVITY"
         ELSE IF /\ ~listener.talking /\ listener.idle >= 0
                 /\ (listener.idle + 1) * FrameTime >= detector.noinput_timeout
         THEN "NOINPUT" ELSE "NONE"

(* mpf_activity_detector_process reports speech, its end and the lack of   *)
(* input exactly when a listener would who counts the frames without a     *)
(* break: speech after speech_timeout of loud frames, not counting the     *)
(* first; its end after silence_timeout of quiet ones, not counting the    *)
(* first; and no input for as long as quiet has lasted noinput_timeout,    *)
(* however the time-outs are changed meanwhile.                            *)
ReportsExactly ==
    \A loud \in BOOLEAN :
       listener' = Listened(loud) /\ listener'.loud + listener'.quiet > 0 /\ listener' # listener
           => det_event' = Expected(loud)

(* The detector and the listener agree, state by state. *)
Agree ==
    /\ detector.state \in {"INACTIVITY", "ACTIVITY_TRANSITION", "ACTIVITY", "INACTIVITY_TRANSITION"}
    /\ listener.talking <=> detector.state \in {"ACTIVITY", "INACTIVITY_TRANSITION"}
    /\ detector.state = "INACTIVITY" =>
          listener.loud = 0 /\ listener.idle >= 0 /\ detector.duration = listener.idle * FrameTime
    /\ detector.state = "ACTIVITY_TRANSITION" =>
          listener.loud >= 1 /\ listener.idle = -1 /\ detector.duration = (listener.loud - 1) * FrameTime
    /\ detector.state = "ACTIVITY" => listener.loud >= 1 /\ listener.quiet = 0
    /\ detector.state = "INACTIVITY_TRANSITION" =>
          listener.quiet >= 1 /\ listener.loud = 0 /\ detector.duration = (listener.quiet - 1) * FrameTime
=============================================================================
