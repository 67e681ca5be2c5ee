---------------------------- MODULE DtmfDetector ----------------------------
(***************************************************************************)
(* libs/mpf/src/mpf_dtmf_detector.c: finds digits in the audio, window by  *)
(* window, and in the named events.  The Goertzel analysis of a window is  *)
(* its result, a digit or none.  The media thread finds digits, another    *)
(* thread takes them and resets the detector; only the buffer of digits is *)
(* guarded by the mutex when a digit is added.                             *)
(***************************************************************************)
EXTENDS Naturals, Sequences

CONSTANTS Found,       \* the digits
          NoDigit,     \* 0, no digit
          BufferLen,   \* MPF_DTMFDET_BUFFER_LEN
          Race,        \* the detector may be reset in the middle of a window's analysis
          MaxWindows,  \* bounds of the model: windows, and digits lost before a named
          MaxLost      \* event is tried

VARIABLES det_pc,      \* where the media thread is in goertzel_energies_digit
          inband,      \* MPF_DTMF_DETECTOR_INBAND of band
          buf,         \* the digits found, not taken yet
          lost_digits,
          curr, last1, last2,
          digit,       \* the local variable of goertzel_energies_digit
          read2,       \* last2 as that function has read it
          windows,     \* what the windows were, for the properties
          reported,    \* in which of them a digit was reported
          since        \* how many of them were before the last reset

dtmfVars == <<det_pc, inband, buf, lost_digits, curr, last1, last2, digit, read2, windows,
              reported, since>>

(* mpf_dtmf_detector_create_ex, for both bands *)
DtmfInit ==
    /\ det_pc = "idle" /\ inband = TRUE
    /\ buf = <<>> /\ lost_digits = 0
    /\ curr = NoDigit /\ last1 = NoDigit /\ last2 = NoDigit /\ digit = NoDigit /\ read2 = NoDigit
    /\ windows = <<>> /\ reported = {} /\ since = 0

(* mpf_dtmf_detector_add_digit *)
AddDigit(d) ==
    IF Len(buf) < BufferLen
    THEN buf' = Append(buf, d) /\ UNCHANGED lost_digits
    ELSE lost_digits' = lost_digits + 1 /\ UNCHANGED buf

(* goertzel_energies_digit, as far as curr is set *)
Window(d) ==
    /\ det_pc = "idle" /\ inband
    /\ Len(windows) < MaxWindows
    /\ digit' = d /\ read2' = last2
    /\ windows' = Append(windows, d)
    /\ IF d # curr /\ d # NoDigit /\ last1 = d /\ last2 = d
       THEN /\ curr' = d /\ det_pc' = "add"
            /\ reported' = reported \cup {Len(windows')}
       ELSE /\ curr' = IF d # curr /\ last1 # curr /\ last2 # curr THEN NoDigit ELSE curr
            /\ det_pc' = "shift"
            /\ UNCHANGED reported
    /\ UNCHANGED <<inband, buf, lost_digits, last1, last2, since>>

WindowAdds ==
    /\ det_pc = "add" /\ det_pc' = "shift"
    /\ AddDigit(digit)
    /\ read2' = last2
    /\ UNCHANGED <<inband, curr, last1, last2, digit, windows, reported, since>>

(* and its end: last2 may have been read before the other thread reset it *)
WindowShifts ==
    /\ det_pc = "shift" /\ det_pc' = "idle"
    /\ last1' \in {last2, read2}
    /\ last2' = digit
    /\ UNCHANGED <<inband, buf, lost_digits, curr, digit, read2, windows, reported, since>>

(* mpf_dtmf_detector_get_frame, for the first frame of an event *)
EventFrame(d) ==
    /\ det_pc = "idle"
    /\ lost_digits < MaxLost
    /\ inband' = FALSE
    /\ AddDigit(d)
    /\ UNCHANGED <<det_pc, curr, last1, last2, digit, read2, windows, reported, since>>

(* mpf_dtmf_detector_digit_get *)
DigitGet ==
    /\ buf # <<>>
    /\ buf' = Tail(buf)
    /\ UNCHANGED <<det_pc, inband, lost_digits, curr, last1, last2, digit, read2, windows, reported, since>>

(* mpf_dtmf_detector_reset *)
DtmfReset ==
    /\ det_pc = "idle" \/ Race
    /\ buf' = <<>> /\ lost_digits' = 0
    /\ curr' = NoDigit /\ last1' = NoDigit /\ last2' = NoDigit
    /\ since' = Len(windows)
    /\ UNCHANGED <<det_pc, inband, digit, read2, windows, reported>>

DtmfNext ==
    \/ \E d \in Found \cup {NoDigit} : Window(d)
    \/ WindowAdds
    \/ WindowShifts
    \/ \E d \in Found : EventFrame(d)
    \/ DigitGet
    \/ DtmfReset

DtmfSpec == DtmfInit /\ [][DtmfNext]_dtmfVars
-----------------------------------------------------------------------------
Same(n) == n >= 3 /\ windows[n] # NoDigit /\ windows[n - 1] = windows[n] /\ windows[n - 2] = windows[n]

(* "Three successive detections will trigger the detection"                *)
(* (goertzel_energies_digit): with the detector reset at any moment, a     *)
(* digit is reported only in the third of three windows that have it, and  *)
(* the buffer never holds more than it has room for.                       *)
ThreeSuccessive == (\A n \in reported : Same(n)) /\ Len(buf) <= BufferLen

\* the tone reported in window m goes on in window n: nothing else was reported, and
\* no three windows in a row were without it
GoesOn(m, n) ==
    /\ m \in reported /\ m > since /\ m < n /\ windows[m] = windows[n]
    /\ \A k \in m + 1 .. n - 1 : k \notin reported
    /\ \A k \in m + 3 .. n - 1 : \E i \in k - 2 .. k : windows[i] = windows[m]

(* goertzel_energies_digit reports a digit once for every tone: when the   *)
(* third window in a row since the last reset has it, unless a tone of the *)
(* same digit was reported and was interrupted for less than three         *)
(* windows.  A reset in the middle of the analysis of a window breaks this: *)
(* the window counts for the tone after the reset as well.                 *)
OncePerTone ==
    \A n \in since + 1 .. Len(windows) :
       n \in reported <=> Same(n) /\ n >= since + 3 /\ ~ \E m \in reported : GoesOn(m, n)
=============================================================================
