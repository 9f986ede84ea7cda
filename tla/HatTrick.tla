------------------------------ MODULE HatTrick ------------------------------
(***************************************************************************)
(* The guiding monitor event_monitor4.pl beside a GoQat sequence: while a  *)
(* frame is being taken and Lin_guider reports an error beyond the         *)
(* tolerance it has GoQat close the shutter, and opens it again when the   *)
(* star is back.  It uses the same Commands.txt as the sequence.           *)
(***************************************************************************)
EXTENDS QsiImaging

VARIABLES
  hattrick, \* $hattrick
  monitor,  \* the monitor: receiving, or between two of its commands
  alert     \* the last shutter line it has written to alert.txt since the boot

hatVars == <<hattrick, monitor, alert>>
vars == <<qsiVars, hatVars>>

HatTypeOK ==
  /\ TypeOK
  /\ hattrick \in BOOLEAN
  /\ monitor \in {"recv", "Close", "Open", "CloseSet", "OpenSet"}
  /\ alert \in {"Close", "Open"}

HatInit ==
  /\ Init
  /\ hattrick = FALSE /\ monitor = "recv" /\ alert = "Open"

qsiButSlot == <<fileVars, cameraVars, imageVars, seqVars, requestVars, count>>

(* A datagram from Lin_guider: with a frame in progress the error decides; *)
(* otherwise the flag is dropped.  Whether it is armed (the page's file    *)
(* hattrick, guiding, and exposures of 30 seconds or more) users may       *)
(* change between any two messages.                                        *)
Message(armed, beyond) ==
  /\ monitor = "recv"
  /\ \/ /\ ~statusCapture
        /\ hattrick' = FALSE
        /\ UNCHANGED <<slotVars, monitor>>
     \/ /\ statusCapture /\ armed /\ beyond /\ ~hattrick
        /\ hattrick' = TRUE
        /\ Write("selectClose", "monitor")
        /\ monitor' = "Close"
     \/ /\ statusCapture /\ armed /\ ~beyond /\ hattrick
        /\ hattrick' = FALSE
        /\ Write("selectOpen", "monitor")
        /\ monitor' = "Open"
  /\ UNCHANGED <<qsiButSlot, alert>>

\* mutant: the button is pressed without a pause after the selection
SetShutterAtOnce ==
  /\ monitor \in {"Close", "Open"}
  /\ Write("setShutter", "monitor")
  /\ monitor' = IF monitor = "Close" THEN "CloseSet" ELSE "OpenSet"
  /\ UNCHANGED <<qsiButSlot, hattrick, alert>>

(* btnCConfSetShutOpen, 0.3 s after the selection.                         *)
SetShutter ==
  /\ monitor \in {"Close", "Open"}
  /\ Paused("monitor")
  /\ Write("setShutter", "monitor")
  /\ monitor' = IF monitor = "Close" THEN "CloseSet" ELSE "OpenSet"
  /\ UNCHANGED <<qsiButSlot, hattrick, alert>>

(* "Hat-trick: Shutter Closed." or "Open.", 0.3 s later.                   *)
Report ==
  /\ monitor \in {"CloseSet", "OpenSet"}
  /\ Paused("monitor")
  /\ alert' = IF monitor = "CloseSet" THEN "Close" ELSE "Open"
  /\ monitor' = "recv"
  /\ UNCHANGED <<qsiVars, hattrick>>

(* A power cut ends the monitor, too; rc.local starts it afresh.           *)
HatPowerCut ==
  /\ PowerCut
  /\ hattrick' = FALSE /\ monitor' = "recv" /\ alert' = "Open"

Next ==
  \/ QsiStep /\ UNCHANGED hatVars
  \/ HatPowerCut
  \/ \E armed, beyond \in BOOLEAN : Message(armed, beyond)
  \/ SetShutter \/ Report

Spec == HatInit /\ [][Next]_vars
FairSpec == Spec /\ QsiFairness /\ SF_vars(SetShutter \/ Report)
-----------------------------------------------------------------------------
(* alert.txt reads "Hat-trick: Shutter Closed." or "Open."                 *)
(* (event_monitor4.pl:100): between messages that is how the shutter has   *)
(* been set, although the sequence, a stop and its watcher write to the    *)
(* same file between the monitor's two commands, as long as none of them   *)
(* has overwritten one of the monitor's before GoQat read it.              *)
ShutterAsReported ==
  monitor = "recv" /\ lost \cap {"selectClose", "selectOpen", "setShutter"} = {} =>
    shutter = alert
=============================================================================
