--------------------------- MODULE UpdateContract ---------------------------
(***************************************************************************)
(* What an A/B update engine promises, without slots, journals or storage. *)
(* There is one confirmed image.  An offered image is tried for at most    *)
(* one boot; it becomes the confirmed image only while it is itself        *)
(* executing, and every other end of the trial leaves the confirmed image  *)
(* as it was.  The ECU enters only the confirmed image or, during a trial, *)
(* the image on trial; when it does is not the engine's to say.  A power   *)
(* cut changes none of this.                                               *)
(***************************************************************************)
CONSTANTS Images, None

VARIABLES confirmed,    \* the image every failed trial returns to
          trial,        \* the image on offer or on trial, or None
          phase,        \* "none", "offered" or "trying"
          powered,      \* the boot path has run since power came on
          executing     \* the image the ECU runs, None while off or booting

cvars == <<confirmed, trial, phase, powered, executing>>

Init ==
    /\ confirmed \in Images
    /\ trial = None
    /\ phase = "none"
    /\ powered = FALSE
    /\ executing = None

Offer ==
    /\ powered
    /\ phase = "none"
    /\ trial' \in Images
    /\ phase' = "offered"
    /\ UNCHANGED <<confirmed, powered, executing>>

\* A trial begins with the offer or with the next boot.
BeginTrial == phase = "offered" /\ phase' = "trying" /\ UNCHANGED trial

\* A trial that nobody confirmed is over, though its image executes until
\* the ECU enters another.
EndTrial == phase = "trying" /\ phase' = "none" /\ trial' = None

\* A boot never leaves things as they are while an update is in flight.
Boot ==
    /\ ~powered
    /\ powered'
    /\ BeginTrial \/ EndTrial \/ (phase = "none" /\ UNCHANGED <<phase, trial>>)
    /\ UNCHANGED <<confirmed, executing>>

Try ==
    /\ powered
    /\ BeginTrial
    /\ UNCHANGED <<confirmed, powered, executing>>

Abandon ==
    /\ powered
    /\ EndTrial
    /\ UNCHANGED <<confirmed, powered, executing>>

Enter ==
    /\ powered
    /\ executing' = IF phase = "trying" THEN trial ELSE confirmed
    /\ UNCHANGED <<confirmed, trial, phase, powered>>

Confirm ==
    /\ powered
    /\ phase = "trying"
    /\ executing = trial
    /\ confirmed' = trial
    /\ trial' = None
    /\ phase' = "none"
    /\ UNCHANGED <<powered, executing>>

PowerOff ==
    /\ powered
    /\ powered' = FALSE
    /\ executing' = None
    /\ UNCHANGED <<confirmed, trial, phase>>

Next == Offer \/ Boot \/ Try \/ Enter \/ Confirm \/ Abandon \/ PowerOff

Spec == Init /\ [][Next]_cvars
=============================================================================
