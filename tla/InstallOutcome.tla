--------------------------- MODULE InstallOutcome ---------------------------
(***************************************************************************)
(* What installing a package promises, without saying how (the results of  *)
(* install.h): a package is first looked at, and either refused, with      *)
(* INSTALL_CORRUPT and everything as it was, or accepted; only then may    *)
(* the volumes change, and a firmware image be put by, of which there is   *)
(* one at most as long as recovery runs; and then the result is            *)
(* INSTALL_SUCCESS or INSTALL_ERROR.                                       *)
(***************************************************************************)
EXTENDS Naturals

INSTALL_SUCCESS == 0
INSTALL_ERROR == 1
INSTALL_CORRUPT == 2

VARIABLES
  stage,      \* "idle", "looking" or "installing"
  verdict,    \* the result of the last installation
  contents,   \* what the volumes of the device hold
  firmware    \* the image that is put by, or "NULL"
outcomeVars == <<stage, verdict, contents, firmware>>

OutcomeInit ==
  /\ stage = "idle"
  /\ verdict = INSTALL_SUCCESS
  /\ firmware = "NULL"

\* Between installations the user may format and mount: no step that leaves
\* the contents unmentioned says anything of them.
Maintain ==
  /\ stage = "idle"
  /\ UNCHANGED <<stage, verdict, firmware>>

Look ==
  /\ stage = "idle"
  /\ stage' = "looking"
  /\ UNCHANGED <<verdict, contents, firmware>>

Refuse ==
  /\ stage = "looking"
  /\ stage' = "idle"
  /\ verdict' \in {INSTALL_CORRUPT, INSTALL_ERROR}
  /\ UNCHANGED <<contents, firmware>>

Accept ==
  /\ stage = "looking"
  /\ stage' = "installing"
  /\ UNCHANGED <<verdict, contents, firmware>>

Change ==
  /\ stage = "installing"
  /\ UNCHANGED <<stage, verdict, firmware>>

\* The image may be put by with the installation's last step.
PutBy ==
  /\ stage = "installing"
  /\ firmware = "NULL"
  /\ firmware' # "NULL"
  /\ \/ UNCHANGED <<stage, verdict>>
     \/ stage' = "idle" /\ verdict' = INSTALL_SUCCESS
  /\ UNCHANGED contents

Finish ==
  /\ stage = "installing"
  /\ stage' = "idle"
  /\ verdict' \in {INSTALL_SUCCESS, INSTALL_ERROR}
  /\ UNCHANGED firmware

OutcomeNext == Maintain \/ Look \/ Refuse \/ Accept \/ Change \/ PutBy \/ Finish
OutcomeSpec == OutcomeInit /\ [][OutcomeNext]_outcomeVars
=============================================================================
