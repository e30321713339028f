--------------------------- MODULE MCRecoveryBoot ---------------------------
(***************************************************************************)
(* Values of RecoveryBoot's constants.  The requests are the scenarios of  *)
(* recovery.c's flow comment, one of them with an intent.                  *)
(***************************************************************************)
EXTENDS RecoveryBoot

ResetAndUpdate ==
  {{"wipe_data"}, {"wipe_cache"}, {"update_package", "send_intent"}}

UpdateBinaryOnNand == [nand : {TRUE}, amend : {FALSE}, firmware : BOOLEAN]
AmendFirmwareOnNand == [nand : {TRUE}, amend : {TRUE}, firmware : {TRUE}]
FirmwareOnEmmc == [nand : {FALSE}, amend : BOOLEAN, firmware : {TRUE}]

=============================================================================
