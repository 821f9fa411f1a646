------------------------ MODULE MC_ErrorDescription ------------------------
(***************************************************************************)
(* Model values for ErrorDescription: success and SYNCML_DM_FAIL, and an  *)
(* uninitialised int that may hold zero or any other value.               *)
(***************************************************************************)
EXTENDS ErrorDescription

MC_ErrCodes == {0, 1}
MC_GarbageCodes == {0, 7}

=============================================================================
