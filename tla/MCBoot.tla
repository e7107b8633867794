------------------------------- MODULE MCBoot -------------------------------
(* Three threads of the loops: enough for one to exit while another is     *)
(* being made and a third is reaping.  Without them the loops do nothing   *)
(* and the demos and the shell are what is left.                           *)
EXTENDS Boot

MCExitThreads == <<"exit1", "exit2">>
MCIsolatedThreads == <<"isolated1">>
MCNoThreads == <<>>
=============================================================================
