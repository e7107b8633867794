------------------------------- MODULE MCFat16 ------------------------------
(* A volume of two clusters on a drive that has room for one or two more.  *)
(* Words: a reserved cluster, the two of the volume, one beyond them that  *)
(* is on the drive and one that is not, a bad cluster and an end mark.     *)
(* The directory has three entries and two slots to a sector, so that its  *)
(* fourth slot is beyond them: the file is there, before or after the end  *)
(* mark, or nowhere.                                                       *)
EXTENDS Fat16

MCWords == {0, 2, 3, 4, 65526, 65527, 65528}

MCDirectories ==
  {<<"skip", "skip", "skip", "name">>, <<"skip", "name", "end", "name">>,
   <<"skip", "end", "name", "skip">>, <<"skip", "skip", "skip", "skip">>}
=============================================================================
