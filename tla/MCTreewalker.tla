---------------------------- MODULE MCTreewalker ----------------------------
(* A directory with two configurations and a request above two leaves, and    *)
(* beside it a leaf that inherits nothing: scenarios share cached files, one  *)
(* of which inherits another, and one scenario must not have them.  Three     *)
(* tasks can fill the channel of two workers and make the exploration wait.   *)
EXTENDS Treewalker

MCParent == <<0, 1, 2, 2, 1>>
MCFiles  == << <<>>,
               <<"1.scenario", "2.scenario", "login.sinq">>,
               <<"x.sinq">>,
               <<"y.sinq">>,
               <<"b.sinq">> >>
MCConfigFiles == {"1.scenario", "2.scenario"}
=============================================================================
