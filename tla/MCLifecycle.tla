---------------------------- MODULE MCLifecycle ----------------------------
(***************************************************************************)
(* Two interfaces, two user servers; a crash needs a second start to show  *)
(* what it has left behind.                                                *)
(***************************************************************************)
EXTENDS Lifecycle

CONSTANTS en0, en1, one, two

MCInterfaces == {en0, en1}
MCServers == {one, two}

AllPlatforms == Platforms

(* On linux each interface adds lines to one file, where a single one      *)
(* does.                                                                   *)
MCListings == [p \in Platforms |-> IF p = "linux" THEN {{}, {en0}} ELSE SUBSET MCInterfaces]

(* One interface with a server of its own, the other without.              *)
OwnServers == [c \in MCInterfaces \X {"v4", "v6"} |-> IF c = <<en0, "v4">> THEN {one} ELSE {}]
Configs == {[servers |-> OwnServers, resolvConf |-> file] : file \in {<<one, two>>}}
=============================================================================
