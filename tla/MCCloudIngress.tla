--------------------------- MODULE MCCloudIngress ---------------------------
(* Instances of CloudIngress for TLC: one Telegram command, and a request   *)
(* of another class.                                                        *)
EXTENDS CloudIngress
CONSTANTS k1, k2

OneOfEach == {k1, k2}
OneKey    == {k1}
OtherKey  == {k2}
NoKeys    == {}
=============================================================================
