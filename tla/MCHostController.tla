--------------------------- MODULE MCHostController ---------------------------
(* One run of the controller, two process ids that are reused, and requests *)
(* for a profile, spelled differently from its section, and for SETTINGS,   *)
(* which is none.  Other runs act on the world as the user and the plugin   *)
(* do.                                                                      *)
EXTENDS HostController

MCName == {"", "SETTINGS", "Basic", "basic", "Deep", " Deep "}
MCFold == [n \in MCName |-> IF n = "basic" THEN "Basic" ELSE n]
MCTrim == [n \in MCName |-> IF n = " Deep " THEN "Deep" ELSE n]
MCListable == MCName \ {""}
MCFits(text) == Len(text) <= 4
MCText == <<Section("SETTINGS"), CurrentProfile(" Deep "), Section("Basic"), Section("Deep")>>
MCCommands == [c \in {"c1"} |-> {"status", "start", "stop", "restart", "profile"}]

=============================================================================
