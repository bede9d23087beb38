---------------------------- MODULE MCPolicyLaws ----------------------------
(* A literal and a wildcard pattern; a rule for any target and for one.     *)
EXTENDS PolicyLaws

MCRoutes   == {<<"form">>, <<"1">>, <<"form", "1">>}
MCPatterns == {<<"form">>, <<Wild>>}
MCTargets  == {NoName, "Confirm"}
=============================================================================
