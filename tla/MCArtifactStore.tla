-------------------------- MODULE MCArtifactStore ---------------------------
(* Two processes, and three artifacts of which the first is the longest. *)
EXTENDS ArtifactStore

MCLonger == {<<"a1", "a2">>, <<"a1", "a3">>}
=============================================================================
