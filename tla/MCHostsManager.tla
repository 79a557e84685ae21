--------------------------- MODULE MCHostsManager ---------------------------
(* Model checking the hosts manager with the sites card. *)
EXTENDS HostsManager

\* The folders a and a.testb: the domain a.test starts the domain a.testb.test.
PrefixSites == {<<"a">>, <<"a", ".test", "b">>}
=============================================================================
