----------------------------- MODULE MCPlatform -----------------------------
(* A small instance of Platform for TLC. *)
EXTENDS Platform

\* what one may type, with the names, addresses and branches it occurs in
Texts ==
  [prod |-> {"prod-apps", "prod-cluster", "prod-cluster-eu", "azure-prod-west"},
   main |-> {"main"}]

\* typed into the address bar: pages, and ids that do not exist or belong apart
SomeUrls ==
  {<<>>, <<"deployments">>, <<"clusters">>, <<"login">>, <<"deployments", "2">>,
   <<"deployments", "7">>, <<"deployments", "1", "2-1">>, <<"settings">>}
=============================================================================
