-------------------------- MODULE MCWebhookServer --------------------------
(***************************************************************************)
(* One BOSHDeployment with a manifest and ops files in a ConfigMap and a   *)
(* Secret, which may be missing at first; or an ops file at a URL.         *)
(***************************************************************************)
EXTENDS WebhookServer

CM == <<"configmap", "ops">>
SEC == <<"secret", "ops">>
MCResources == {<<"configmap", "manifest">>, CM, SEC}
MCManifestOf == [r \in Requests |-> {<<"configmap", "manifest">>}]
MCRefsOf == {[r \in Requests |-> {CM, SEC}], [r \in Requests |-> {<<"url", "ops">>}]}
MCAtFirst == {MCResources, MCResources \ {SEC}}
MCCRDs == <<"boshdeployments", "extendedstatefulsets">>
=============================================================================
