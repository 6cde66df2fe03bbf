-------------------------- MODULE MCBOSHDeployment --------------------------
(* Manifests for model checking BOSHDeployment. *)
EXTENDS BOSHDeployment

\* One group, replaced by another.
GroupReplaced == <<{"nats"}, {"smoke"}>>

\* One group.
OneGroup == <<{"nats"}, {"nats"}>>

\* A variable that every revision declares.
OneVar == <<{"password"}, {"password"}>>
=============================================================================
