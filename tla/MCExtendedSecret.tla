-------------------------- MODULE MCExtendedSecret --------------------------
(***************************************************************************)
(* Model values for the runs of ExtendedSecret: a CA with a certificate it *)
(* signs, or a certificate that the cluster signs.                         *)
(***************************************************************************)
EXTENDS ExtendedSecret

CertNames == {"ca", "leaf", "cert"}
CertKinds == [ca |-> "ca", leaf |-> "leaf", cert |-> "csr"]
CertDeployments == {{"ca", "leaf"}, {"cert"}}

Root == [root |-> "ca"]
RootNames == {"root"}
RootDeployments == {RootNames}

Nobody == {}
Leaves == {"leaf"}
Certs == {"leaf", "cert"}
=============================================================================
