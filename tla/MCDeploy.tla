------------------------------ MODULE MCDeploy ------------------------------
(***************************************************************************)
(* Model-checking instances of Deploy: runs of the script on one machine,  *)
(* one after the other for a staging and a production service, or two at   *)
(* once for the same.                                                      *)
(***************************************************************************)
EXTENDS Deploy

\* Whatever the operator wants to deploy.
Any == [d \in Run |-> Service]
=============================================================================
