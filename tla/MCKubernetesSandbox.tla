------------------------ MODULE MCKubernetesSandbox -------------------------
(* A small instance of KubernetesSandbox for TLC. *)
EXTENDS KubernetesSandbox
=============================================================================
