---------------------------- MODULE MCDelegation ----------------------------
(***************************************************************************)
(* Chains of two plugins and of three.                                     *)
(***************************************************************************)
EXTENDS Delegation

BridgeChain == <<"bridge", "ipam">>
FlannelChain == <<"flannel", "bridge", "ipam">>
=============================================================================
