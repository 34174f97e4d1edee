--------------------------- MODULE MCForwardChain ---------------------------
(***************************************************************************)
(* Small instances of ForwardChain: two values of the CIDRs, FORWARD       *)
(* rewritten to nothing or to another program's rules, one or no KUBE-     *)
(* chain per backend.                                                      *)
(***************************************************************************)
EXTENDS ForwardChain

CONSTANTS c1, c2, nochain

MCCidrs     == {c1, c2}
MCRewritten == {<<>>, <<"docker", "other">>}
MCKubeCount == {0, 1}
MCInstalled == {"nft", "legacy"}
=============================================================================
