----------------------------- MODULE MCDevNonce -----------------------------
(* DevNonce on a nonce space of eight values reserved three at a time, so    *)
(* that the last batch is cut at MaxNonce and the space is exhausted.        *)
EXTENDS DevNonce
=============================================================================
