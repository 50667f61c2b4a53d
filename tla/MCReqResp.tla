----------------------------- MODULE MCReqResp -----------------------------
(* ReqResp for TLC.                                                        *)
EXTENDS ReqResp
=============================================================================
