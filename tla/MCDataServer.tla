----------------------------- MODULE MCDataServer -----------------------------
(* Instances of DataServer for TLC; the configurations give the bounds.    *)
EXTENDS DataServer

(* The server may answer with the text the device looks for, or another.   *)
MCReplyTexts == {"ACK", "other"}
MCAckOnly == {"ACK"}
MCOkOnly == {"OK"}
=============================================================================
