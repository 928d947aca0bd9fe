--------------------------- MODULE MCRunDelivery ---------------------------
(***************************************************************************)
(* Values of the constants of RunDelivery for TLC.                         *)
(***************************************************************************)
EXTENDS RunDelivery

CONSTANTS task, reply, stop

OneReply == {reply}
ReplyAndStop == {reply, stop}
OneStop == {stop}
NoStop == {}
=============================================================================
