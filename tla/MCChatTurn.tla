---------------------------- MODULE MCChatTurn -----------------------------
(* The instance of ChatTurn that TLC checks.                                *)
EXTENDS ChatTurn, TLC
=============================================================================
