----------------------------- MODULE MCBriefs ------------------------------
(* The instance of Briefs that TLC checks; its constants are numbers.        *)
EXTENDS Briefs, TLC
=============================================================================
