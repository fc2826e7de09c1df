----------------------------- MODULE MCCaseRoom -----------------------------
(* One case and one claim; two requests, one of which may outlive its stream,*)
(* one reset and one signature.  The violation runs take the same module.    *)
EXTENDS CaseRoom

CONSTANTS c1, breach, inconclusive
=============================================================================
