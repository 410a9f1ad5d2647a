-------------------------------- MODULE MCEditor ----------------------------------
(* Editor on the initial canvas and on the templates.                         *)
EXTENDS Editor

AllTemplates == DOMAIN DagTemplates
=============================================================================
