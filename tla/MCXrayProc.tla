------------------------------ MODULE MCXrayProc ------------------------------
(* What the models of XrayProc need: nothing but the module itself.         *)
EXTENDS XrayProc
===============================================================================
