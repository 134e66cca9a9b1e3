----------------------------- MODULE MCJsEngine -----------------------------
(***************************************************************************)
(* Instances of JsEngine for TLC.                                          *)
(***************************************************************************)
EXTENDS JsEngine
=============================================================================
