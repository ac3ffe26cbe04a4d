----------------------------- MODULE MCSigningFlow -----------------------------
(* Instances of SigningFlow for model checking. *)
EXTENDS SigningFlow

MCHosts == {"iframe", "sdk", "webview"}
MCWebView == {"webview"}
=============================================================================
