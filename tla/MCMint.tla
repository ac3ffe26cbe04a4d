-------------------------------- MODULE MCMint --------------------------------
(* Instances of Mint, and with it of ProviderCalls, for model checking. *)
EXTENDS Mint
=============================================================================
