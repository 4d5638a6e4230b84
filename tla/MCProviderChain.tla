--------------------------- MODULE MCProviderChain ---------------------------
(* An instance of ProviderChain for TLC: either provider comes first once. *)
EXTENDS ProviderChain

CONSTANTS eastmoney, ths

MCChains == << <<eastmoney, ths>>, <<ths, eastmoney>> >>
=============================================================================
