------------------------ MODULE MCProviderSupervisor ------------------------
(* Instances of ProviderSupervisor for TLC; every bound is in the .cfg.    *)
EXTENDS ProviderSupervisor
=============================================================================
