------------------------- MODULE MCMemoryFederation -------------------------
(***************************************************************************)
(* Two clients that between them start two operations on one id, over a    *)
(* private tier, a mounted folder that cannot delete, and the global tier; *)
(* the tiers may hold rows of an earlier session.  The clients are         *)
(* interchangeable.                                                        *)
(***************************************************************************)
EXTENDS MemoryFederation, TLC

MCTierOrder == <<"private", "vault", "global">>

MCClients == Permutations(Clients)

=============================================================================
