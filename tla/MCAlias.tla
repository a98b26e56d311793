------------------------------- MODULE MCAlias -------------------------------
(* Two nodes with one ID that want the same aliases in different orders. *)
EXTENDS Alias, TLC

CONSTANTS a, b

MCNodes == {a, b}
MCId == a :> 1 @@ b :> 1
MCAliasOf == a :> <<1, 2>> @@ b :> <<1, 3, 2>>

=============================================================================
