----------------------------- MODULE MCKeyStore -----------------------------
(* KeyStore with two ids: p1 and p2 generate a and b, p3 revokes a. *)
EXTENDS KeyStore, TLC

CONSTANTS p1, p2, p3, a, b

MCKey == (p1 :> a) @@ (p2 :> b) @@ (p3 :> a)
=============================================================================
