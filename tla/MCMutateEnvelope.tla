-------------------------- MODULE MCMutateEnvelope --------------------------
(***************************************************************************)
(* An instance of MutateEnvelope for TLC: three versions of one            *)
(* transaction, one of another, and keys that different requests share.    *)
(***************************************************************************)
EXTENDS MutateEnvelope

Sends(key, transaction, version, body) ==
    [key |-> key, transaction |-> transaction, version |-> version, body |-> body]

\* Two clients race for each version of "t"; "a" reuses its key.
RacingRequests ==
    {Sends("a", "t", 1, "x"), Sends("b", "t", 1, "y"),
     Sends("c", "t", 2, "x"), Sends("d", "t", 2, "y"), Sends("a", "t", 2, "y"),
     Sends("e", "t", 3, "x"), Sends("b", "u", 1, "x"), Sends("f", "u", 1, "y")}
=============================================================================
