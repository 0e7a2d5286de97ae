--------------------------- MODULE MCSigningGate ---------------------------
(***************************************************************************)
(* An instance of SigningGate for TLC.                                     *)
(***************************************************************************)
EXTENDS SigningGate, TLC

Grants(number, artifact, context, expiry) ==
    [id |-> number, request |-> [artifact |-> artifact, context |-> context],
     expiresAt |-> expiry]

\* A registry with two grants, the first of which expires early; one in which
\* that grant is extended; and one that reuses its identifier for another
\* request and has two current grants for one artifact.
ReplacedRegistries ==
    {{Grants(1, "boot", "first", 1), Grants(2, "eeprom", "first", 2)},
     {Grants(1, "boot", "first", 2)},
     {Grants(1, "boot", "second", 2), Grants(2, "eeprom", "first", 2),
      Grants(3, "eeprom", "second", 1)}}

Symmetry == Permutations(Gates)
============================================================================
