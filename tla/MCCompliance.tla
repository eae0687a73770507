---------------------------- MODULE MCCompliance ----------------------------
(***************************************************************************)
(* Small instances of Compliance and, for one run, of the browser's copy   *)
(* of the status graphs.  A .cfg gives the codes of each aggregate, which  *)
(* of them the database is seeded with and in which status (database.go    *)
(* seeds the statuses used here), and one bound on the versions of each    *)
(* aggregate; Seed and MaxVersion follow from these.                       *)
(***************************************************************************)
EXTENDS WorkbenchStatus, TLC

CONSTANTS
    Seeded,           \* the codes on record when the server starts
    GeneratorSeed,    \* status of the seeded generators
    CarrierSeed,      \* status of the seeded carriers
    ManifestSeed,     \* status of the seeded manifests
    CheckSeed,        \* status of the seeded checks
    GeneratorVersions,\* last version of a generator
    CarrierVersions,  \* last version of a carrier
    ManifestVersions, \* last version of a manifest
    CheckVersions     \* last version of a check

SomeCode(S) == IF S = {} THEN None ELSE CHOOSE x \in S : TRUE

SeedRow(x) ==
    CASE x \in Generators -> [NewRow(GeneratorSeed) EXCEPT !.expiresAt = 1]
      [] x \in Carriers   -> [NewRow(CarrierSeed) EXCEPT !.expiresAt = 1]
      [] x \in Manifests  -> [NewRow(ManifestSeed) EXCEPT !.generator = SomeCode(Generators \cap Seeded),
                                                          !.carrier = SomeCode(Carriers \cap Seeded)]
      [] OTHER            -> [NewRow(CheckSeed) EXCEPT !.manifest = SomeCode(Manifests \cap Seeded)]

MCSeed == [x \in Records |-> IF x \in Seeded THEN SeedRow(x) ELSE AbsentRow]

MCMaxVersion ==
    [x \in Records |-> CASE x \in Generators -> GeneratorVersions
                         [] x \in Carriers  -> CarrierVersions
                         [] x \in Manifests -> ManifestVersions
                         [] OTHER           -> CheckVersions]

Slots == Permutations(Requests)
=============================================================================
