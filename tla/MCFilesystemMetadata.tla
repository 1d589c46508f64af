------------------------ MODULE MCFilesystemMetadata ------------------------
EXTENDS FilesystemRefinement, TLC

CONSTANTS a, b, d1, d2, f1, f2, x, y, n1, c1, c2

\* Paths of one and two components.
DeepPaths == [parents : {<<>>} \cup {<<n>> : n \in Names}, name : Names]

\* Paths of one component.
FlatPaths == [parents : {<<>>}, name : Names]

Symmetry == Permutations(Clients) \cup Permutations(Names)
              \cup Permutations(FileIds) \cup Permutations(DirIds \ {Root})
              \cup Permutations(ContentIds)
=============================================================================
