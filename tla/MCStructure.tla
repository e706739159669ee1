---------------------------- MODULE MCStructure ----------------------------
(* Small instances of Structure for TLC.                                    *)
EXTENDS Structure, TLC

Symmetric == Permutations(Folder)

\* Bounds: a page is followed while the document has one version, not processed yet, and
\* nothing is due; a dry run while nothing is due; a document that has a second version is
\* not purged.
OneVersion == \A d \in Document, v \in Version : v > 1 => version[d][v] = "none"

NothingProcessed == OneVersion /\ \A d \in Document : version[d][1] # "ready"

FollowedEarly ==
  \/ client.pc = "away" /\ (due > 0 => OneVersion)
  \/ due = 0 /\ (client.pc = "review" \/ NothingProcessed)
=============================================================================
