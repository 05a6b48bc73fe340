----------------------------- MODULE MCPublish -----------------------------
(* Small instances of PublishQuiet for TLC. *)
EXTENDS PublishQuiet, TLC

CONSTANTS base, ours, theirs   \* ours and theirs are both children of base
CONSTANTS safe, unsafe         \* configurations

MCCommits  == {base, ours, theirs}
MCAncestry == {<<base, ours>>, <<base, theirs>>}
MCConfigs  == {safe, unsafe}
MCSafe     == {safe}
=============================================================================
