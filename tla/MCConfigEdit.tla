---------------------------- MODULE MCConfigEdit ----------------------------
EXTENDS ConfigEdit

\* The first configuration asks the owner, the next allows, the last has lost
\* the workspace.
MCPolicy == [c \in 0..MaxContent |-> CASE c = 0 -> "ask" [] c = 1 -> "allow" [] OTHER -> "gone"]
MCConfigs == 0..MaxContent
=============================================================================
