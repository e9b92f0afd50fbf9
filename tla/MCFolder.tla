-------------------------------- MODULE MCFolder --------------------------------
EXTENDS Folder, TLC

CONSTANTS work, home, net, docs, code, pics

MCParent == (docs :> work) @@ (code :> work) @@ (pics :> home)

==============================================================================
