--------------------------- MODULE MCNeFSCatalog ----------------------------
(***************************************************************************)
(* NeFSCatalog on a small disk.                                            *)
(***************************************************************************)
EXTENDS NeFSCatalog

CONSTANTS dir, file, short   \* components "dir/", "file" and "s"

MCComps == {dir, file, short}

\* The root, a file, a directory, and in the directory a file, a file of one
\* character and a directory with a file of its own.
MCPaths == {<<>>, <<file>>, <<dir>>, <<dir, file>>, <<dir, short>>,
            <<dir, dir>>, <<dir, dir, file>>}
=============================================================================
