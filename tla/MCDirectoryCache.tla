-------------------------- MODULE MCDirectoryCache --------------------------
(* Instances of DirectoryCache for TLC. *)
EXTENDS DirectoryCache

CONSTANTS src, lib

\* The second class path leaves out a directory.
TwoPaths == {<<src, lib>>, <<lib>>}
=============================================================================
