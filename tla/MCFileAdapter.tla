---------------------------- MODULE MCFileAdapter ----------------------------
(* The file adapter for TLC. *)
EXTENDS FileAdapter

CONSTANTS a, b, c, x

\* One chunk, two chunks, two chunks again: the same names, other contents.
MCPayload == {<<a>>, <<a, b, c>>, <<b, b, x>>}
=============================================================================
