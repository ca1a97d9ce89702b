--------------------------- MODULE MCStreamAdapter ---------------------------
(* The stream adapter for TLC. *)
EXTENDS StreamAdapter

CONSTANTS a, b

\* An empty chunk, and two payloads of two chunks that can be mixed up.
MCPayload == {<< >>, <<a, b>>, <<b, b>>}
=============================================================================
