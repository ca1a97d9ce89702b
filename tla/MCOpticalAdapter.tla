--------------------------- MODULE MCOpticalAdapter ---------------------------
(* The optical adapter for TLC. *)
EXTENDS OpticalAdapter

CONSTANTS a, b

\* One chunk, two, and more chunks than the reassembler allows.  Two loops of
\* one payload under two session ids differ in every chunk.
MCPayload == {<<a>>, <<a, b, a>>, <<a, b, a, b, a>>}
=============================================================================
