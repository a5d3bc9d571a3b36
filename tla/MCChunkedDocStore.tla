------------------------- MODULE MCChunkedDocStore -------------------------
(* Model-checking instance of ChunkedDocStore: in chunks of one or two     *)
(* bytes these payloads have no chunk, one, a full and a partial one, two  *)
(* or three.                                                               *)
EXTENDS ChunkedDocStore

MCPayload == {<<>>, <<1>>, <<2, 1>>, <<1, 2, 1>>}

=============================================================================
