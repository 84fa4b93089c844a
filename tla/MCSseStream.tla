---------------------------- MODULE MCSseStream ----------------------------
(***************************************************************************)
(* Chunks for SseStream: pieces that cut a stream between a field and its  *)
(* colon, inside a value, inside a line end and between lines and events.  *)
(***************************************************************************)
EXTENDS SseStream

CONSTANTS x     \* a byte of text

Pieces ==
    {<<x>>, <<CR>>, <<LF>>, <<DataField, Colon>>, <<Colon, x>>,
     <<DataField, Colon, Space>>, <<x, LF, LF, DataField>>}
=============================================================================
