--------------------------- MODULE MCClassSetUnion ---------------------------
(* Model-checking instance of ClassSetUnion: two item variants, items of   *)
(* one or two bytes, a gap of up to one byte, in a pattern of six bytes    *)
(* (room for three items after the bracket).                               *)
EXTENDS ClassSetUnion

CONSTANTS Literal, Range

MCItemKinds == {Literal, Range}

=============================================================================
