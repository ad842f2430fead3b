-------------------------- MODULE MCIdleUiaSender --------------------------
(* Two replies, the second of them new or a copy of the first. *)
EXTENDS IdleUiaSender

CONSTANTS text, quote, image

Nothing == {}
Plain == {text}
Quoted == {quote}
Pictures == {image}
TextAndQuote == {text, quote}
=============================================================================
