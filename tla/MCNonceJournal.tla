--------------------------- MODULE MCNonceJournal ---------------------------
(* Pages of two data slots: every save after the second one on a page is     *)
(* followed by a reclamation.  A reclaimed journal starts just before the    *)
(* sequence numbers wrap, in its records or in those to come.                *)
EXTENDS NonceJournal
MCStarts == {SeqSpan - 10, SeqSpan - 2}
=============================================================================
