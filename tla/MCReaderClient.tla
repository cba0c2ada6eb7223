--------------------------- MODULE MCReaderClient ---------------------------
(***************************************************************************)
(* ReaderClient for TLC: a chapter of two paragraphs.  The first page      *)
(* shows both, more than the rush takes; the second shows the last one.    *)
(***************************************************************************)
EXTENDS ReaderClient, TLC

CONSTANTS a, b, first, second
MCChapter == << a, b >>
MCFirst == (first :> 1) @@ (second :> 2)
MCLast == (first :> 2) @@ (second :> 2)
=============================================================================
