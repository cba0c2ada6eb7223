------------------------ MODULE MCStreamTranslation ------------------------
(* A small instance of StreamTranslation.                                  *)
EXTENDS StreamTranslation

OneCall == [inputBytes |-> 1, outputTokens |-> 1]
=============================================================================
