------------------------------- MODULE MCHost --------------------------------
(* Two readers and two workers; three commands with a fault in each part. *)
EXTENDS Host

MCReaderSeq == << "cwa", "kavita" >>
=============================================================================
