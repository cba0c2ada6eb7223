--------------------------- MODULE MCHubMigration ----------------------------
(* Two readers, each with an API and a proxy. *)
EXTENDS HubMigration

MCReaderSeq == << "cwa", "kavita" >>
=============================================================================
