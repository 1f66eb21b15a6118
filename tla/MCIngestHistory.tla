---------------------------- MODULE MCIngestHistory ----------------------------
(* The finite instance of the ingest protocol, with the history of the disk. *)
EXTENDS MCIngestProtocol, IngestHistory

\* The server ingests with the adapter profile of a later release than the one the
\* candidates are built by: content that has not changed is ingested once more.
MCLaterProfileOf == (rc :> profile1) @@ (native :> profile2)
==============================================================================
