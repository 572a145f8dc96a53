------------------------ MODULE MCFetchPerMessage -------------------------
(* The per-message fetcher over the mailbox of FetchFixtures.              *)
EXTENDS FetchPerMessage, FetchFixtures
=============================================================================
