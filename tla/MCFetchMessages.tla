------------------------- MODULE MCFetchMessages --------------------------
(* The batched fetcher over the mailbox of FetchFixtures.                  *)
EXTENDS FetchMessages, FetchFixtures
=============================================================================
