---------------------------- MODULE MCConsolePage ----------------------------
(* ConsolePage for TLC: the page sees no file, so one stands for them all.  *)
EXTENDS ConsolePage

MCDownloadList == <<"api-results.jsonl">>

MCBundle == {"api-results.jsonl"}
=============================================================================
