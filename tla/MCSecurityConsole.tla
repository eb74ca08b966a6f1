-------------------------- MODULE MCSecurityConsole --------------------------
(* SecurityConsole for TLC: threads of one kind are interchangeable, and a  *)
(* record that grows, the capture and the last name of the list stand for   *)
(* the thirteen names.                                                      *)
EXTENDS SecurityConsole, TLC

MCDownloadList == <<"api-results.jsonl", "packets.pcap", "manifest.json">>

MCBundle == {"api-results.jsonl", "packets.pcap", "manifest.json"}

ThreadSymmetry == Permutations(Requesters) \cup Permutations(Pollers)
=============================================================================
