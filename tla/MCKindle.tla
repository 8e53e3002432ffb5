------------------------------ MODULE MCKindle ------------------------------
(* Three services with the three policies; the second needs the first.     *)
(* Four pids: a record may hold a dead one while its service is restarted. *)
EXTENDS Kindle
MCRestart == <<"on-fail", "always", "never">>
MCDepends == <<{}, {1}, {}>>
=============================================================================
