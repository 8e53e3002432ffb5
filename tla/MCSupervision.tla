--------------------------- MODULE MCSupervision ---------------------------
(***************************************************************************)
(* Supervision for TLC: three services, with dependencies against the      *)
(* order of the directory and a name nobody defines, and with a cycle; the *)
(* session under the policy that restarts it and as the installer writes   *)
(* it, with a word the monitor does not know.                              *)
(***************************************************************************)
EXTENDS Supervision

Svc(name, restart, depends) ==
  [name |-> name, restart |-> restart, depends |-> depends]
MCServiceDirs ==
  {<<Svc("asde-session", "always", <<"net", "log">>),
     Svc("net", "on-failure", <<"nowhere", "log">>),
     Svc("log", "never", <<>>)>>,
   <<Svc("asde-session", "on-fail", <<"net">>),
     Svc("net", "on-failure", <<"log">>),
     Svc("log", "always", <<"net">>)>>}
=============================================================================
