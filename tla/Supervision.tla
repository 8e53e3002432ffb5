---------------------------- MODULE Supervision ----------------------------
(***************************************************************************)
(* The service monitor with the desktop session as one of its services     *)
(* (asde-session.svc): launching that service begins a session, the end or *)
(* the crash of the session manager is the exit of the service.  What it   *)
(* leaves running is no longer its own and is forgotten.                   *)
(***************************************************************************)
EXTENDS Svcmon, SessionMgr

supVars == <<svcVars, sessionVars>>

SupInit == InitSvc /\ InitSession

Session == {i \in Index(defs) : defs[i].name = "asde-session"}

\* A session that has just been launched, or the one there was.
Begins(idx, ok) ==
  IF idx \in Session /\ ok
  THEN sm' = Fresh /\ desk' = <<>> /\ chld' = FALSE /\ UNCHANGED deaths
  ELSE UNCHANGED sessionVars

Launch(ok) ==
  \/ start_all(ok) /\ Begins(order[mon.i], ok)
  \/ Relaunch(ok) /\ Begins(mon.i, ok)

Gone == sm' = NoSession /\ desk' = <<>> /\ chld' = FALSE /\ UNCHANGED deaths

SessionEnds ==
  /\ sm.pc = "done"
  /\ \E i \in Session : ServiceExits(i, 0)
  /\ Gone

SessionCrashes ==
  /\ sm.pc \notin {"none", "done"}
  /\ \E i \in Session : ServiceExits(i, 1)
  /\ Gone

OtherExits ==
  \E i \in Index(defs) \ Session, code \in {0, 1} :
    ServiceExits(i, code) /\ UNCHANGED sessionVars

System ==
  \/ \E ok \in BOOLEAN : Launch(ok)
  \/ Watch /\ UNCHANGED sessionVars
  \/ SessionStep /\ UNCHANGED svcVars

Environment ==
  \/ OtherExits \/ SessionCrashes
  \/ (on_term \/ \E pid \in DOMAIN desk : Dies(pid)) /\ UNCHANGED svcVars

SupNext == System \/ SessionEnds \/ Environment

\* The monitor's loop goes on for ever, and the session manager is scheduled
\* and gets its signals.
SupSpec ==
  /\ SupInit /\ [][SupNext]_supVars
  /\ WF_supVars((\E ok \in BOOLEAN : Launch(ok)) \/ (Watch /\ UNCHANGED sessionVars))
  /\ WF_supVars(SessionStep /\ UNCHANGED svcVars)
=============================================================================
