-------------------------------- MODULE Tray --------------------------------
(***************************************************************************)
(* The tray program (cmd/pingrank-tray): one process per signed-in session *)
(* at most, held to that by a named mutex.  It starts with the session     *)
(* (the Run key) or when the service launches it, both with --startup, or  *)
(* by the player's hand; it polls the status file and closes when the file *)
(* says an update is being installed; its menu stops the service.          *)
(*                                                                         *)
(* Nothing is modelled of the window, the icon and the menu's other items. *)
(***************************************************************************)
EXTENDS Naturals

CONSTANT Sessions     (* Windows sessions: one user each                   *)

VARIABLES
  svc,            (* the service, as the service control manager sees it:
                     "stopped", "starting", "running", and "stopping" until
                     the process writes its last status, then "final"      *)
  file,           (* State in status.json                                  *)
  fresh,          (* ... written less than ten minutes ago                 *)
  enabled,        (* AutoUpdate in the registry                            *)
  session,        (* per session: "out", "active" or "disconnected"        *)
  tray,           (* the process holding the mutex: "none", "starting",
                     "ensuring", "open"; in the exit menu "asking" for
                     approval, "exiting" while the service stops           *)
  startup,        (* ... was it started with --startup                     *)
  disabled,       (* the user's tray-disabled marker                       *)
  (* history *)
  closedByPlayer, (* the player chose Exit, and has not started it since   *)
  owed            (* an update closed it; nobody has left the session,
                     started it by hand or stopped the service since       *)

status   == <<file, fresh>>
sessions == <<session, tray, startup, disabled, closedByPlayer, owed>>

(* What starting the program does: nothing while another one runs.         *)
Launched(who, byStartup) ==
  LET new == {s \in who : tray[s] = "none"}
  IN  /\ tray' = [s \in Sessions |-> IF s \in new THEN "starting" ELSE tray[s]]
      /\ startup' = [s \in Sessions |-> IF s \in new THEN byStartup ELSE startup[s]]

-----------------------------------------------------------------------------
(* main *)

(* --startup gives way to the marker. *)
StartupCheck(s) ==
  /\ tray[s] = "starting"
  /\ tray' = [tray EXCEPT ![s] = IF startup[s] /\ disabled[s] THEN "none" ELSE "ensuring"]
  /\ UNCHANGED <<svc, status, enabled, session, startup, disabled, closedByPlayer, owed>>

(* The service runs.  A start by hand clears the marker. *)
ServiceFound(s) ==
  /\ tray[s] = "ensuring"
  /\ svc = "running"
  /\ tray' = [tray EXCEPT ![s] = "open"]
  /\ disabled' = [disabled EXCEPT ![s] = @ /\ startup[s]]
  /\ owed' = [owed EXCEPT ![s] = FALSE]
  /\ UNCHANGED <<svc, status, enabled, session, startup, closedByPlayer>>

(* Only a start by hand asks for the administrator's approval to start it. *)
ServiceStarted(s) ==
  /\ tray[s] = "ensuring"
  /\ ~ startup[s]
  /\ svc = "stopped"
  /\ svc' = "starting"
  /\ UNCHANGED <<status, enabled, sessions>>

(* Not running, or not in time, or not approved. *)
ServiceMissing(s) ==
  /\ tray[s] = "ensuring"
  /\ svc # "running"
  /\ tray' = [tray EXCEPT ![s] = "none"]
  /\ UNCHANGED <<svc, status, enabled, session, startup, disabled, closedByPlayer, owed>>

-----------------------------------------------------------------------------
(* refreshStatus, every two seconds *)
ClosesForUpdate == file = "updating" /\ fresh

RefreshStatus(s) ==
  /\ tray[s] = "open"
  /\ ClosesForUpdate
  /\ tray' = [tray EXCEPT ![s] = "none"]
  /\ owed' = [owed EXCEPT ![s] = session[s] = "active"]
  /\ UNCHANGED <<svc, status, enabled, session, startup, disabled, closedByPlayer>>

(* Nothing for the program to do, until something changes. *)
TrayRests(s) ==
  \/ tray[s] \in {"none", "asking", "exiting"}
  \/ tray[s] = "open" /\ ~ ClosesForUpdate

(* The exit menu: stopService asks for approval, unless the service is     *)
(* stopped already.  The window handles nothing else until it returns.     *)
ExitMenu(s) ==
  /\ tray[s] = "open"
  /\ svc # "stopped"
  /\ tray' = [tray EXCEPT ![s] = "asking"]
  /\ UNCHANGED <<svc, status, enabled, session, startup, disabled, closedByPlayer, owed>>

ExitApproved(s) ==
  /\ tray[s] = "asking"
  /\ svc = "running"
  /\ tray' = [tray EXCEPT ![s] = "exiting"]
  /\ svc' = "stopping"
  /\ UNCHANGED <<status, enabled, session, startup, disabled, closedByPlayer, owed>>

(* The marker is in place before the mutex is released. *)
ExitDone(s) ==
  /\ tray[s] \in {"open", "exiting"}
  /\ svc = "stopped"
  /\ disabled' = [disabled EXCEPT ![s] = TRUE]
  /\ tray' = [tray EXCEPT ![s] = "none"]
  /\ closedByPlayer' = [closedByPlayer EXCEPT ![s] = TRUE]
  /\ UNCHANGED <<svc, status, enabled, session, startup, owed>>

(* Declined or refused; or the service has not stopped within 25 s. *)
ExitFailed(s) ==
  /\ tray[s] = "asking" \/ (tray[s] = "exiting" /\ svc # "stopped")
  /\ tray' = [tray EXCEPT ![s] = "open"]
  /\ UNCHANGED <<svc, status, enabled, session, startup, disabled, closedByPlayer, owed>>

SetEnabled(on) == enabled' = on

(* By way of an elevated "pingrank updates on|off". *)
ToggleAutoUpdate ==
  /\ SetEnabled(~ enabled)
  /\ UNCHANGED <<svc, status, sessions>>

-----------------------------------------------------------------------------
(* The user *)

(* Signing in runs the Run key's command. *)
SignIn(s) ==
  /\ session[s] = "out"
  /\ session' = [session EXCEPT ![s] = "active"]
  /\ Launched({s}, TRUE)
  /\ UNCHANGED <<svc, status, enabled, disabled, closedByPlayer, owed>>

StartByHand(s) ==
  /\ session[s] = "active"
  /\ tray[s] = "none"
  /\ Launched({s}, FALSE)
  /\ closedByPlayer' = [closedByPlayer EXCEPT ![s] = FALSE]
  /\ owed' = [owed EXCEPT ![s] = FALSE]
  /\ UNCHANGED <<svc, status, enabled, session, disabled>>

(* Another user takes the screen, or the remote connection is dropped.     *)
Disconnect(s) ==
  /\ session[s] = "active"
  /\ session' = [session EXCEPT ![s] = "disconnected"]
  /\ owed' = [owed EXCEPT ![s] = FALSE]
  /\ UNCHANGED <<svc, status, enabled, tray, startup, disabled, closedByPlayer>>

Reconnect(s) ==
  /\ session[s] = "disconnected"
  /\ session' = [session EXCEPT ![s] = "active"]
  /\ UNCHANGED <<svc, status, enabled, tray, startup, disabled, closedByPlayer, owed>>

SignOut(s) ==
  /\ session[s] # "out"
  /\ session' = [session EXCEPT ![s] = "out"]
  /\ tray' = [tray EXCEPT ![s] = "none"]
  /\ owed' = [owed EXCEPT ![s] = FALSE]
  /\ UNCHANGED <<svc, status, enabled, startup, disabled, closedByPlayer>>

-----------------------------------------------------------------------------
TrayInit ==
  /\ svc = "stopped"
  /\ file = "none" /\ fresh = FALSE
  /\ enabled = TRUE
  /\ session = [s \in Sessions |-> "out"]
  /\ tray = [s \in Sessions |-> "none"]
  /\ startup = [s \in Sessions |-> FALSE]
  /\ disabled = [s \in Sessions |-> FALSE]
  /\ closedByPlayer = [s \in Sessions |-> FALSE]
  /\ owed = [s \in Sessions |-> FALSE]

(* Every step of the program that waits for nobody's decision. *)
TrayRuns(s) == StartupCheck(s) \/ ServiceFound(s) \/ RefreshStatus(s)

TrayNext ==
  \/ \E s \in Sessions :
       \/ TrayRuns(s) \/ ServiceStarted(s) \/ ServiceMissing(s)
       \/ ExitMenu(s) \/ ExitApproved(s) \/ ExitDone(s) \/ ExitFailed(s)
       \/ SignIn(s) \/ StartByHand(s) \/ Disconnect(s) \/ Reconnect(s) \/ SignOut(s)
  \/ ToggleAutoUpdate

-----------------------------------------------------------------------------
(* Exit means exit: neither signing in nor the end of an update brings     *)
(* back a tray its user closed from the menu.                              *)
OnPurposeStaysClosed ==
  \A s \in Sessions : closedByPlayer[s] => tray[s] # "open"
=============================================================================
