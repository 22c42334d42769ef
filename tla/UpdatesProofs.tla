---------------------------- MODULE UpdatesProofs ----------------------------
(***************************************************************************)
(* Updates.tla and Tray.tla for any sessions and any releases: what the    *)
(* status file says, which staging folders are left, which games an update *)
(* interrupts, and that a tray its user closed stays closed.               *)
(***************************************************************************)
EXTENDS Updates, Integers, TLAPS

-----------------------------------------------------------------------------
(* The inductive invariant *)

TrayStates == {"none", "starting", "ensuring", "open", "asking", "exiting"}

TrayTypes ==
  /\ tray \in [Sessions -> TrayStates]
  /\ startup \in [Sessions -> BOOLEAN]
  /\ disabled \in [Sessions -> BOOLEAN]
  /\ closedByPlayer \in [Sessions -> BOOLEAN]

(* Closed from the menu, a tray has left the marker, and what may be       *)
(* starting is a program that will give way to it.                         *)
GivesWay ==
  \A s \in Sessions : closedByPlayer[s] =>
    disabled[s] /\ (tray[s] = "none" \/ (tray[s] = "starting" /\ startup[s]))

Numbers == staged \in Int /\ handed \in Int

TrayInv == TrayTypes /\ GivesWay
StagingInv == Numbers /\ StagingIsCleaned

IInv == TrayInv /\ FileFollowsTheState /\ StagingInv

(* Timely: while Windows Installer is about to stop the service, the       *)
(* updater that started it waits or is gone, and no other begins.          *)
OneInstall ==
  msi = "started" => svc # "starting" /\ updater \in {"installing", "off"}

(* From the updater's last look on, a game that runs has started since.    *)
GamesAreNew ==
  (updater = "launch" \/ msi = "started") /\ game => gameSince

TimelyInv == OneInstall /\ GamesAreNew

-----------------------------------------------------------------------------
(* Trays *)

LEMMA TraysUntouched ==
  ASSUME TrayInv, UNCHANGED <<tray, startup, disabled, closedByPlayer>>
  PROVE  TrayInv'
BY DEF TrayInv, TrayTypes, GivesWay

(* The service launches trays with --startup only. *)
LEMMA LaunchKeepsTrays ==
  ASSUME TrayInv, NEW who, Launched(who, TRUE), UNCHANGED <<disabled, closedByPlayer>>
  PROVE  TrayInv'
<1> DEFINE new == {s \in who : tray[s] = "none"}
<1>1. /\ tray' = [s \in Sessions |-> IF s \in new THEN "starting" ELSE tray[s]]
      /\ startup' = [s \in Sessions |-> IF s \in new THEN TRUE ELSE startup[s]]
  BY DEF Launched
<1>2. \A s \in Sessions : s \in new => tray[s] = "none"
  OBVIOUS
<1> HIDE DEF new
<1>3. TrayTypes'
  BY <1>1 DEF TrayInv, TrayTypes, TrayStates
<1>4. GivesWay'
  BY <1>1, <1>2 DEF TrayInv, GivesWay
<1> QED BY <1>3, <1>4 DEF TrayInv

(* One program moves on, is started or ends. *)
LEMMA OneTrayKeepsTrays ==
  ASSUME TrayInv, NEW s \in Sessions, NEW to \in TrayStates, NEW by \in BOOLEAN,
         NEW marked \in BOOLEAN, NEW closed \in BOOLEAN,
         tray' = [tray EXCEPT ![s] = to],
         startup' = [startup EXCEPT ![s] = by],
         disabled' = [disabled EXCEPT ![s] = marked],
         closedByPlayer' = [closedByPlayer EXCEPT ![s] = closed],
         closed => marked /\ (to = "none" \/ (to = "starting" /\ by))
  PROVE  TrayInv'
<1>1. TrayTypes'
  BY DEF TrayInv, TrayTypes
<1>2. GivesWay'
  BY DEF TrayInv, TrayTypes, GivesWay
<1> QED BY <1>1, <1>2 DEF TrayInv

LEMMA TrayNextKeepsTrays ==
  ASSUME TrayInv, TrayNext
  PROVE  TrayInv'
<1>1. /\ tray \in [Sessions -> TrayStates] /\ startup \in [Sessions -> BOOLEAN]
      /\ disabled \in [Sessions -> BOOLEAN] /\ closedByPlayer \in [Sessions -> BOOLEAN]
  BY DEF TrayInv, TrayTypes
<1>2. ASSUME NEW s \in Sessions
      PROVE  /\ tray' = tray => tray' = [tray EXCEPT ![s] = tray[s]]
             /\ startup' = startup => startup' = [startup EXCEPT ![s] = startup[s]]
             /\ disabled' = disabled => disabled' = [disabled EXCEPT ![s] = disabled[s]]
             /\ closedByPlayer' = closedByPlayer =>
                  closedByPlayer' = [closedByPlayer EXCEPT ![s] = closedByPlayer[s]]
             /\ tray[s] \in TrayStates /\ startup[s] \in BOOLEAN /\ disabled[s] \in BOOLEAN
             /\ closedByPlayer[s] \in BOOLEAN
             /\ closedByPlayer[s] =>
                  disabled[s] /\ (tray[s] = "none" \/ (tray[s] = "starting" /\ startup[s]))
  BY <1>1 DEF TrayInv, GivesWay
<1>3. ASSUME NEW s \in Sessions, NEW to \in TrayStates, tray' = [tray EXCEPT ![s] = to],
             UNCHANGED <<startup, disabled, closedByPlayer>>,
             closedByPlayer[s] => to = "none"
      PROVE  TrayInv'
  BY <1>2, <1>3, OneTrayKeepsTrays
<1>4. ASSUME NEW s \in Sessions, StartupCheck(s) PROVE TrayInv'
  <2>1. PICK to \in {"none", "ensuring"} :
          /\ tray' = [tray EXCEPT ![s] = to]
          /\ startup[s] /\ disabled[s] => to = "none"
          /\ tray[s] = "starting" /\ UNCHANGED <<startup, disabled, closedByPlayer>>
    BY <1>4 DEF StartupCheck
  <2> QED BY <1>2, <1>3, <2>1 DEF TrayStates
<1>5. ASSUME NEW s \in Sessions, ServiceFound(s) PROVE TrayInv'
  <2>1. /\ tray[s] = "ensuring" /\ tray' = [tray EXCEPT ![s] = "open"]
        /\ disabled' = [disabled EXCEPT ![s] = disabled[s] /\ startup[s]]
        /\ UNCHANGED <<startup, closedByPlayer>>
    BY <1>5 DEF ServiceFound
  <2>2. ~ closedByPlayer[s] /\ "open" \in TrayStates /\ (disabled[s] /\ startup[s]) \in BOOLEAN
    BY <1>2, <2>1 DEF TrayStates
  <2> QED BY <1>2, <2>1, <2>2, OneTrayKeepsTrays
<1>6. ASSUME NEW s \in Sessions, NEW to \in TrayStates, tray' = [tray EXCEPT ![s] = to],
             UNCHANGED <<startup, disabled, closedByPlayer>>,
             to = "none" \/ tray[s] \in {"open", "asking", "exiting"}
      PROVE  TrayInv'
  BY <1>2, <1>3, <1>6
<1>7. ASSUME NEW s \in Sessions,
             \/ ServiceMissing(s) \/ RefreshStatus(s) \/ ExitMenu(s) \/ ExitApproved(s)
             \/ ExitFailed(s) \/ SignOut(s)
      PROVE  TrayInv'
  BY <1>6, <1>7 DEF ServiceMissing, RefreshStatus, ExitMenu, ExitApproved, ExitFailed, SignOut,
                    TrayStates
<1>8. ASSUME NEW s \in Sessions, ExitDone(s) PROVE TrayInv'
  <2>1. /\ tray' = [tray EXCEPT ![s] = "none"] /\ disabled' = [disabled EXCEPT ![s] = TRUE]
        /\ closedByPlayer' = [closedByPlayer EXCEPT ![s] = TRUE] /\ UNCHANGED startup
        /\ "none" \in TrayStates
    BY <1>8 DEF ExitDone, TrayStates
  <2> QED BY <1>2, <2>1, OneTrayKeepsTrays
<1>9. ASSUME NEW s \in Sessions, SignIn(s) PROVE TrayInv'
  BY <1>9, LaunchKeepsTrays DEF SignIn
<1>10. ASSUME NEW s \in Sessions, StartByHand(s) PROVE TrayInv'
  <2>1. /\ tray[s] = "none" /\ Launched({s}, FALSE) /\ UNCHANGED disabled
        /\ closedByPlayer' = [closedByPlayer EXCEPT ![s] = FALSE]
    BY <1>10 DEF StartByHand
  <2>2. /\ tray' = [tray EXCEPT ![s] = "starting"] /\ startup' = [startup EXCEPT ![s] = FALSE]
        /\ "starting" \in TrayStates
    BY <1>1, <2>1 DEF Launched, TrayStates
  <2> QED BY <1>2, <2>1, <2>2, OneTrayKeepsTrays
<1>11. ASSUME NEW s \in Sessions, ServiceStarted(s) \/ Disconnect(s) \/ Reconnect(s)
       PROVE  TrayInv'
  BY <1>11, TraysUntouched DEF ServiceStarted, Disconnect, Reconnect, sessions
<1>12. CASE ToggleAutoUpdate
  BY <1>12, TraysUntouched DEF ToggleAutoUpdate, sessions
<1> QED BY <1>4, <1>5, <1>7, <1>8, <1>9, <1>10, <1>11, <1>12 DEF TrayNext, TrayRuns

LEMMA RelaunchKeepsTrays ==
  ASSUME TrayInv, RelaunchTray
  PROVE  TrayInv'
<1>1. CASE UNCHANGED <<tray, startup>>
  BY <1>1, TraysUntouched DEF RelaunchTray
<1>2. CASE LaunchTray
  BY <1>2, LaunchKeepsTrays DEF RelaunchTray, LaunchTray
<1> QED BY <1>1, <1>2 DEF RelaunchTray

LEMMA TrayStep == TrayInv /\ [Next]_vars => TrayInv'
<1> SUFFICES ASSUME TrayInv, [Next]_vars PROVE TrayInv'
  OBVIOUS
<1>1. CASE RunnerNext \/ GameStarts \/ GameExits
  BY <1>1, TraysUntouched DEF RunnerNext, Waits, SessionStarts, SessionEnds, RunFails, PublishStep,
     GameStarts, GameExits, sessions
<1>2. CASE ServiceNext
  BY <1>2, TraysUntouched DEF ServiceNext, ServiceStarts, AdminStops, ServiceStops, RunnerEnds,
     ProcessExits, AdminStarts, sessions
<1>3. CASE TimerFires
  BY <1>3, RelaunchKeepsTrays DEF TimerFires
<1>4. CASE CheckFinds \/ Downloaded \/ DownloadFails \/ Verified \/ VerifyFails
           \/ WaitState \/ WaitProcesses \/ Postponed \/ TurnedOff \/ UpdaterEnds
  BY <1>4, TraysUntouched DEF CheckFinds, Downloaded, DownloadFails, Verified, VerifyFails,
     WaitState, WaitProcesses, Postponed, TurnedOff, UpdaterEnds, GiveUp, Quiet, sessions
<1>5. CASE InstallBegins \/ MarkTrayRelaunch \/ RecheckState \/ RecheckProcesses
           \/ Launch \/ LaunchFails \/ InstallFailed
  BY <1>5, TraysUntouched DEF InstallBegins, MarkTrayRelaunch, RecheckState, RecheckProcesses,
     Launch, LaunchFails, InstallFailed, GiveUp, Quiet, sessions
<1>6. CASE CalledOff \/ InstallTimeout
  BY <1>6, RelaunchKeepsTrays DEF CalledOff, InstallTimeout
<1>7. CASE MsiNext \/ StatusAges
  BY <1>7, TraysUntouched DEF MsiNext, MsiRefuses, MsiStopsService, MsiReplaces, MsiEnds,
     StatusAges, sessions
<1>8. CASE Trays
  BY <1>8, TrayNextKeepsTrays DEF Trays
<1>9. CASE UNCHANGED vars
  BY <1>9, TraysUntouched DEF vars, sessions
<1> QED BY <1>1, <1>2, <1>3, <1>4, <1>5, <1>6, <1>7, <1>8, <1>9
        DEF Next, UpdaterNext, InstallRuns

-----------------------------------------------------------------------------
(* The status file: a service that does not run says nothing, and one that *)
(* begins to run has published nothing.                                    *)
LEMMA FileUntouched ==
  ASSUME FileFollowsTheState, UNCHANGED <<file, updating, last>>,
         svc' = "running" => svc = "running"
  PROVE  FileFollowsTheState'
BY DEF FileFollowsTheState

LEMMA FileStep == FileFollowsTheState /\ [Next]_vars => FileFollowsTheState'
<1> SUFFICES ASSUME FileFollowsTheState, [Next]_vars PROVE FileFollowsTheState'
  OBVIOUS
<1>1. ASSUME NEW state, PublishStep(state) PROVE FileFollowsTheState'
  BY <1>1 DEF PublishStep, Publish, WriteStatus, status, FileFollowsTheState
<1>2. CASE RunnerNext
  BY <1>1, <1>2 DEF RunnerNext, Waits, SessionStarts, SessionEnds, RunFails
<1>3. CASE GameStarts \/ GameExits
  BY <1>3, FileUntouched DEF GameStarts, GameExits, status
<1>4. CASE ServiceStarts
  BY <1>4 DEF ServiceStarts, FileFollowsTheState
<1>5. CASE AdminStops \/ ServiceStops \/ RunnerEnds \/ ProcessExits \/ AdminStarts
  BY <1>5 DEF AdminStops, ServiceStops, RunnerEnds, ProcessExits, AdminStarts,
     FileFollowsTheState
<1>6. CASE TimerFires
  BY <1>6, FileUntouched DEF TimerFires, status, runner
<1>7. CASE CheckFinds \/ Downloaded \/ DownloadFails \/ Verified \/ VerifyFails
           \/ WaitState \/ WaitProcesses \/ Postponed \/ TurnedOff \/ UpdaterEnds
  BY <1>7, FileUntouched DEF CheckFinds, Downloaded, DownloadFails, Verified, VerifyFails,
     WaitState, WaitProcesses, Postponed, TurnedOff, UpdaterEnds, GiveUp, Quiet, status, runner,
     unchangedByUpdater
<1>8. CASE MarkTrayRelaunch \/ RecheckState \/ RecheckProcesses
           \/ Launch \/ LaunchFails \/ InstallFailed
  BY <1>8, FileUntouched DEF MarkTrayRelaunch, RecheckState, RecheckProcesses,
     Launch, LaunchFails, InstallFailed, GiveUp, Quiet, status, runner, unchangedByUpdater
<1>9. ASSUME NEW on \in BOOLEAN, SetUpdating(on), UNCHANGED <<svc, last>>
      PROVE  FileFollowsTheState'
  BY <1>9 DEF SetUpdating, WriteStatus, FileFollowsTheState
<1>10. CASE InstallBegins \/ CalledOff \/ InstallTimeout
  BY <1>9, <1>10 DEF InstallBegins, CalledOff, InstallTimeout, runner, unchangedByUpdater
<1>11. CASE MsiNext \/ StatusAges
  BY <1>11, FileUntouched DEF MsiNext, MsiRefuses, MsiStopsService, MsiReplaces, MsiEnds,
     StatusAges, status, runner
<1>12. CASE Trays
  <2>1. UNCHANGED <<last, updating>>
    BY <1>12 DEF Trays, runner
  <2>2. file' = file /\ (svc' = "running" => svc = "running")
    BY <1>12 DEF Trays, TrayNext, TrayRuns, StartupCheck, ServiceFound, RefreshStatus,
       ServiceStarted, ServiceMissing, ExitMenu, ExitApproved, ExitDone, ExitFailed, SignIn,
       StartByHand, Disconnect, Reconnect, SignOut, ToggleAutoUpdate, status
  <2> QED BY <2>1, <2>2, FileUntouched
<1>13. CASE UNCHANGED vars
  BY <1>13, FileUntouched DEF vars, status, runner
<1> QED BY <1>2, <1>3, <1>4, <1>5, <1>6, <1>7, <1>8, <1>10, <1>11, <1>12, <1>13
        DEF Next, UpdaterNext, InstallRuns, ServiceNext

-----------------------------------------------------------------------------
(* Staging folders *)

LEMMA StagingUntouched ==
  ASSUME StagingInv, UNCHANGED <<staged, handed, updater>>,
         svc' = "running" => svc = "running"
  PROVE  StagingInv'
BY DEF StagingInv, Numbers, StagingIsCleaned

LEMMA StagingStep == StagingInv /\ [Next]_vars => StagingInv'
<1> SUFFICES ASSUME StagingInv, [Next]_vars PROVE StagingInv'
  OBVIOUS
<1> DEFINE Resting == {"off", "sleep", "installing"}
<1>1. CASE RunnerNext \/ GameStarts \/ GameExits
  BY <1>1, StagingUntouched DEF RunnerNext, Waits, SessionStarts, SessionEnds, RunFails,
     PublishStep, GameStarts, GameExits, install
<1>2. CASE ServiceStarts
  <2>1. (staged' = 0 /\ handed' = 0) \/ (staged' = 1 /\ handed' = 1)
    BY <1>2 DEF ServiceStarts, CleanStaged
  <2>2. staged' \in Int /\ handed' \in Int /\ staged' <= handed' + 0
    BY <2>1
  <2>3. updater' \in Resting
    BY <1>2 DEF ServiceStarts
  <2> QED BY <2>2, <2>3 DEF StagingInv, Numbers, StagingIsCleaned
<1>3. CASE AdminStops \/ ServiceStops \/ RunnerEnds \/ AdminStarts
  BY <1>3, StagingUntouched DEF AdminStops, ServiceStops, RunnerEnds, AdminStarts, install
<1>4. CASE ProcessExits
  BY <1>4 DEF ProcessExits, install, StagingInv, Numbers, StagingIsCleaned
<1>5. CASE TimerFires
  BY <1>5, StagingUntouched DEF TimerFires, install
<1>6. ASSUME NEW from \in {"staged", "downloaded", "wait", "install", "failed"}, GiveUp(from)
      PROVE  StagingInv'
  BY <1>6 DEF GiveUp, Goto, Quiet, unchangedByUpdater, StagingInv, Numbers, StagingIsCleaned
<1>7. ASSUME UNCHANGED <<svc, staged, handed>>, updater \notin Resting \/ updater' \in Resting,
             updater' \notin Resting \/ updater \in Resting
      PROVE  StagingInv'
  BY <1>7 DEF StagingInv, Numbers, StagingIsCleaned
<1>8. CASE CheckFinds
  <2>1. svc' = svc /\ staged' = staged + 1 /\ handed' = handed
        /\ updater = "sleep" /\ updater' = "staged"
    BY <1>8 DEF CheckFinds, Stage, Goto, unchangedByUpdater
  <2> QED BY <2>1 DEF StagingInv, Numbers, StagingIsCleaned
<1>9. CASE Downloaded \/ Verified \/ WaitState \/ WaitProcesses
  BY <1>7, <1>9 DEF Downloaded, Verified, WaitState, WaitProcesses, Goto, Quiet,
     unchangedByUpdater
<1>10. CASE DownloadFails \/ VerifyFails \/ Postponed \/ TurnedOff \/ InstallFailed
  BY <1>6, <1>10 DEF DownloadFails, VerifyFails, Postponed, TurnedOff, InstallFailed
<1>11. CASE UpdaterEnds
  <2>1. Cancelled /\ svc' = svc
    BY <1>11 DEF UpdaterEnds, Quiet, unchangedByUpdater
  <2>2. svc' # "running" /\ handed' = handed /\ staged' \in {staged, staged - 1}
    BY <1>11, <2>1 DEF UpdaterEnds, Cancelled
  <2> QED BY <2>2 DEF StagingInv, Numbers, StagingIsCleaned
<1>12. CASE InstallBegins \/ MarkTrayRelaunch \/ RecheckState \/ RecheckProcesses \/ LaunchFails
            \/ CalledOff
  BY <1>7, <1>12 DEF InstallBegins, MarkTrayRelaunch, RecheckState, RecheckProcesses, LaunchFails,
     CalledOff, Goto, Quiet, unchangedByUpdater, install
<1>13. CASE Launch
  <2>1. svc' = svc /\ staged' = staged /\ handed' = handed + 1
        /\ updater = "launch" /\ updater' = "installing"
    BY <1>13 DEF Launch, Goto, unchangedByUpdater
  <2> QED BY <2>1 DEF StagingInv, Numbers, StagingIsCleaned
<1>14. CASE InstallTimeout
  BY <1>7, <1>14 DEF InstallTimeout, Goto, unchangedByUpdater
<1>15. CASE MsiNext \/ StatusAges
  BY <1>15, StagingUntouched DEF MsiNext, MsiRefuses, MsiStopsService, MsiReplaces, MsiEnds,
     StatusAges, install
<1>16. CASE Trays
  <2>1. UNCHANGED <<staged, handed, updater>>
    BY <1>16 DEF Trays, install
  <2>2. svc' = "running" => svc = "running"
    BY <1>16 DEF Trays, TrayNext, TrayRuns, StartupCheck, ServiceFound, RefreshStatus,
       ServiceStarted, ServiceMissing, ExitMenu, ExitApproved, ExitDone, ExitFailed, SignIn,
       StartByHand, Disconnect, Reconnect, SignOut, ToggleAutoUpdate
  <2> QED BY <2>1, <2>2, StagingUntouched
<1>17. CASE UNCHANGED vars
  BY <1>17, StagingUntouched DEF vars, install
<1> QED BY <1>1, <1>2, <1>3, <1>4, <1>5, <1>8, <1>9, <1>10, <1>11, <1>12, <1>13, <1>14, <1>15,
          <1>16, <1>17 DEF Next, UpdaterNext, InstallRuns, ServiceNext

-----------------------------------------------------------------------------
(* Games and installers, if the pauses are long enough *)

LEMMA TimelyStep == Timely /\ TimelyInv /\ [Next]_vars => TimelyInv'
<1> SUFFICES ASSUME Timely, TimelyInv, [Next]_vars PROVE TimelyInv'
  OBVIOUS
<1> USE DEF TimelyInv, OneInstall, GamesAreNew
<1>1. ASSUME UNCHANGED <<game, gameSince, msi, updater>>, svc' = "starting" => svc = "starting"
      PROVE  TimelyInv'
  BY <1>1
<1>2. CASE RunnerNext
  BY <1>1, <1>2 DEF RunnerNext, Waits, SessionStarts, SessionEnds, RunFails, PublishStep, install
<1>3. CASE GameStarts \/ GameExits
  BY <1>3 DEF GameStarts, GameExits, install
<1>4. CASE ServiceStarts
  <2>1. svc = "starting" /\ msi' = msi /\ updater' = "sleep"
    BY <1>4 DEF ServiceStarts
  <2> QED BY <2>1
<1>5. CASE AdminStops \/ ServiceStops \/ RunnerEnds
  BY <1>1, <1>5 DEF AdminStops, ServiceStops, RunnerEnds, runner, install
<1>6. CASE ProcessExits
  BY <1>6 DEF ProcessExits, install
<1>7. CASE AdminStarts
  BY <1>7 DEF AdminStarts, MayStart, runner, install
<1>8. CASE TimerFires
  BY <1>1, <1>8 DEF TimerFires, runner, install
<1>9. CASE CheckFinds
  BY <1>9 DEF CheckFinds, Goto, unchangedByUpdater, runner
<1>10. ASSUME UNCHANGED <<svc, game, gameSince, msi>>, updater \notin {"installing", "off"},
              updater' # "launch"
       PROVE  TimelyInv'
  BY <1>10
<1>11. CASE Downloaded \/ DownloadFails \/ Verified \/ VerifyFails
            \/ WaitState \/ WaitProcesses \/ Postponed \/ TurnedOff
  BY <1>10, <1>11 DEF Downloaded, DownloadFails, Verified, VerifyFails, WaitState, WaitProcesses,
     Postponed, TurnedOff, GiveUp, Goto, Quiet, unchangedByUpdater, runner
<1>12. CASE InstallBegins \/ MarkTrayRelaunch \/ LaunchFails \/ CalledOff \/ InstallFailed
  BY <1>10, <1>12 DEF InstallBegins, MarkTrayRelaunch, LaunchFails, CalledOff, InstallFailed,
     GiveUp, Goto, Quiet, unchangedByUpdater, runner, install
<1>13. CASE RecheckState
  <2>1. updater = "pause" /\ updater' \in {"recheck", "busy"} /\ msi' = msi
    BY <1>13 DEF RecheckState, Goto, install
  <2> QED BY <2>1
<1>14. CASE RecheckProcesses
  BY <1>14 DEF RecheckProcesses, Goto, Quiet, unchangedByUpdater, runner
<1>15. CASE Launch
  <2>1. /\ updater = "launch" /\ updater' = "installing" /\ Alive
        /\ UNCHANGED <<svc, game, gameSince>>
    BY <1>15 DEF Launch, Goto, unchangedByUpdater, runner
  <2>2. svc' # "starting"
    BY <2>1 DEF Alive
  <2> QED BY <2>1, <2>2
<1>16. CASE InstallTimeout
  BY <1>16 DEF InstallTimeout, Goto, unchangedByUpdater, runner
<1>17. CASE UpdaterEnds
  <2>1. UNCHANGED <<svc, game, gameSince, msi>> /\ updater' = "off"
    BY <1>17 DEF UpdaterEnds, Quiet, unchangedByUpdater, runner
  <2> QED BY <2>1
<1>18. CASE MsiNext
  BY <1>18 DEF MsiNext, MsiRefuses, MsiStopsService, MsiReplaces, MsiEnds, MsiStep, runner
<1>19. CASE StatusAges
  BY <1>1, <1>19 DEF StatusAges, runner, install
<1>20. CASE Trays
  BY <1>20 DEF Trays, MayStart, runner, install
<1>21. CASE UNCHANGED vars
  BY <1>1, <1>21 DEF vars, runner, install
<1> QED BY <1>2, <1>3, <1>4, <1>5, <1>6, <1>7, <1>8, <1>9, <1>11, <1>12, <1>13, <1>14, <1>15,
          <1>16, <1>17, <1>18, <1>19, <1>20, <1>21
        DEF Next, UpdaterNext, InstallRuns, ServiceNext

-----------------------------------------------------------------------------
LEMMA InitInv == Init => IInv /\ TimelyInv
<1> SUFFICES ASSUME Init PROVE IInv /\ TimelyInv
  OBVIOUS
<1> USE DEF Init, TrayInit
<1>1. TrayInv
  BY DEF TrayInv, TrayTypes, TrayStates, GivesWay
<1>2. FileFollowsTheState /\ StagingInv
  BY DEF FileFollowsTheState, StagingInv, Numbers, StagingIsCleaned
<1>3. TimelyInv
  BY DEF TimelyInv, OneInstall, GamesAreNew
<1> QED BY <1>1, <1>2, <1>3 DEF IInv

(* The invariant the theorems below rest on. *)
THEOREM InvariantHolds == Spec => []IInv
<1>1. Init => IInv
  BY InitInv
<1>2. IInv /\ [Next]_vars => IInv'
  BY TrayStep, FileStep, StagingStep DEF IInv
<1> QED BY <1>1, <1>2, PTL DEF Spec

(* agent status.go: under the mutex the file always holds what was         *)
(* published last or, while an update is installed, "updating" - whichever *)
(* of the runner and the updater writes.                                   *)
THEOREM FileIsRight == Spec => []FileFollowsTheState
<1>1. IInv => FileFollowsTheState
  BY DEF IInv
<1> QED BY <1>1, InvariantHolds, PTL

(* update.go, the deferred RemoveAll: no failure leaves a staged installer *)
(* behind, but those handed to Windows Installer.                          *)
THEOREM StagingStaysClean == Spec => []StagingIsCleaned
<1>1. IInv => StagingIsCleaned
  BY DEF IInv, StagingInv
<1> QED BY <1>1, InvariantHolds, PTL

(* pingrank-tray: no start of the program brings back a tray its user      *)
(* closed from the menu, until the user starts it.                         *)
THEOREM ClosedStaysClosed == Spec => []OnPurposeStaysClosed
<1>1. IInv => OnPurposeStaysClosed
  BY DEF IInv, TrayInv, GivesWay, OnPurposeStaysClosed
<1> QED BY <1>1, InvariantHolds, PTL

(* runUpdates, idle asked twice: Windows Installer, when it stops the      *)
(* service, ends the recording of no game that was there before the        *)
(* updater's last look - if the program's pauses are long enough.          *)
THEOREM NoEarlierGameIsCut == Timely => (Spec => UpdateCutsNoEarlierGame)
<1> SUFFICES ASSUME Timely PROVE Spec => UpdateCutsNoEarlierGame
  OBVIOUS
<1> DEFINE Stops == /\ msi = "started" /\ msi' = "stopping"
                    /\ svc = "running" /\ last = "recording" /\ game
<1>1. Init => TimelyInv
  BY InitInv
<1>2. TimelyInv /\ [Next]_vars => TimelyInv'
  BY TimelyStep
<1>3. TimelyInv => [Stops => gameSince]_vars
  BY DEF TimelyInv, GamesAreNew
<1> QED BY <1>1, <1>2, <1>3, PTL DEF Spec, UpdateCutsNoEarlierGame
=============================================================================
