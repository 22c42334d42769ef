------------------------------ MODULE Updates ------------------------------
(***************************************************************************)
(* The service and its updater (cmd/pingrank-service, internal/update): a  *)
(* runner that publishes its state, an updater that fetches and checks a   *)
(* release, waits for a gap between games and starts Windows Installer,    *)
(* the installer, which stops and replaces the service, and the trays,     *)
(* which close for the update and are launched again after it.             *)
(*                                                                         *)
(* idle() is two steps, the recorder's state and then the process list:    *)
(* games start in between.  Each use of the service's mutex is one step;   *)
(* so is relaunchTray, whose mark is taken just before the launch (stopped *)
(* in between, the service has no tray to come back to).  WriteStatus      *)
(* succeeds here: ReplacedFile has its failures.                           *)
(***************************************************************************)
EXTENDS Tray

CONSTANTS
  Releases,       (* versions the server may answer with, as <<n, n, n>>   *)
  Installed,      (* the version installed at first                        *)
  MaxStaged,      (* BOUND: staging folders that hold an installer         *)
  Timely          (* the pauses of 5 s, 5 min and 30 min are long enough   *)

ASSUME UpdatesAssumption ==
  /\ Installed \in Nat \X Nat \X Nat
  /\ Releases \subseteq Nat \X Nat \X Nat
  /\ MaxStaged \in Nat /\ Timely \in BOOLEAN

VARIABLES
  version,        (* the version installed                                 *)
  game,           (* a supported game is running                           *)
  last,           (* s.state, s.last: what the runner published last       *)
  updating,       (* s.updating                                            *)
  mark,           (* RelaunchTray in the registry                          *)
  timer,          (* runUpdates' AfterFunc has not fired yet               *)
  updater,        (* what runUpdates is doing                              *)
  offer,          (* the version being installed                           *)
  msi,            (* Windows Installer: "none", "started", "stopping" the
                     service, "starting" it again                          *)
  staged,         (* staging folders that hold an installer                *)
  (* history *)
  handed,         (* ... of installers handed to Windows Installer         *)
  gameSince       (* a game started since the recorder's state was read    *)

runner  == <<game, last, gameSince>>
install == <<version, msi, staged, handed>>
vars    == <<svc, status, enabled, sessions, runner, install, updating, mark, timer, updater, offer>>

(* The process is there; the service has been told to stop. *)
Alive     == svc \in {"running", "stopping", "final"}
Cancelled == svc \in {"stopping", "final"}

WriteStatus(state) == file' = state /\ fresh' = TRUE

-----------------------------------------------------------------------------
(* The runner and the service's status *)

Publish(state) ==
  /\ last' = state
  /\ IF updating THEN UNCHANGED status ELSE WriteStatus(state)

PublishStep(state) ==
  /\ Alive
  /\ Publish(state)
  /\ UNCHANGED <<svc, enabled, sessions, game, gameSince, install, updating, mark, timer,
                 updater, offer>>

(* runSession begins, or begins again five seconds after a failure. *)
Waits == ~ Cancelled /\ last \in {"none", "error"} /\ PublishStep("waiting")

(* Until session_start the status says "waiting", although the game is     *)
(* found and measured already.                                             *)
SessionStarts == ~ Cancelled /\ last = "waiting" /\ game /\ PublishStep("recording")

SessionEnds ==
  last = "recording" /\ (~ game \/ Cancelled) /\ PublishStep("waiting")

RunFails == ~ Cancelled /\ last \in {"waiting", "recording"} /\ PublishStep("error")

GameStarts ==
  /\ ~ game
  /\ game' = TRUE /\ gameSince' = TRUE
  /\ UNCHANGED <<svc, status, enabled, sessions, last, install, updating, mark, timer,
                 updater, offer>>

GameExits ==
  /\ game
  /\ game' = FALSE
  /\ UNCHANGED <<svc, status, enabled, sessions, last, gameSince, install, updating, mark,
                 timer, updater, offer>>

(* Mutant: the status restored is the one the update began with. *)
SetUpdatingToWaiting(on) ==
  /\ updating' = on
  /\ WriteStatus(IF on THEN "updating" ELSE "waiting")

SetUpdating(on) ==
  /\ updating' = on
  /\ WriteStatus(IF on THEN "updating" ELSE last)

WriteFinal(state) == IF updating THEN UNCHANGED status ELSE WriteStatus(state)

-----------------------------------------------------------------------------
(* The service process *)

(* An installer that Windows Installer still holds open cannot be removed. *)
CleanStaged ==
  /\ staged' = IF msi = "none" \/ staged = 0 THEN 0 ELSE 1
  /\ handed' = staged'

(* Execute, with everything runAgent and runUpdates begin with.            *)
ServiceStarts ==
  /\ svc = "starting"
  /\ svc' = "running"
  /\ last' = "none" /\ updating' = FALSE
  /\ timer' = TRUE
  /\ updater' = "sleep"
  /\ CleanStaged
  /\ UNCHANGED <<status, enabled, sessions, game, gameSince, version, msi, mark, offer>>

(* Stopped by an administrator or a shutdown. *)
AdminStops ==
  /\ svc = "running"
  /\ svc' = "stopping"
  /\ UNCHANGED <<status, enabled, sessions, runner, install, updating, mark, timer, updater,
                 offer>>

(* The runner has returned, or has not within 20 s.  Timely: not between   *)
(* InstallBegins and the statement after it.                               *)
ServiceStops ==
  /\ svc = "stopping"
  /\ Timely => updater # "mark"
  /\ svc' = "final"
  /\ WriteFinal("stopped")
  /\ UNCHANGED <<enabled, sessions, runner, install, updating, mark, timer, updater, offer>>

(* The runner cannot begin: no identity, no signatures. *)
RunnerEnds ==
  /\ svc = "running" /\ last = "none"
  /\ svc' = "final"
  /\ WriteFinal("error")
  /\ UNCHANGED <<enabled, sessions, runner, install, updating, mark, timer, updater, offer>>

ProcessExits ==
  /\ svc = "final"
  /\ svc' = "stopped"
  /\ last' = "none" /\ updating' = FALSE
  /\ timer' = FALSE
  /\ updater' = "off"
  /\ owed' = [s \in Sessions |-> owed[s] /\ msi = "stopping"]
  /\ UNCHANGED <<status, enabled, session, tray, startup, disabled, closedByPlayer, game,
                 gameSince, install, mark, offer>>

(* Timely: nobody starts the service while an installer is at work. *)
MayStart == Timely => msi = "none"

(* Started by an administrator or with Windows. *)
AdminStarts ==
  /\ svc = "stopped" /\ MayStart
  /\ svc' = "starting"
  /\ UNCHANGED <<status, enabled, sessions, runner, install, updating, mark, timer, updater,
                 offer>>

-----------------------------------------------------------------------------
(* Launching the trays again *)

(* Mutant: without --startup. *)
LaunchTrayByHand == Launched({s \in Sessions : session[s] = "active"}, FALSE)

(* Every session that is active. *)
LaunchTray == Launched({s \in Sessions : session[s] = "active"}, TRUE)

(* Reading the mark clears it. *)
TakeTrayRelaunch(yes) == yes = mark /\ mark' = FALSE

RelaunchTray ==
  /\ \E yes \in BOOLEAN :
       /\ TakeTrayRelaunch(yes)
       /\ IF yes THEN LaunchTray ELSE UNCHANGED <<tray, startup>>
  /\ UNCHANGED <<session, disabled, closedByPlayer, owed>>

(* Five seconds after the start.  Timely: the runner has published by then.*)
TimerFires ==
  /\ Alive /\ timer
  /\ Timely => last # "none" \/ Cancelled
  /\ timer' = FALSE
  /\ RelaunchTray
  /\ UNCHANGED <<svc, status, enabled, runner, install, updating, updater, offer>>

-----------------------------------------------------------------------------
(* The updater *)

(* Newer: the first component that differs decides. *)
Newer(latest, current) ==
  \E i \in 1..3 :
    /\ latest[i] > current[i]
    /\ \A j \in 1..(i - 1) : latest[j] = current[j]

unchangedByUpdater == <<svc, enabled, runner, version, timer>>

(* A step of Check that ends at `to`. *)
Goto(from, to) ==
  /\ Alive
  /\ updater = from
  /\ updater' = to

Quiet == UNCHANGED <<status, sessions, updating, mark, offer, msi>> /\ UNCHANGED unchangedByUpdater

(* A folder of its own for each release. *)
Stage ==
  /\ staged < MaxStaged
  /\ staged' = staged + 1

(* Check up to Stage: updates are on and the server has a newer release.   *)
(* Otherwise it sleeps on, which is no step.  The first check comes five   *)
(* minutes after the start, long after the timer.  Timely: and after an    *)
(* installer of an earlier process.                                        *)
CheckFinds ==
  /\ ~ Cancelled
  /\ Goto("sleep", "staged")
  /\ ~ timer
  /\ Timely => msi = "none"
  /\ enabled
  /\ \E r \in Releases : Newer(r, version) /\ offer' = r
  /\ Stage
  /\ UNCHANGED <<status, sessions, updating, mark, msi, handed>> /\ UNCHANGED unchangedByUpdater

(* All of it, no larger than allowed, with the sum the server named. *)
Downloaded ==
  /\ ~ Cancelled
  /\ Goto("staged", "downloaded")
  /\ UNCHANGED <<staged, handed>> /\ Quiet

(* Signed, by the right signer. *)
Verified ==
  /\ Goto("downloaded", "wait")
  /\ UNCHANGED <<staged, handed>> /\ Quiet

(* Mutant: the folder of a release that failed is left. *)
GiveUpLeavingStaged(from) ==
  /\ Goto(from, "sleep")
  /\ UNCHANGED <<staged, handed>> /\ Quiet

(* Any failure after Stage: the folder is removed. *)
GiveUp(from) ==
  /\ Goto(from, "sleep")
  /\ staged' = staged - 1
  /\ UNCHANGED handed /\ Quiet

DownloadFails == GiveUp("staged")
VerifyFails   == GiveUp("downloaded")

(* idle, first the recorder's state ...                                    *)
IdleState == last \in {"waiting", "error"}

(* The wait for a gap.  Busy, it polls again each minute, which is no      *)
(* step, until it is time for the next check.                              *)
WaitState ==
  /\ Goto("wait", "waitProcesses")
  /\ IdleState
  /\ UNCHANGED <<staged, handed>> /\ Quiet

WaitProcesses ==
  /\ Goto("waitProcesses", IF game THEN "wait" ELSE "install")
  /\ UNCHANGED <<staged, handed>> /\ Quiet

Postponed == GiveUp("wait")

(* Updates were turned off while waiting. *)
TurnedOff == ~ enabled /\ GiveUp("install")

(* The Install function of runUpdates *)
InstallBegins ==
  /\ enabled
  /\ Goto("install", "mark")
  /\ Timely => svc # "final"
  /\ SetUpdating(TRUE)
  /\ UNCHANGED <<sessions, mark, offer, msi, staged, handed>> /\ UNCHANGED unchangedByUpdater

MarkTrayRelaunch ==
  /\ Goto("mark", "pause")
  /\ mark' = TRUE
  /\ UNCHANGED <<status, sessions, updating, offer, msi, staged, handed>>
  /\ UNCHANGED unchangedByUpdater

(* After five seconds idle is asked again.  Timely: no tray is starting,   *)
(* every tray that polls, each two seconds, has seen the status, and a     *)
(* process about to exit has done so.                                      *)
RecheckState ==
  /\ Goto("pause", IF IdleState THEN "recheck" ELSE "busy")
  /\ Timely => /\ \A s \in Sessions : TrayRests(s)
               /\ svc # "final"
  /\ gameSince' = FALSE
  /\ UNCHANGED <<svc, status, enabled, sessions, game, last, install, updating, mark, timer, offer>>

(* Mutant: the recorder's state is enough. *)
RecheckNoProcesses ==
  /\ Goto("recheck", "launch")
  /\ UNCHANGED <<staged, handed>> /\ Quiet

RecheckProcesses ==
  /\ Goto("recheck", IF game THEN "busy" ELSE "launch")
  /\ UNCHANGED <<staged, handed>> /\ Quiet

(* Mutant: the trays are not launched when the install is called off. *)
CalledOffNoRelaunch ==
  /\ Goto("busy", "failed")
  /\ SetUpdating(FALSE)
  /\ UNCHANGED <<sessions, mark, offer, msi, staged, handed>> /\ UNCHANGED unchangedByUpdater

(* A game started; or msiexec could not be. *)
CalledOff ==
  /\ Goto("busy", "failed")
  /\ SetUpdating(FALSE)
  /\ RelaunchTray
  /\ UNCHANGED <<offer, msi, staged, handed>> /\ UNCHANGED unchangedByUpdater

InstallFailed == GiveUp("failed")

(* update.Install, with and without leaving the service's job. *)
LaunchFails ==
  /\ Goto("launch", "busy")
  /\ UNCHANGED <<staged, handed>> /\ Quiet

Launch ==
  /\ Goto("launch", "installing")
  /\ IF msi = "none" THEN msi' = "started" ELSE UNCHANGED msi
  /\ handed' = handed + 1
  /\ UNCHANGED <<status, sessions, updating, mark, offer, staged>> /\ UNCHANGED unchangedByUpdater

(* Thirty minutes later the service is still there.  Timely: the installer *)
(* is not.                                                                 *)
InstallTimeout ==
  /\ ~ Cancelled
  /\ Goto("installing", "sleep")
  /\ Timely => msi = "none"
  /\ SetUpdating(FALSE)
  /\ RelaunchTray
  /\ UNCHANGED <<offer, msi, staged, handed>> /\ UNCHANGED unchangedByUpdater

(* Every wait but the pause of Install ends with the context; a release    *)
(* waiting for its gap is removed.                                         *)
UpdaterEnds ==
  /\ Cancelled
  /\ \/ updater \in {"sleep", "installing"} /\ UNCHANGED staged
     \/ updater \in {"staged", "wait"} /\ staged' = staged - 1
  /\ updater' = "off"
  /\ UNCHANGED handed /\ Quiet

-----------------------------------------------------------------------------
(* Windows Installer: external *)

MsiStep(from, to) == msi = from /\ msi' = to

(* It fails before it touches the service. *)
MsiRefuses ==
  /\ MsiStep("started", "none")
  /\ UNCHANGED <<svc, status, enabled, sessions, runner, version, staged, handed, updating,
                 mark, timer, updater, offer>>

MsiStopsService ==
  /\ MsiStep("started", "stopping")
  /\ svc \in {"running", "stopped"}
  /\ svc' = IF svc = "running" THEN "stopping" ELSE svc
  /\ UNCHANGED <<status, enabled, sessions, runner, version, staged, handed, updating, mark,
                 timer, updater, offer>>

(* The files are replaced, or rolled back; the service is started. *)
MsiReplaces ==
  /\ MsiStep("stopping", "starting")
  /\ svc = "stopped"
  /\ version' \in {version, offer}
  /\ svc' = "starting"
  /\ UNCHANGED <<status, enabled, sessions, runner, staged, handed, updating, mark, timer,
                 updater, offer>>

MsiEnds ==
  /\ MsiStep("starting", "none")
  /\ UNCHANGED <<svc, status, enabled, sessions, runner, version, staged, handed, updating,
                 mark, timer, updater, offer>>

(* Ten minutes pass. *)
StatusAges ==
  /\ fresh
  /\ fresh' = FALSE
  /\ UNCHANGED <<svc, file, enabled, sessions, runner, install, updating, mark, timer,
                 updater, offer>>

-----------------------------------------------------------------------------
Init ==
  /\ TrayInit
  /\ version = Installed
  /\ game = FALSE /\ last = "none" /\ gameSince = FALSE
  /\ updating = FALSE /\ mark = FALSE /\ timer = FALSE
  /\ updater = "off"
  /\ offer = Installed
  /\ msi = "none"
  /\ staged = 0 /\ handed = 0

RunnerNext == Waits \/ SessionStarts \/ SessionEnds \/ RunFails

(* The steps between InstallBegins and the installer: no wait among them   *)
(* but the pause.                                                          *)
InstallRuns ==
  \/ MarkTrayRelaunch \/ RecheckState \/ RecheckProcesses
  \/ Launch \/ LaunchFails \/ CalledOff \/ InstallFailed

UpdaterNext ==
  \/ CheckFinds \/ Downloaded \/ DownloadFails \/ Verified \/ VerifyFails
  \/ WaitState \/ WaitProcesses \/ Postponed \/ TurnedOff
  \/ InstallBegins \/ InstallRuns \/ InstallTimeout \/ UpdaterEnds

ServiceNext ==
  ServiceStarts \/ AdminStops \/ ServiceStops \/ RunnerEnds \/ ProcessExits \/ AdminStarts

MsiNext == MsiRefuses \/ MsiStopsService \/ MsiReplaces \/ MsiEnds

Trays ==
  /\ TrayNext
  /\ (svc' = "starting" /\ svc # svc') => MayStart
  /\ UNCHANGED <<runner, install, updating, mark, timer, updater, offer>>

Next ==
  \/ RunnerNext \/ GameStarts \/ GameExits
  \/ ServiceNext \/ TimerFires \/ UpdaterNext \/ MsiNext
  \/ StatusAges \/ Trays

Spec == Init /\ [][Next]_vars

(* Processes and goroutines that can run do; timers fire; the installer    *)
(* ends, and a service that starts or stops gets there.  Nothing is        *)
(* assumed of players, games, the server or the elevation prompts.         *)
FairSpec ==
  /\ Spec
  /\ \A s \in Sessions : WF_vars(Trays /\ TrayRuns(s))
  /\ WF_vars(Waits) /\ WF_vars(TimerFires)
  /\ WF_vars(InstallRuns) /\ WF_vars(InstallTimeout)
  /\ WF_vars(ServiceStarts) /\ WF_vars(ServiceStops) /\ WF_vars(ProcessExits)
  /\ WF_vars(MsiNext)

-----------------------------------------------------------------------------
(* What the tray reads is what the recorder published last or, from the    *)
(* moment an install begins until it is called off, "updating".  The       *)
(* recorder publishes all the while.                                       *)
FileFollowsTheState ==
  svc = "running" =>
    /\ updating => file = "updating"
    /\ ~ updating /\ last # "none" => file = last

(* The installer stops the recording of a game only if the game started    *)
(* after the updater's last look for one began: a game that was there is   *)
(* seen in the recorder's state or, while it is still being found and      *)
(* measured, in the process list.                                          *)
UpdateCutsNoEarlierGame ==
  [][(msi = "started" /\ msi' = "stopping" /\ svc = "running" /\ last = "recording" /\ game)
       => gameSince]_vars

(* The installers on disk are those handed to Windows Installer and the    *)
(* one being prepared: a failure at any step removes its folder, and the   *)
(* next start of the service what a stop left.                             *)
StagingIsCleaned ==
  svc = "running" => staged <= handed + (IF updater \in {"off", "sleep", "installing"} THEN 0 ELSE 1)

(* A tray that closed for an update comes back: after the upgrade, after   *)
(* an install that failed, after one called off for a game - unless the    *)
(* service is left stopped.  The debt ends as well when the session is     *)
(* left, and when the service stops for another reason than the upgrade.   *)
TrayComesBack ==
  \A s \in Sessions : <>[](svc = "stopped") \/ []<>(~ owed[s])

=============================================================================
