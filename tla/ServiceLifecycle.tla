-------------------------- MODULE ServiceLifecycle --------------------------
(***************************************************************************)
(* How gpservice comes and goes: `gpclient launch-gui` looks for a running *)
(* service and starts one, Cli::run of gpservice starts the VPN task, the  *)
(* WebSocket server and the GUI and ends them in order, the GUI launcher   *)
(* has gpgui-helper install gpgui through the service that the lock file   *)
(* names.  Several services, each a process, share one lock file and one   *)
(* gpgui binary.  What the VPN task does is module GpService, what the     *)
(* server does while it listens is module WsServer.                        *)
(***************************************************************************)
EXTENDS Naturals, Sequences, FiniteSets

CONSTANTS
  Service,    \* processes, one start each; a service stands for its pid,
  NoService   \* its port and its API key

ASSUME NoServiceAssumption == NoService \notin Service

VARIABLES
  lockFile,   \* GP_SERVICE_LOCK_FILE: the service whose pid:port it holds
  main,       \* [Service -> where Cli::run is]
  server,     \* [Service -> its WsServer::start]
  vpnTask,    \* [Service -> its VpnTask::start]
  gui,        \* [Service -> its launch_gui]
  asked,      \* services whose shutdown channel holds a message
  signalled,  \* services that were sent SIGINT or SIGTERM
  gpgui,      \* the installed binary: "absent" (or not whole), "current"
  writing     \* services that are writing it

joinedVars == <<server, vpnTask, gui>>
binaryVars == <<gpgui, writing>>
lifeVars == <<lockFile, main, joinedVars, asked, signalled, binaryVars>>

LifeInit ==
  /\ lockFile = NoService
  /\ main = [i \in Service |-> "off"]
  /\ server = [i \in Service |-> "off"]
  /\ vpnTask = [i \in Service |-> "off"]
  /\ gui = [i \in Service |-> "off"]
  /\ asked = {} /\ signalled = {}
  /\ gpgui \in {"absent", "current"} /\ writing = {}

\* The process is there, and past its start.
Alive(i) == main[i] \in {"spawned", "serving", "cancelled", "unlocked"}
Move(i, from, to) == main[i] = from /\ main' = [main EXCEPT ![i] = to]
GuiMoves(i, from, to) == gui[i] = from /\ gui' = [gui EXCEPT ![i] = to]

-----------------------------------------------------------------------------
(* The lock file                                                           *)

\* LockFile::lock writes pid:port; the two ways it is read are by its two
\* fields, LockInfo::parse, and as a whole, in check_health.
Content == IF lockFile = NoService THEN <<>> ELSE <<lockFile, lockFile>>

\* gpservice_lock_info.
Advertised == IF Len(Content) = 2 THEN Content[2] ELSE NoService

\* http_endpoint: whoever uses it reaches the service whose port it is.
Reachable == {i \in Service : Advertised = i /\ server[i] = "listening"}

\* check_health puts the content where a port belongs.  With one colon too
\* many that is no URL, so the request fails whoever is listening.
CheckHealth == Len(Content) = 1 /\ server[Content[1]] = "listening"

-----------------------------------------------------------------------------
(* gpclient launch-gui, and the start of the service                       *)

TryActiveGui == Reachable # {}

\* pkexec asks the user for the password, then executes gpservice.
PkexecAsks(i) == Move(i, "off", "authorising")

LaunchGui(i) ==
  /\ ~TryActiveGui /\ PkexecAsks(i)
  /\ UNCHANGED <<lockFile, joinedVars, asked, signalled, binaryVars>>

\* run refuses a second instance, or starts its tasks.
Run(i) ==
  /\ Move(i, "authorising", IF CheckHealth THEN "refused" ELSE "spawned")
  /\ server' = IF CheckHealth THEN server ELSE [server EXCEPT ![i] = "binding"]
  /\ vpnTask' = IF CheckHealth THEN vpnTask ELSE [vpnTask EXCEPT ![i] = "running"]
  /\ UNCHANGED <<lockFile, gui, asked, signalled, binaryVars>>

LoadEnv(i) ==
  /\ Move(i, "spawned", "serving")
  /\ gui' = [gui EXCEPT ![i] = "checking"]
  /\ UNCHANGED <<lockFile, server, vpnTask, asked, signalled, binaryVars>>

\* The process ends with every task in it.
Gone(i) ==
  /\ server' = [server EXCEPT ![i] = "ended"]
  /\ vpnTask' = [vpnTask EXCEPT ![i] = "ended"]
  /\ gui' = [gui EXCEPT ![i] = "ended"]
  /\ writing' = writing \ {i}

\* The env file cannot be read: `?` leaves run with the tasks started.
LoadEnvFails(i) ==
  /\ Move(i, "spawned", "aborted") /\ Gone(i)
  /\ UNCHANGED <<lockFile, asked, signalled, gpgui>>

Kill(i) ==
  /\ Alive(i) /\ main' = [main EXCEPT ![i] = "killed"] /\ Gone(i)
  /\ UNCHANGED <<lockFile, asked, signalled, gpgui>>

-----------------------------------------------------------------------------
(* WsServer::start                                                         *)

Listen(i) ==
  /\ Alive(i) /\ server[i] = "binding"
  /\ server' = [server EXCEPT ![i] = "listening"]
  /\ lockFile' = i
  /\ UNCHANGED <<main, vpnTask, gui, asked, signalled, binaryVars>>

\* bind, local_addr or the write of the lock file fails.
ListenFails(i) ==
  /\ Alive(i) /\ server[i] = "binding"
  /\ server' = [server EXCEPT ![i] = "ended"]
  /\ asked' = asked \cup {i}
  /\ UNCHANGED <<lockFile, main, vpnTask, gui, signalled, binaryVars>>

\* The token is cancelled when the VPN task has ended.
ServerStops(i) ==
  /\ Alive(i) /\ server[i] = "listening" /\ vpnTask[i] = "ended"
  /\ server' = [server EXCEPT ![i] = "ended"]
  /\ asked' = asked \cup {i}
  /\ UNCHANGED <<lockFile, main, vpnTask, gui, signalled, binaryVars>>

-----------------------------------------------------------------------------
(* launch_gui and the helper that installs gpgui                           *)

\* `gpgui --version` answers with the version of the service.
VersionPasses == gpgui = "current"

\* launch: the program is started, or the helper that downloads it.
CheckVersion(i) ==
  /\ GuiMoves(i, "checking", IF VersionPasses THEN "running" ELSE "updating")
  /\ UNCHANGED <<lockFile, main, server, vpnTask, asked, signalled, binaryVars>>

\* Installer::install asks the service the lock file names, which decrypts the
\* request with its own key.
InstallAsked(i) == Reachable = {i}

\* The window of gpgui-helper: a click starts an update, unless one is in
\* progress.
UpdateClicked(i) ==
  /\ GuiMoves(i, "updating", "downloading")
  /\ UNCHANGED <<lockFile, main, server, vpnTask, asked, signalled, binaryVars>>

Downloaded(i) ==
  /\ GuiMoves(i, "downloading", "downloaded")
  /\ UNCHANGED <<lockFile, main, server, vpnTask, asked, signalled, binaryVars>>

\* The file or its checksum cannot be fetched, or they do not match.
DownloadFails(i) ==
  /\ GuiMoves(i, "downloading", "updating")
  /\ UNCHANGED <<lockFile, main, server, vpnTask, asked, signalled, binaryVars>>

\* update_gui calls install_gui, which writes the file in place: it is not the
\* old one any more, and not the new one yet.
Install(i) ==
  /\ GuiMoves(i, "downloaded", "installing") /\ InstallAsked(i)
  /\ gpgui' = "absent" /\ writing' = writing \cup {i}
  /\ UNCHANGED <<lockFile, main, server, vpnTask, asked, signalled>>

InstallRefused(i) ==
  /\ GuiMoves(i, "downloaded", "updating")
  /\ UNCHANGED <<lockFile, main, server, vpnTask, asked, signalled, binaryVars>>

\* The service is through with the file, which is whole unless that failed or
\* another service has written to it too; the helper is told, if it waits.
Installed(i) ==
  /\ i \in writing /\ writing' = writing \ {i}
  /\ gpgui' \in {"absent", "current"}
  /\ gui' = [gui EXCEPT ![i] = IF @ = "installing" THEN "updating" ELSE @]
  /\ UNCHANGED <<lockFile, main, server, vpnTask, asked, signalled>>

\* gpgui-helper exits, with or without an update: its status is not looked
\* at, the version is checked again.
Updating == {"updating", "downloading", "downloaded", "installing"}

HelperExits(i) ==
  /\ gui[i] \in Updating
  /\ gui' = [gui EXCEPT ![i] = IF VersionPasses THEN "running" ELSE "ended"]
  /\ asked' = IF VersionPasses THEN asked ELSE asked \cup {i}
  /\ UNCHANGED <<lockFile, main, server, vpnTask, signalled, binaryVars>>

\* Exit code 99 asks for a restart.
GuiRestarts(i) ==
  /\ GuiMoves(i, "running", "checking")
  /\ UNCHANGED <<lockFile, main, server, vpnTask, asked, signalled, binaryVars>>

\* Faulty variant: nobody is told.
GuiExitsQuietly(i) ==
  /\ GuiMoves(i, "running", "ended")
  /\ UNCHANGED <<lockFile, main, server, vpnTask, asked, signalled, binaryVars>>

GuiExits(i) ==
  /\ GuiMoves(i, "running", "ended")
  /\ asked' = asked \cup {i}
  /\ UNCHANGED <<lockFile, main, server, vpnTask, signalled, binaryVars>>

-----------------------------------------------------------------------------
(* The end of Cli::run                                                     *)

Signal(i) ==
  /\ Alive(i) /\ signalled' = signalled \cup {i}
  /\ UNCHANGED <<lockFile, main, joinedVars, asked, binaryVars>>

Cancel(i) ==
  /\ i \in asked \cup signalled /\ Move(i, "serving", "cancelled")
  /\ UNCHANGED <<lockFile, joinedVars, asked, signalled, binaryVars>>

\* The cancelled VPN task disconnects, then cancels the server's token.
VpnTaskEnds(i) ==
  /\ main[i] = "cancelled" /\ vpnTask[i] = "running"
  /\ vpnTask' = [vpnTask EXCEPT ![i] = "ended"]
  /\ UNCHANGED <<lockFile, main, server, gui, asked, signalled, binaryVars>>

\* Faulty variant: the server is not waited for.
JoinedVpn(i) == vpnTask[i] = "ended"

Joined(i) == vpnTask[i] = "ended" /\ server[i] = "ended"

\* unlock removes the file, whoever wrote it.
Unlock(i) ==
  /\ Joined(i) /\ lockFile # NoService
  /\ Move(i, "cancelled", "unlocked")
  /\ lockFile' = NoService
  /\ UNCHANGED <<joinedVars, asked, signalled, binaryVars>>

UnlockFails(i) ==
  /\ Joined(i) /\ lockFile = NoService
  /\ Move(i, "cancelled", "failed") /\ Gone(i)
  /\ UNCHANGED <<lockFile, asked, signalled, gpgui>>

Exit(i) ==
  /\ Move(i, "unlocked", "exited") /\ Gone(i)
  /\ UNCHANGED <<lockFile, asked, signalled, gpgui>>

-----------------------------------------------------------------------------
ServerStep(i) == Listen(i) \/ ListenFails(i) \/ ServerStops(i)
Ending(i) == Cancel(i) \/ Unlock(i) \/ UnlockFails(i) \/ Exit(i)

LifeNext ==
  \E i \in Service :
    \/ LaunchGui(i) \/ Run(i) \/ LoadEnv(i) \/ LoadEnvFails(i)
    \/ ServerStep(i) \/ CheckVersion(i) \/ UpdateClicked(i)
    \/ Downloaded(i) \/ DownloadFails(i)
    \/ Install(i) \/ InstallRefused(i) \/ Installed(i)
    \/ HelperExits(i) \/ GuiRestarts(i) \/ GuiExits(i)
    \/ Signal(i) \/ Ending(i) \/ VpnTaskEnds(i) \/ Kill(i)

LifeSpec == LifeInit /\ [][LifeNext]_lifeVars

\* The tasks of a process that can go on do; users, the GUI, the helper and
\* signals need not, nor the VPN task: it waits for its disconnection without a
\* limit (vpn_task.rs, disconnect), and GpService shows that it may wait forever.
FairLifeSpec ==
  /\ LifeSpec
  /\ \A i \in Service :
       /\ WF_lifeVars(LoadEnv(i) \/ LoadEnvFails(i))
       /\ WF_lifeVars(ServerStep(i)) /\ WF_lifeVars(Ending(i))

-----------------------------------------------------------------------------
\* The types of the variables: what a service, its tasks and its GUI can be at.
LifeTypeOK ==
  /\ lockFile \in Service \cup {NoService}
  /\ gpgui \in {"absent", "current"} /\ writing \subseteq Service
  /\ asked \subseteq Service /\ signalled \subseteq Service
  /\ main \in [Service -> {"off", "authorising", "refused", "spawned", "serving",
                  "cancelled", "unlocked", "exited", "failed", "aborted", "killed"}]
  /\ server \in [Service -> {"off", "binding", "listening", "ended"}]
  /\ vpnTask \in [Service -> {"off", "running", "ended"}]
  /\ gui \in [Service -> {"off", "checking", "running", "ended"} \cup Updating]

\* A service that ended in order is not advertised by the lock file, whatever
\* others did to the file meanwhile: run removes it only when the server,
\* which writes it, has ended.
NoStaleLock == \A i \in Service : lockFile = i => main[i] \notin {"exited", "failed"}

\* run waits for nothing but the VPN task's disconnection.
AwaitsVpn(i) == main[i] = "cancelled" /\ vpnTask[i] = "running"

\* A service that was signalled, whose GUI is gone for good or whose server
\* could not start ends, from whatever moment of its start that happens in, unless
\* its VPN task never comes back: no other task of run can keep it.
EndsWhenAsked ==
  \A i \in Service :
    (Alive(i) /\ (i \in signalled \/ gui[i] = "ended" \/ server[i] = "ended"))
      ~> (~Alive(i) \/ []AwaitsVpn(i))

\* What the start of the service promises ("Another instance of the service
\* is already running"): two are never listening.
OneService == Cardinality({i \in Service : server[i] = "listening"}) <= 1
=============================================================================
