----------------------------- MODULE Lifecycle -----------------------------
(***************************************************************************)
(* The root side of the gateway: locspoofctl, locspoof-watchdog, the init  *)
(* script and locspoof-service, which share nothing but the nft sets, the  *)
(* marker files and the UCI configuration, and take no common lock.        *)
(*                                                                         *)
(* Every shell process is the list of the commands it has still to run.    *)
(* A step runs the first one; a test may put more in front (the branch     *)
(* taken).  A command that fails drops the list up to the next <<"catch",  *)
(* h>>, the caller that looks at the exit code, and goes on with           *)
(* Handler(h).  <<"ret">> is where a locspoofctl child of the watchdog     *)
(* exits.                                                                  *)
(***************************************************************************)
EXTENDS Naturals, Sequences, FiniteSets, FiniteSetsExt

CONSTANTS Operator,    \* shells in which an administrator or LuCI runs a command
          Command,     \* the commands they run
          MaxVersion,  \* bound: device lists the configuration holds in turn
          Respawns,    \* how often procd replaces a watchdog that exits early
          Budgets      \* bound: how many disturbances of each kind may come together

Disturbance == {"edit", "start", "command", "request", "fault"}

ASSUME BoundAssumption == MaxVersion \in Nat \ {0} /\ Respawns \in Nat

ASSUME OperatorAssumption ==
  /\ Operator \cap {"watchdog", "orphan"} = {}
  /\ Command \subseteq {"start", "stop", "bypass_on", "bypass_off", "reload"}
  /\ Budgets \subseteq [Disturbance -> Nat]

VARIABLES nft,         \* fw4's sets: present, the device sets, target sets filled
          files,       \* the marker and socket files that exist
          uci,         \* the configuration: enabled, and which device list (0: none)
          daemon,      \* locspoofd
          registered,  \* procd supervises the daemon and the watchdog
          starts,      \* how often procd would still start the watchdog
          todo,        \* what each shell process has still to run
          want,        \* the device list a running verify has read
          left         \* the disturbances that may still come

vars == <<nft, files, uci, daemon, registered, starts, todo, want, left>>

Process == Operator \cup {"watchdog", "orphan"}
DeviceSet == {"mac", "ip"}
Version == 1..MaxVersion
Markers == {"enabled", "nft_applied", "bypass", "target_refresh_ok"}
Runtime == {"ready", "control.sock"}
Request == "bypass_on.request"

NoElements == [s \in DeviceSet |-> {}]
EmptyTable == [table |-> TRUE, dev |-> NoElements, targets |-> FALSE]
NoTable == [EmptyTable EXCEPT !.table = FALSE]

TypeOK == /\ nft \in [table : BOOLEAN, dev : [DeviceSet -> SUBSET Version], targets : BOOLEAN]
          /\ ~nft.table => nft = NoTable
          /\ files \subseteq Markers \cup Runtime \cup {Request}
          /\ uci \in [enabled : BOOLEAN, version : 0..MaxVersion]
          /\ daemon \in {"down", "starting", "listening", "ready", "healthy", "stopping"}
          /\ registered \in BOOLEAN
          /\ starts \in 0..Respawns + 1
          /\ DOMAIN todo = Process
          /\ want \in [Process -> Version]
          /\ left \in [Disturbance -> Nat]

(* Either nothing was ever started, or start_service has just returned; in *)
(* the configuration the service is enabled, or no longer.                 *)
Init == /\ uci \in [enabled : BOOLEAN, version : {1}]
        /\ daemon = "down"
        /\ todo = [p \in Process |-> <<>>]
        /\ want = [p \in Process |-> 1]
        /\ left \in Budgets
        /\ \/ registered = FALSE /\ starts = 0 /\ nft = EmptyTable /\ files = {}
           \/ /\ registered = TRUE /\ starts = Respawns + 1
              /\ nft = [EmptyTable EXCEPT !.targets = TRUE]
              /\ files = {"target_refresh_ok"}

-----------------------------------------------------------------------------
(* The scripts.  One nft or file command is one step. *)
Ignore == <<<<"catch", "nothing">>>>

Clear == <<<<"flush", "mac">>, <<"flush", "ip">>>>

Verify == <<<<"available">>, <<"expect">>, <<"verify", "ip">>, <<"verify", "mac">>>>

Apply == <<<<"validate">>>> \o Clear \o <<<<"add", "mac">>, <<"add", "ip">>>>
         \o Verify \o <<<<"write", "nft_applied">>, <<"catch", "apply">>>>

(* Without a directory to work in, refresh_targets returns before it has   *)
(* anything to undo.                                                       *)
RefreshTargets == <<<<"mktemp">>, <<"call", "refresh">>>>

BypassOn == <<<<"write", "bypass">>, <<"call", "clearBypassed">>>>

BypassOff == <<<<"rm", {"bypass"}>>, <<"rm", {"nft_applied"}>>, <<"applyIfReady">>>>

(* clear_sets of the watchdog: the marker goes even if a flush failed. *)
ClearSets == Clear \o <<<<"ret">>>> \o Ignore \o <<<<"rm", {"nft_applied"}>>>>

(* A mistake: the enabled marker is not among the files removed. *)
ClearStartupForgets ==
  <<<<"rm", {Request}>>, <<"rm", Markers \ {"enabled"}>>, <<"rm", Runtime>>>> \o Clear

ClearStartupState == <<<<"rm", {Request}>>, <<"rm", Markers>>, <<"rm", Runtime>>>> \o Clear

(* procd_kill follows stop_service, whatever that returned; start_service  *)
(* that returns without instances has procd stop the ones it had.          *)
StopService == ClearStartupState \o Ignore \o <<<<"kill">>, <<"unlock">>>>

StartService ==
  ClearStartupState
  \o <<<<"ifStartEnabled">>, <<"ensureSets">>, <<"syncMonitor">>, <<"call", "startup">>,
       <<"catch", "start">>, <<"unlock">>>>

ReloadRuntime ==
  <<<<"syncMonitor">>, <<"ifReloadEnabled">>, <<"controlReload">>>> \o RefreshTargets
  \o <<<<"syncMonitor">>, <<"call", "apply">>>>

(* The parts of a script whose failures are handled apart from the rest. *)
Body(b) ==
  CASE b = "apply" -> Apply
    [] b = "refresh" -> <<<<"resolve">>, <<"targetsReady">>, <<"write", "target_refresh_ok">>,
                          <<"catch", "refresh">>>>
    [] b = "clearBypassed" -> Clear \o <<<<"catch", "bypass">>, <<"rm", {"nft_applied"}>>>>
    [] b = "startup" -> Clear \o <<<<"prepare">>, <<"rm", {"nft_applied", "bypass"}>>>>
                        \o RefreshTargets \o <<<<"register">>, <<"catch", "startup">>>>

Script(c) == CASE c = "start" -> StartService
               [] c = "stop" -> StopService
               [] c = "bypass_on" -> BypassOn
               [] c = "bypass_off" -> BypassOff
               [] c = "reload" -> ReloadRuntime

Handler(h) ==
  CASE h = "nothing" -> <<>>
    [] h = "apply" -> Clear \o Ignore \o <<<<"rm", {"nft_applied"}>>, <<"fail">>>>
    [] h = "refresh" -> <<<<"rm", {"target_refresh_ok"}>>, <<"rm", {"nft_applied"}>>>>
                        \o Clear \o Ignore \o <<<<"fail">>>>
    [] h = "bypass" -> <<<<"rm", {"nft_applied"}>>, <<"fail">>>>
    [] h = "request" -> ClearSets \o <<<<"fail">>>>
    [] h = "verify" -> ClearSets
    [] h = "run" -> ClearSets \o <<<<"fail">>>>
    [] h = "activate" -> ClearSets \o <<<<"rm", {"enabled"}>>, <<"exit">>>>
    [] h = "startup" -> ClearStartupState \o Ignore \o <<<<"fail">>>>
    [] h = "start" -> <<<<"kill">>>>

-----------------------------------------------------------------------------
Idle(p) == todo[p] = <<>>
At(p, verb) == todo[p] # <<>> /\ Head(todo[p])[1] = verb
Arg(p) == Head(todo[p])[2]

(* An exit code that is looked at and is zero, and the end of a child, are *)
(* no steps of their own.                                                  *)
Silent == {"catch", "ret"}
Ready(s) ==
  IF s = <<>> \/ Head(s)[1] \notin Silent THEN s
  ELSE LET steps == {i \in DOMAIN s : s[i][1] \notin Silent}
       IN  IF steps = {} THEN <<>> ELSE SubSeq(s, Min(steps), Len(s))

(* Go on, first with ops; or as the nearest caller that handles a failure. *)
Then(p, ops) == todo' = [todo EXCEPT ![p] = Ready(ops \o Tail(@))]

Unwind(s) ==
  LET catches == {i \in DOMAIN s : s[i][1] = "catch"}
  IN  IF catches = {} THEN <<>>
      ELSE Handler(s[Min(catches)][2]) \o SubSeq(s, Min(catches) + 1, Len(s))
Fail(p) == todo' = [todo EXCEPT ![p] = Ready(Unwind(@))]

Branch(p, test) == IF test THEN Then(p, <<>>) ELSE Fail(p)

Spend(what) == left[what] > 0 /\ left' = [left EXCEPT ![what] = @ - 1]

(* nft flush: of an absent set it fails and is no error; of an existing    *)
(* one it may fail, and clear goes on with the other sets before it does.  *)
Flush(p) ==
  /\ At(p, "flush")
  /\ nft' = [nft EXCEPT !.dev[Arg(p)] = {}]
  /\ Then(p, <<>>)
  /\ UNCHANGED <<files, uci, daemon, registered, starts, want, left>>

FlushFails(p) ==
  /\ At(p, "flush") /\ nft.table
  /\ Spend("fault")
  /\ todo' = [todo EXCEPT ![p] =
                IF Arg(p) = "mac" THEN <<<<"flush", "ip">>, <<"fail">>>> \o Tail(Tail(@))
                                  ELSE <<<<"fail">>>> \o Tail(@)]
  /\ UNCHANGED <<nft, files, uci, daemon, registered, starts, want>>

(* apply_inner reads the configuration once to check it and once more for  *)
(* every set it fills.                                                     *)
Validate(p) ==
  /\ At(p, "validate")
  /\ Branch(p, uci.version # 0)
  /\ UNCHANGED <<nft, files, uci, daemon, registered, starts, want, left>>

Add(p) ==
  /\ At(p, "add") /\ nft.table
  /\ nft' = [nft EXCEPT !.dev[Arg(p)] = @ \cup ({uci.version} \ {0})]
  /\ Then(p, <<>>)
  /\ UNCHANGED <<files, uci, daemon, registered, starts, want, left>>

AddFails(p) ==
  /\ At(p, "add")
  /\ \/ ~nft.table /\ UNCHANGED left
     \/ nft.table /\ Spend("fault")
  /\ Fail(p)
  /\ UNCHANGED <<nft, files, uci, daemon, registered, starts, want>>

(* verify: sets_ready and targets_ready; the configuration; then one set   *)
(* after the other, which must hold that and nothing else.                 *)
Available(p) ==
  /\ At(p, "available")
  /\ Branch(p, nft.table /\ nft.targets)
  /\ UNCHANGED <<nft, files, uci, daemon, registered, starts, want, left>>

Expect(p) ==
  /\ At(p, "expect")
  /\ Branch(p, uci.version # 0)
  /\ want' = [want EXCEPT ![p] = IF uci.version = 0 THEN @ ELSE uci.version]
  /\ UNCHANGED <<nft, files, uci, daemon, registered, starts, left>>

VerifySet(p) ==
  /\ At(p, "verify")
  /\ Branch(p, nft.table /\ nft.dev[Arg(p)] = {want[p]})
  /\ UNCHANGED <<nft, files, uci, daemon, registered, starts, want, left>>

(* write_state_marker and write_enabled_marker: a rename, or nothing. *)
Write(p) ==
  /\ At(p, "write")
  /\ files' = files \cup {Arg(p)}
  /\ Then(p, <<>>)
  /\ UNCHANGED <<nft, uci, daemon, registered, starts, want, left>>

WriteFails(p) ==
  /\ At(p, "write")
  /\ Spend("fault")
  /\ Fail(p)
  /\ UNCHANGED <<nft, files, uci, daemon, registered, starts, want>>

Remove(p) ==
  /\ At(p, "rm")
  /\ files' = files \ Arg(p)
  /\ Then(p, <<>>)
  /\ UNCHANGED <<nft, uci, daemon, registered, starts, want, left>>

MakeTempDir(p) ==
  /\ At(p, "mktemp")
  /\ \/ Then(p, <<>>) /\ UNCHANGED left
     \/ Spend("fault") /\ Fail(p)
  /\ UNCHANGED <<nft, files, uci, daemon, registered, starts, want>>

(* Every host resolved, and the target sets replaced in one transaction. *)
Resolve(p) ==
  /\ At(p, "resolve") /\ nft.table
  /\ nft' = [nft EXCEPT !.targets = TRUE]
  /\ Then(p, <<>>)
  /\ UNCHANGED <<files, uci, daemon, registered, starts, want, left>>

ResolveFails(p) ==
  /\ At(p, "resolve")
  /\ \/ ~nft.table /\ UNCHANGED left
     \/ nft.table /\ Spend("fault")
  /\ Fail(p)
  /\ UNCHANGED <<nft, files, uci, daemon, registered, starts, want>>

(* The tests a script makes and leaves at once if they fail. *)
Require(p) ==
  /\ \/ At(p, "targetsReady") /\ Branch(p, nft.targets)
     \/ (At(p, "setsReady") \/ At(p, "syncMonitor")) /\ Branch(p, nft.table)
     \/ At(p, "exists") /\ Branch(p, Arg(p) \in files)
  /\ UNCHANGED <<nft, files, uci, daemon, registered, starts, want, left>>

(* Shell: the init script's lock, a call, return 1, exit. *)
Control(p) ==
  /\ \/ At(p, "unlock") /\ Then(p, <<>>)
     \/ At(p, "call") /\ Then(p, Body(Arg(p)))
     \/ At(p, "fail") /\ Fail(p)
     \/ At(p, "exit") /\ todo' = [todo EXCEPT ![p] = <<>>]
  /\ UNCHANGED <<nft, files, uci, daemon, registered, starts, want, left>>

-----------------------------------------------------------------------------
(* fw4 reload rebuilds the table with all its sets empty. *)
Fw4Reload(p) ==
  /\ At(p, "fw4Reload")
  /\ \/ nft' = EmptyTable /\ Then(p, <<>>) /\ UNCHANGED left
     \/ Spend("fault") /\ Fail(p) /\ UNCHANGED nft
  /\ UNCHANGED <<files, uci, daemon, registered, starts, want>>

EnsureSets(p) ==
  /\ At(p, "ensureSets")
  /\ Then(p, IF nft.table THEN <<>> ELSE <<<<"fw4Reload">>, <<"setsReady">>>>)
  /\ UNCHANGED <<nft, files, uci, daemon, registered, starts, want, left>>

(* start_service: the configuration says no, and nothing is registered. *)
IfStartEnabled(p) ==
  /\ At(p, "ifStartEnabled")
  /\ IF uci.enabled
     THEN Then(p, <<>>)
     ELSE todo' = [todo EXCEPT ![p] = <<<<"ensureSets">>, <<"syncMonitor">>>> \o Ignore
                                      \o <<<<"kill">>, <<"unlock">>>>]
  /\ UNCHANGED <<nft, files, uci, daemon, registered, starts, want, left>>

(* Directories, PKI and the runtime copy of the configuration: any of them *)
(* may be found wanting.                                                   *)
Prepare(p) ==
  /\ At(p, "prepare")
  /\ Then(p, <<>>) \/ Fail(p)
  /\ UNCHANGED <<nft, files, uci, daemon, registered, starts, want, left>>

(* procd: an instance that runs with the same parameters goes on, any      *)
(* other is started; whether an old one's early exits are then forgotten   *)
(* is left open.                                                           *)
Register(p) ==
  /\ At(p, "register")
  /\ registered' = TRUE
  /\ starts' \in IF ~registered THEN {Respawns + 1}
                 ELSE IF Idle("watchdog") THEN {Max({1, starts}), Respawns + 1}
                 ELSE {starts}
  /\ Then(p, <<>>)
  /\ UNCHANGED <<nft, files, uci, daemon, want, left>>

(* procd ends both instances.  A locspoofctl the watchdog waits for is not *)
(* the instance, and runs on.  The daemon handles the signal only once it  *)
(* has set itself healthy; before, the signal kills it where it stands.    *)
Kill(p) ==
  LET rets == {i \in DOMAIN todo["watchdog"] : todo["watchdog"][i][1] = "ret"}
  IN /\ At(p, "kill")
     /\ todo["orphan"] = <<>>
     /\ registered' = FALSE /\ starts' = 0
     /\ daemon' = IF daemon \in {"healthy", "stopping"} THEN "stopping" ELSE "down"
     /\ todo' = [todo EXCEPT ![p] = Tail(@),
                             !["watchdog"] = <<>>,
                             !["orphan"] = IF rets = {} THEN <<>>
                                           ELSE SubSeq(todo["watchdog"], 1, Min(rets))]
     /\ UNCHANGED <<nft, files, uci, want, left>>

(* bypass_off applies only if the service is wanted and says it is ready. *)
ApplyIfReady(p) ==
  /\ At(p, "applyIfReady")
  /\ Then(p, IF {"enabled", "ready"} \subseteq files THEN Apply ELSE <<>>)
  /\ UNCHANGED <<nft, files, uci, daemon, registered, starts, want, left>>

(* locspoof-service reload: with the service disabled it only clears. *)
IfReloadEnabled(p) ==
  /\ At(p, "ifReloadEnabled")
  /\ IF uci.enabled THEN Then(p, <<>>)
                    ELSE todo' = [todo EXCEPT ![p] = Clear \o <<<<"disabled">>>>]
  /\ UNCHANGED <<nft, files, uci, daemon, registered, starts, want, left>>

Disabled(p) ==
  /\ At(p, "disabled")
  /\ Then(p, <<>>)
  /\ UNCHANGED <<nft, files, uci, daemon, registered, starts, want, left>>

Listening == daemon \in {"listening", "ready", "healthy"} /\ "control.sock" \in files

(* The daemon takes the new configuration, or refuses it (it is invalid,   *)
(* or needs a restart).                                                    *)
ControlReload(p) ==
  /\ At(p, "controlReload")
  /\ Branch(p, Listening) \/ Fail(p)
  /\ UNCHANGED <<nft, files, uci, daemon, registered, starts, want, left>>

-----------------------------------------------------------------------------
(* The watchdog. *)
Healthy == daemon = "healthy" /\ Runtime \subseteq files

Activate(p) ==
  /\ At(p, "activate")
  /\ Then(p, IF "enabled" \in files THEN <<>>
             ELSE <<<<"wait">>, <<"write", "enabled">>, <<"runOnce">>, <<"catch", "activate">>>>)
  /\ UNCHANGED <<nft, files, uci, daemon, registered, starts, want, left>>

(* wait_for_daemon: healthy at one of the attempts, or at none. *)
WaitForDaemon(p) ==
  /\ At(p, "wait")
  /\ Branch(p, Healthy)
  /\ UNCHANGED <<nft, files, uci, daemon, registered, starts, want, left>>

(* The loop, until the marker is gone.  The watchdog may by then have run  *)
(* for the hour after which procd does not count an exit as early.         *)
Loop(p) ==
  /\ At(p, "loop")
  /\ todo' = [todo EXCEPT ![p] =
       IF "enabled" \in files
       THEN <<<<"requests">>>> \o Ignore \o <<<<"runOnce">>>> \o Ignore \o <<<<"loop">>>>
       ELSE <<>>]
  /\ starts' \in {starts} \cup (IF "enabled" \in files THEN {} ELSE {Respawns + 1})
  /\ UNCHANGED <<nft, files, uci, daemon, registered, want, left>>

(* A mistake: the request is consumed first. *)
ProcessRequestsEagerly(p) ==
  /\ At(p, "requests")
  /\ Then(p, IF Request \notin files THEN <<>>
             ELSE <<<<"rm", {Request}>>>> \o BypassOn \o <<<<"ret">>, <<"catch", "request">>>>)
  /\ UNCHANGED <<nft, files, uci, daemon, registered, starts, want, left>>

(* The request is consumed only after the bypass marker is there. *)
ProcessRequests(p) ==
  /\ At(p, "requests")
  /\ Then(p, IF Request \notin files THEN <<>>
             ELSE BypassOn \o <<<<"ret">>, <<"exists", "bypass">>, <<"catch", "request">>,
                                <<"rm", {Request}>>>>)
  /\ UNCHANGED <<nft, files, uci, daemon, registered, starts, want, left>>

(* run_once: enabled, then health, then bypass, then the policy. *)
RunOnce(p) ==
  /\ At(p, "runOnce")
  /\ Then(p, IF "enabled" \notin files THEN <<>> ELSE <<<<"ifHealthy">>>>)
  /\ UNCHANGED <<nft, files, uci, daemon, registered, starts, want, left>>

(* A mistake: the daemon's health does not matter. *)
IfHealthyIgnored(p) ==
  /\ At(p, "ifHealthy")
  /\ Then(p, <<<<"ifBypass">>>>)
  /\ UNCHANGED <<nft, files, uci, daemon, registered, starts, want, left>>

IfHealthy(p) ==
  /\ At(p, "ifHealthy")
  /\ Then(p, IF Healthy THEN <<<<"ifBypass">>>> ELSE ClearSets \o <<<<"fail">>>>)
  /\ UNCHANGED <<nft, files, uci, daemon, registered, starts, want, left>>

(* A mistake: a round under bypass leaves the sets as they are. *)
IfBypassSkips(p) ==
  /\ At(p, "ifBypass")
  /\ Then(p, IF "bypass" \in files THEN <<>>
             ELSE <<<<"reloadFw4">>, <<"refresh">>, <<"recheck">>, <<"applyPolicy">>,
                    <<"catch", "run">>>>)
  /\ UNCHANGED <<nft, files, uci, daemon, registered, starts, want, left>>

IfBypass(p) ==
  /\ At(p, "ifBypass")
  /\ Then(p, IF "bypass" \in files THEN ClearSets
             ELSE <<<<"reloadFw4">>, <<"refresh">>, <<"recheck">>, <<"applyPolicy">>,
                    <<"catch", "run">>>>)
  /\ UNCHANGED <<nft, files, uci, daemon, registered, starts, want, left>>

ReloadFw4IfNeeded(p) ==
  /\ At(p, "reloadFw4")
  /\ Then(p, IF nft.table THEN <<>> ELSE ClearSets \o <<<<"fw4Reload">>, <<"setsReady">>>>)
  /\ UNCHANGED <<nft, files, uci, daemon, registered, starts, want, left>>

(* target_refresh_due: something is missing, or the interval is over. *)
RefreshTargetsIfNeeded(p) ==
  /\ At(p, "refresh")
  /\ \/ Then(p, RefreshTargets \o <<<<"ret">>, <<"targetsReady">>>>)
     \/ nft.targets /\ "target_refresh_ok" \in files /\ Then(p, <<>>)
  /\ UNCHANGED <<nft, files, uci, daemon, registered, starts, want, left>>

(* A mistake: the marker is trusted. *)
RecheckTrusting(p) ==
  /\ At(p, "recheck")
  /\ Then(p, <<>>)
  /\ UNCHANGED <<nft, files, uci, daemon, registered, starts, want, left>>

Recheck(p) ==
  /\ At(p, "recheck")
  /\ Then(p, IF "nft_applied" \notin files THEN <<>>
             ELSE Verify \o <<<<"ret">>, <<"catch", "verify">>>>)
  /\ UNCHANGED <<nft, files, uci, daemon, registered, starts, want, left>>

ApplyPolicy(p) ==
  /\ At(p, "applyPolicy")
  /\ Then(p, IF "nft_applied" \in files THEN <<>>
             ELSE Apply \o <<<<"ret">>, <<"exists", "nft_applied">>>> \o Verify \o <<<<"ret">>>>)
  /\ UNCHANGED <<nft, files, uci, daemon, registered, starts, want, left>>

WatchdogStep(p) ==
  \/ Activate(p) \/ WaitForDaemon(p) \/ Loop(p) \/ ProcessRequests(p) \/ RunOnce(p)
  \/ IfHealthy(p) \/ IfBypass(p) \/ ReloadFw4IfNeeded(p) \/ RefreshTargetsIfNeeded(p)
  \/ Recheck(p) \/ ApplyPolicy(p)

ServiceStep(p) ==
  \/ EnsureSets(p) \/ IfStartEnabled(p) \/ Prepare(p) \/ Register(p) \/ Kill(p)
  \/ ApplyIfReady(p) \/ IfReloadEnabled(p) \/ Disabled(p) \/ ControlReload(p)

Step(p) ==
  \/ Flush(p) \/ FlushFails(p) \/ Validate(p) \/ Add(p) \/ AddFails(p) \/ Available(p)
  \/ Expect(p) \/ VerifySet(p) \/ Write(p) \/ WriteFails(p) \/ Remove(p)
  \/ MakeTempDir(p) \/ Resolve(p) \/ ResolveFails(p) \/ Require(p) \/ Control(p) \/ Fw4Reload(p)
  \/ WatchdogStep(p) \/ ServiceStep(p)

-----------------------------------------------------------------------------
(* procd starts the watchdog, and starts it again when it has exited, but  *)
(* gives up on one that exits early too often.                             *)
SpawnWatchdog ==
  /\ registered /\ Idle("watchdog") /\ starts > 0
  /\ starts' = starts - 1
  /\ todo' = [todo EXCEPT !["watchdog"] = <<<<"activate">>, <<"loop">>>>]
  /\ UNCHANGED <<nft, files, uci, daemon, registered, want, left>>

GaveUp == registered /\ Idle("watchdog") /\ starts = 0

(* The init script's commands exclude each other. *)
Locked == \E p \in Operator : \E i \in DOMAIN todo[p] : todo[p][i][1] = "unlock"

Call(p) ==
  /\ Idle(p)
  /\ \E c \in Command : /\ Spend(IF c = "start" THEN c ELSE "command")
                        /\ c \in {"start", "stop"} => ~Locked
                        /\ todo' = [todo EXCEPT ![p] = Script(c)]
  /\ UNCHANGED <<nft, files, uci, daemon, registered, starts, want>>

(* locspoofd: the socket, then the listeners and the ready file, then      *)
(* healthy.                                                                *)
DaemonStart ==
  /\ \/ registered /\ daemon = "down" /\ daemon' = "starting" /\ UNCHANGED files
     \/ daemon = "starting" /\ daemon' = "listening" /\ files' = files \cup {"control.sock"}
     \/ daemon = "listening" /\ daemon' = "ready" /\ files' = files \cup {"ready"}
     \/ daemon = "ready" /\ daemon' = "healthy" /\ UNCHANGED files
  /\ UNCHANGED <<nft, uci, registered, starts, todo, want, left>>

(* It is killed or aborts and leaves its files; or its listener fails and  *)
(* it takes them away.                                                     *)
DaemonCrash ==
  /\ daemon # "down"
  /\ Spend("fault")
  /\ daemon' = "down"
  /\ \/ UNCHANGED files
     \/ daemon = "healthy" /\ files' = files \ Runtime
  /\ UNCHANGED <<nft, uci, registered, starts, todo, want>>

DaemonStops ==
  /\ daemon = "stopping"
  /\ daemon' = "down"
  /\ files' = files \ Runtime
  /\ UNCHANGED <<nft, uci, registered, starts, todo, want, left>>

(* The control socket's bypass_on. *)
RequestBypass ==
  /\ Listening
  /\ Spend("request")
  /\ files' = files \cup {Request}
  /\ UNCHANGED <<nft, uci, daemon, registered, starts, todo, want>>

(* Somebody reloads the firewall, or stops it. *)
Firewall ==
  /\ Spend("fault")
  /\ nft' \in {EmptyTable, NoTable}
  /\ UNCHANGED <<files, uci, daemon, registered, starts, todo, want>>

UciEdit ==
  /\ Spend("edit")
  /\ uci' \in [enabled : BOOLEAN, version : 0..MaxVersion] \ {uci}
  /\ UNCHANGED <<nft, files, daemon, registered, starts, todo, want>>

Next == \/ \E p \in Process : Step(p)
        \/ \E p \in Operator : Call(p)
        \/ SpawnWatchdog \/ DaemonStart \/ DaemonCrash \/ DaemonStops
        \/ RequestBypass \/ Firewall \/ UciEdit

Spec == Init /\ [][Next]_vars

(* The shells run, and procd starts the watchdog while it has starts left. *)
(* The daemon need not come up: procd gives up on one that crashes too     *)
(* often.                                                                  *)
FairSpec == /\ Spec
            /\ \A p \in Process : WF_vars(Step(p))
            /\ WF_vars(SpawnWatchdog) /\ WF_vars(DaemonStops)

-----------------------------------------------------------------------------
NoRedirect == nft.dev = NoElements

(* An enabled service does what the configuration and the bypass marker    *)
(* say, and no request for bypass is waiting while a device is redirected. *)
(* Of a service disabled in the configuration nothing is asked here:       *)
(* DisableClears is what the documentation says of that one.               *)
InForce ==
  uci.enabled =>
    IF "bypass" \in files \/ uci.version = 0
    THEN NoRedirect /\ "nft_applied" \notin files
    ELSE /\ nft.table /\ nft.targets
         /\ nft.dev = [s \in DeviceSet |-> {uci.version}]
         /\ "nft_applied" \in files
         /\ Request \notin files

(* The enabled marker of a service under procd is there only while a       *)
(* watchdog runs that looks at it, however starts, stops, failed           *)
(* activations and exits interleave.  A service whose watchdog procd gave  *)
(* up on is therefore off, for bypass_off and for the next activate.       *)
EnabledIsWatched == registered /\ "enabled" \in files => ~Idle("watchdog")

(* Fail open: when the daemon of a running service does not serve, it      *)
(* comes back or the device sets are emptied, whatever fails and whatever  *)
(* commands are run meanwhile, unless procd has given up on the watchdog.  *)
FailOpen == (registered /\ ~Healthy) ~> (Healthy \/ NoRedirect \/ ~registered \/ GaveUp)

(* A bypass request written through the control socket is not forgotten,   *)
(* whatever fails: it becomes the bypass marker, or the watchdog has yet   *)
(* to activate the policy and nothing is redirected, or the service is     *)
(* stopped or its watchdog given up on.                                    *)
RequestHonoured ==
  (Request \in files /\ registered) ~>
    \/ "bypass" \in files
    \/ "enabled" \notin files /\ NoRedirect
    \/ ~registered \/ GaveUp

(* However the daemon, the firewall, DNS and the configuration behaved,    *)
(* once they stay put with the daemon healthy, and procd has not given up  *)
(* on the watchdog before, the policy is in force, and stays so.           *)
Converges == <>[](Healthy /\ registered /\ ~GaveUp) => <>[]InForce

(* A bypass that persists under a running service empties the device sets  *)
(* and takes back the claim of an applied policy, for good, whatever is    *)
(* run next to the watchdog: a reload or an apply that bypass_on overtook  *)
(* may fill the sets once more, and the next round undoes it.              *)
BypassWins == <>[]("bypass" \in files /\ registered /\ ~GaveUp) =>
                <>[](NoRedirect /\ "nft_applied" \notin files)

(* stop clears the enabled nft sets: when the service is stopped and       *)
(* nothing of it runs any more, no device is redirected.                   *)
StoppedMeansClear == ~registered /\ (\A p \in Process : Idle(p)) => NoRedirect

(* disable and reload clear the enabled nft sets: after a reload that      *)
(* found the service disabled, the device sets end up empty unless it is   *)
(* enabled again.                                                          *)
DisableClears ==
  \A p \in Operator : At(p, "disabled") ~> (uci.enabled \/ []NoRedirect)
=============================================================================
