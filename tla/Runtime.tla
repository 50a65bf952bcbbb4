------------------------------ MODULE Runtime ------------------------------
(***************************************************************************)
(* What locspoofd runs with and what it remembers: the policy it takes     *)
(* from the runtime configuration when it starts and from the control      *)
(* socket's reload, and the device activity it keeps in a file.  Around it *)
(* the shells that change the configuration: locspoof-service reload, the  *)
(* init script and locspoof-profile, which take no common lock.            *)
(*                                                                         *)
(* A configuration text is what a UCI file says; a policy is what          *)
(* config.Load makes of it.  The nft side of these commands is Lifecycle.  *)
(***************************************************************************)
EXTENDS Naturals, FiniteSets

CONSTANTS Shell,       \* shells that may run locspoof-service reload
          Profile,     \* sections of type profile; "location" is the legacy one
          Own,         \* values of the options that need a restart
          Edits,       \* configuration texts an administrator commits
          Ip, Mac,     \* keys of the activity file
          MaxEntries,  \* entries of an activity file of 64 KiB
          Absent,      \* no file, no process
          Budgets      \* bound: how many events of each kind may come together

Event == {"edit", "reload", "service", "activate", "record", "fault"}
Text == [ok : BOOLEAN, enabled : BOOLEAN, own : Own,
         profile : [Profile -> [set : BOOLEAN, active : BOOLEAN]]]
Policy == [enabled : BOOLEAN, own : Own, profile : SUBSET Profile]
Daemon == [start : Policy, policy : Policy]
Key == Ip \cup Mac

ASSUME RuntimeAssumption ==
  /\ Edits \subseteq Text
  /\ Ip \cap Mac = {}
  /\ IsFiniteSet(Profile) /\ IsFiniteSet(Ip) /\ IsFiniteSet(Mac)
  /\ Absent \notin Text \cup Policy \cup Daemon
  /\ MaxEntries \in Nat
  /\ Budgets \subseteq [Event -> Nat]

VARIABLES uci,         \* /etc/config/ios-location-spoofer
          file,        \* the runtime copy the daemon is started with
          next,        \* the same with .reload appended
          daemon,      \* the process: the policy it started with and the current one
          sock,        \* control.sock is there
          registered,  \* procd supervises the daemon
          shell,       \* what each reload has come to
          manager,     \* what locspoof-profile has come to
          activity,    \* device activity, in memory and in the file
          left         \* the events that may still come

vars == <<uci, file, next, daemon, sock, registered, shell, manager, activity, left>>
files == <<uci, file, next>>

Up == daemon # Absent
Never == [k \in Key |-> 0]
IdleShell == [pc |-> "idle", text |-> Absent, got |-> Absent, dead |-> FALSE,
              alone |-> FALSE, before |-> <<Absent, Absent>>]
IdleManager == [pc |-> "idle", old |-> {}, before |-> Absent, alone |-> FALSE]

ShellState ==
  [pc : {"idle", "copy", "publish", "call", "load", "store", "install", "cleanup", "done", "failed"},
   text : Text \cup {Absent}, got : Policy \cup {Absent}, dead : BOOLEAN,
   alone : BOOLEAN, before : (Policy \cup {Absent}) \X (Text \cup {Absent})]
ManagerState ==
  [pc : {"idle", "stop", "start", "undo", "stop again", "start again", "failed"},
   old : SUBSET Profile, before : Text \cup {Absent}, alone : BOOLEAN]
Activity == [mem : [Key -> Nat], disk : [Key -> Nat], form : {"v2", "legacy"},
             busy : BOOLEAN, tick : Nat]

TypeOK ==
  /\ uci \in Text
  /\ file \in Text \cup {Absent} /\ next \in Text \cup {Absent}
  /\ daemon \in Daemon \cup {Absent}
  /\ sock \in BOOLEAN /\ registered \in BOOLEAN
  /\ shell \in [Shell -> ShellState]
  /\ \A p \in Shell : shell[p].pc \in {"load", "store"} => Up
  /\ manager \in ManagerState
  /\ activity \in Activity
  /\ left \in [Event -> Nat]

Init == /\ uci \in Edits
        /\ file = Absent /\ next = Absent /\ daemon = Absent
        /\ sock = FALSE /\ registered = FALSE
        /\ shell = [p \in Shell |-> IdleShell]
        /\ manager = IdleManager
        /\ \E d \in {Never, [k \in Key |-> IF k \in Ip THEN 1 ELSE 0]}, form \in {"v2", "legacy"} :
             activity = [mem |-> Never, disk |-> d, form |-> form, busy |-> FALSE, tick |-> 1]
        /\ left \in Budgets

Spend(what) == left[what] > 0 /\ left' = [left EXCEPT ![what] = @ - 1]

-----------------------------------------------------------------------------
(* config.Load.  One profile may be active; without one the only complete  *)
(* profile is taken, or else the legacy one.                               *)
Complete(text) == {p \in Profile : text.profile[p].set}
Active(text) == {p \in Profile : text.profile[p].active}

Selected(text) ==
  IF Active(text) # {} THEN Active(text)
  ELSE IF Cardinality(Complete(text)) = 1 THEN Complete(text)
  ELSE Complete(text) \cap {"location"}

Loads(text) ==
  /\ text # Absent
  /\ text.ok
  /\ Active(text) \subseteq Complete(text)
  /\ Cardinality(Active(text)) <= 1

Load(text) == [enabled |-> text.enabled, own |-> text.own, profile |-> Selected(text)]

Startable(text) == Loads(text) /\ (text.enabled => Selected(text) # {})

-----------------------------------------------------------------------------
(* Nothing else is going on; and what that is worth once something is.     *)
Busy(p) == shell[p].pc # "idle"
Quiet(p) == (\A q \in Shell \ {p} : ~Busy(q)) /\ manager.pc = "idle"
Disturbed(f) == [q \in Shell |-> [f[q] EXCEPT !.alone = FALSE]]
DisturbedManager == [manager EXCEPT !.alone = FALSE]

Become(p, new) == shell' = [shell EXCEPT ![p] = new]
Goto(p, pc) == Become(p, [shell[p] EXCEPT !.pc = pc])

(* A shell that was killed leaves its files behind and goes no further. *)
Answered(p, pc, got) ==
  Become(p, IF shell[p].dead THEN IdleShell ELSE [shell[p] EXCEPT !.pc = pc, !.got = got])

UciEdit ==
  /\ Spend("edit")
  /\ uci' \in Edits \ {uci}
  /\ manager' = DisturbedManager
  /\ UNCHANGED <<file, next, daemon, sock, registered, shell, activity>>

(* reload_runtime, with the service enabled and the socket there. *)
ReloadRuntime(p) ==
  /\ ~Busy(p) /\ Spend("reload")
  /\ uci.enabled /\ sock
  /\ shell' = [Disturbed(shell) EXCEPT
                 ![p] = [IdleShell EXCEPT !.pc = "copy", !.alone = Quiet(p),
                           !.before = <<IF Up THEN daemon.policy ELSE Absent, file>>]]
  /\ manager' = DisturbedManager
  /\ UNCHANGED <<files, daemon, sock, registered, activity>>

CopyConfig(p) ==
  /\ shell[p].pc = "copy"
  /\ Become(p, [shell[p] EXCEPT !.pc = "publish", !.text = uci])
  /\ UNCHANGED <<files, daemon, sock, registered, manager, activity, left>>

(* A mistake: the runtime file is replaced before the daemon was asked. *)
PublishInPlace(p) ==
  /\ shell[p].pc = "publish"
  /\ next' = shell[p].text /\ file' = shell[p].text
  /\ Goto(p, "call")
  /\ UNCHANGED <<uci, daemon, sock, registered, manager, activity, left>>

Publish(p) ==
  /\ shell[p].pc = "publish"
  /\ next' = shell[p].text
  /\ Goto(p, "call")
  /\ UNCHANGED <<uci, file, daemon, sock, registered, manager, activity, left>>

CallControl(p) ==
  /\ shell[p].pc = "call"
  /\ Goto(p, IF sock /\ Up THEN "load" ELSE "cleanup")
  /\ UNCHANGED <<files, daemon, sock, registered, manager, activity, left>>

(* A mistake: what needs a restart is not compared. *)
AcceptsAnyOwner(text) == Loads(text) /\ text.enabled /\ Selected(text) # {}

(* The closure main gives to SetReload: what it refuses, and the policy it *)
(* stores.  Every connection has its own goroutine, so that two closures   *)
(* may be between load and store at once.                                  *)
Accepts(text) ==
  /\ Loads(text) /\ text.enabled /\ Selected(text) # {}
  /\ text.own = daemon.start.own

HandleLoad(p) ==
  /\ shell[p].pc = "load"
  /\ IF Accepts(next) THEN Become(p, [shell[p] EXCEPT !.pc = "store", !.got = Load(next)])
                      ELSE Answered(p, "cleanup", Absent)
  /\ UNCHANGED <<files, daemon, sock, registered, manager, activity, left>>

HandleStore(p) ==
  /\ shell[p].pc = "store"
  /\ daemon' = [daemon EXCEPT !.policy = shell[p].got]
  /\ Answered(p, "install", shell[p].got)
  /\ UNCHANGED <<files, sock, registered, manager, activity, left>>

(* A mistake: the file is copied again from the configuration. *)
InstallAgain(p) ==
  /\ shell[p].pc = "install" /\ next # Absent
  /\ file' = uci /\ next' = Absent
  /\ Goto(p, "done")
  /\ UNCHANGED <<uci, daemon, sock, registered, manager, activity, left>>

(* mv of .reload onto the runtime file; whoever took it away first makes   *)
(* the reload fail.                                                        *)
Install(p) ==
  /\ shell[p].pc = "install" /\ next # Absent
  /\ file' = next /\ next' = Absent
  /\ Goto(p, "done")
  /\ UNCHANGED <<uci, daemon, sock, registered, manager, activity, left>>

InstallGone(p) ==
  /\ shell[p].pc = "install" /\ next = Absent
  /\ Goto(p, "cleanup")
  /\ UNCHANGED <<files, daemon, sock, registered, manager, activity, left>>

(* A file operation fails, and set -e ends the script. *)
ReloadFails(p) ==
  /\ shell[p].pc \in {"copy", "publish", "install"}
  /\ Spend("fault")
  /\ Goto(p, "cleanup")
  /\ UNCHANGED <<files, daemon, sock, registered, manager, activity>>

(* The EXIT trap. *)
Cleanup(p) ==
  /\ shell[p].pc = "cleanup"
  /\ next' = Absent
  /\ Goto(p, "failed")
  /\ UNCHANGED <<uci, file, daemon, sock, registered, manager, activity, left>>

ReloadReturns(p) ==
  /\ shell[p].pc \in {"done", "failed"}
  /\ Become(p, IdleShell)
  /\ UNCHANGED <<files, daemon, sock, registered, manager, activity, left>>

(* The shell is killed; a request it has sent is still answered. *)
ReloadKilled(p) ==
  /\ shell[p].pc \in {"publish", "call", "load", "store", "install"} /\ ~shell[p].dead
  /\ Spend("fault")
  /\ Become(p, IF shell[p].pc \in {"load", "store"} THEN [shell[p] EXCEPT !.dead = TRUE]
                                                    ELSE IdleShell)
  /\ UNCHANGED <<files, daemon, sock, registered, manager, activity>>

Reload(p) ==
  \/ ReloadRuntime(p) \/ CopyConfig(p) \/ Publish(p) \/ CallControl(p) \/ HandleLoad(p)
  \/ HandleStore(p) \/ Install(p) \/ InstallGone(p) \/ ReloadFails(p) \/ Cleanup(p)
  \/ ReloadReturns(p) \/ ReloadKilled(p)

-----------------------------------------------------------------------------
(* The process ends: its memory and the requests it was working on go. *)
Disconnected ==
  [p \in Shell |->
     LET s == [shell[p] EXCEPT !.alone = FALSE]
     IN  IF s.pc \notin {"load", "store"} THEN s
         ELSE IF s.dead THEN IdleShell ELSE [s EXCEPT !.pc = "cleanup", !.got = Absent]]

DaemonGone ==
  /\ daemon' = Absent
  /\ shell' = Disconnected
  /\ activity' = [activity EXCEPT !.mem = Never, !.busy = FALSE]

(* stop_service: files removed, instances ended. *)
StopService ==
  /\ file' = Absent /\ sock' = FALSE /\ registered' = FALSE
  /\ DaemonGone
  /\ UNCHANGED <<uci, next>>

(* start_service: enabled, the configuration is copied and procd keeps the *)
(* instance it has unless its command line changed; disabled or failing,   *)
(* there are no instances.                                                 *)
StartEnabled ==
  /\ uci.enabled
  /\ file' = uci /\ sock' = FALSE /\ registered' = TRUE
  /\ \/ shell' = Disturbed(shell) /\ UNCHANGED <<daemon, activity>>
     \/ Up /\ daemon.start.own # uci.own /\ DaemonGone
  /\ UNCHANGED <<uci, next>>

StartFails == uci.enabled /\ Spend("fault") /\ StopService

StartDisabled == ~uci.enabled /\ StopService

Service ==
  /\ Spend("service")
  /\ StopService \/ StartEnabled \/ StartDisabled
  /\ manager' = DisturbedManager

(* main: the configuration must load and, if enabled, be complete; the     *)
(* history is read; the socket is opened.                                  *)
InFile(disk) == Cardinality({k \in Key : disk[k] # 0})

(* A mistake: only one of the two maps is read. *)
LoadedByIP ==
  IF InFile(activity.disk) > MaxEntries THEN Never
  ELSE [k \in Key |-> IF k \in Mac THEN 0 ELSE activity.disk[k]]

(* loadActivity: a file that is too large is ignored, and the legacy form  *)
(* has no hardware addresses.                                              *)
LoadActivity ==
  IF InFile(activity.disk) > MaxEntries THEN Never
  ELSE [k \in Key |-> IF k \in Mac /\ activity.form = "legacy" THEN 0 ELSE activity.disk[k]]

DaemonStart ==
  /\ registered /\ ~Up /\ Startable(file)
  /\ daemon' = [start |-> Load(file), policy |-> Load(file)]
  /\ sock' = TRUE
  /\ activity' = [activity EXCEPT !.mem = LoadActivity]
  /\ shell' = Disturbed(shell)
  /\ UNCHANGED <<files, registered, manager, left>>

DaemonCrash ==
  /\ Up /\ Spend("fault")
  /\ DaemonGone
  /\ UNCHANGED <<files, sock, registered, manager>>

-----------------------------------------------------------------------------
(* locspoof-profile activate: the flags are committed and the init script  *)
(* stops and starts the service; if either fails the old flags come back,  *)
(* unless rc.common keeps the failure of start_service to itself.          *)
SetActive(text, on) == [text EXCEPT !.profile =
                          [p \in Profile |-> [text.profile[p] EXCEPT !.active = (p \in on)]]]

Activate(w) ==
  /\ manager.pc = "idle" /\ Spend("activate")
  /\ uci' = SetActive(uci, {w})
  /\ manager' = [pc |-> "stop", old |-> Active(uci), before |-> uci,
                 alone |-> \A p \in Shell : ~Busy(p)]
  /\ shell' = Disturbed(shell)
  /\ UNCHANGED <<file, next, daemon, sock, registered, activity>>

ActivateStop ==
  /\ manager.pc \in {"stop", "stop again"}
  /\ LET again == manager.pc = "stop again"
     IN \/ /\ manager' = [manager EXCEPT !.pc = IF again THEN "start again" ELSE "start"]
           /\ UNCHANGED left
        \/ /\ manager' = [manager EXCEPT !.pc = IF again THEN "failed" ELSE "undo"]
           /\ Spend("fault")
  /\ StopService

ActivateStart ==
  /\ manager.pc = "start"
  /\ \/ StartEnabled /\ manager' = IdleManager /\ UNCHANGED left
     \/ StartDisabled /\ manager' = IdleManager /\ UNCHANGED left
     \/ StartFails /\ manager' \in {[manager EXCEPT !.pc = "undo"], IdleManager}

(* A mistake: the new profile is only deactivated. *)
UndoForgets ==
  /\ manager.pc = "undo"
  /\ uci' = SetActive(uci, {})
  /\ manager' = [manager EXCEPT !.pc = "stop again"]
  /\ UNCHANGED <<file, next, daemon, sock, registered, shell, activity, left>>

(* A mistake: the text from before the activation is put back. *)
UndoFromBackup ==
  /\ manager.pc = "undo"
  /\ uci' = manager.before
  /\ manager' = [manager EXCEPT !.pc = "stop again"]
  /\ UNCHANGED <<file, next, daemon, sock, registered, shell, activity, left>>

ActivateUndo ==
  /\ manager.pc = "undo"
  /\ uci' = SetActive(uci, manager.old)
  /\ manager' = [manager EXCEPT !.pc = "stop again"]
  /\ UNCHANGED <<file, next, daemon, sock, registered, shell, activity, left>>

ActivateStartAgain ==
  /\ manager.pc = "start again"
  /\ \/ StartEnabled /\ UNCHANGED left
     \/ StartDisabled /\ UNCHANGED left
     \/ StartFails
  /\ manager' = [manager EXCEPT !.pc = "failed"]

ActivateReturns ==
  /\ manager.pc = "failed"
  /\ manager' = IdleManager
  /\ UNCHANGED <<files, daemon, sock, registered, shell, activity, left>>

Manage == \/ \E w \in Profile : Activate(w)
          \/ ActivateStop \/ ActivateStart \/ ActivateUndo \/ ActivateStartAgain
          \/ ActivateReturns

-----------------------------------------------------------------------------
(* RecordResponseModified, under the metrics lock: the address, and the    *)
(* hardware address if ARP knows it; then the file, if that succeeds.      *)
RecordModified ==
  /\ Up /\ daemon.policy.enabled /\ daemon.policy.profile # {}
  /\ ~activity.busy /\ Spend("record")
  /\ \E ip \in Ip, mac \in SUBSET Mac :
       /\ Cardinality(mac) <= 1
       /\ activity' = [activity EXCEPT
                         !.tick = @ + 1, !.busy = TRUE,
                         !.mem = [k \in Key |-> IF k \in {ip} \cup mac THEN activity.tick + 1
                                                ELSE @[k]]]
  /\ UNCHANGED <<files, daemon, sock, registered, shell, manager>>

Persist ==
  /\ activity.busy
  /\ activity' = [activity EXCEPT !.disk = activity.mem, !.form = "v2", !.busy = FALSE]
  /\ UNCHANGED <<files, daemon, sock, registered, shell, manager, left>>

PersistFails ==
  /\ activity.busy /\ Spend("fault")
  /\ activity' = [activity EXCEPT !.busy = FALSE]
  /\ UNCHANGED <<files, daemon, sock, registered, shell, manager>>

-----------------------------------------------------------------------------
Next == \/ UciEdit \/ Service \/ DaemonStart \/ DaemonCrash \/ Manage
        \/ RecordModified \/ Persist \/ PersistFails
        \/ \E p \in Shell : Reload(p)

Spec == Init /\ [][Next]_vars

-----------------------------------------------------------------------------
(* However reloads overlap, die or meet a crash, the daemon rewrites with  *)
(* a configuration that loads and is complete, and the ports, proxies and  *)
(* limits it says are the ones the process has.                            *)
PolicyVetted ==
  Up => /\ daemon.policy.enabled => Cardinality(daemon.policy.profile) = 1
        /\ daemon.policy.own = daemon.start.own

(* A reload that nothing disturbed and that succeeds leaves the daemon and *)
(* the file it would be respawned from with the configuration that was     *)
(* read, whatever killed reloads and crashes had left before.              *)
ReloadTakesEffect ==
  \A p \in Shell : shell[p].pc = "done" /\ shell[p].alone =>
    Up /\ file = shell[p].text /\ daemon.policy = Load(file)

(* One that fails leaves the file, and the policy too unless the daemon    *)
(* had accepted the new one before the rename failed.                      *)
FailedReloadChangesNothing ==
  \A p \in Shell : shell[p].pc = "failed" /\ shell[p].alone =>
    /\ file = shell[p].before[2]
    /\ Up => daemon.policy = IF shell[p].got = Absent THEN shell[p].before[1] ELSE shell[p].got

(* An activation that failed is undone: the configuration selects what it  *)
(* selected before, and so does the daemon if it came back.                *)
FailedActivationUndone ==
  manager.pc = "failed" /\ manager.alone =>
    /\ uci = manager.before
    /\ Up => daemon.policy = Load(manager.before)

(* No step of an activation or of its rollback takes back what somebody    *)
(* else has committed to the configuration meanwhile: only the active      *)
(* flags of the profiles are its own.                                      *)
ActivationKeepsEdits ==
  [][manager'.pc # manager.pc => SetActive(uci', {}) = SetActive(uci, {})]_vars

(* The activity file never forgets a device or goes back to an older       *)
(* rewrite of it, through crashes, restarts, failed writes and the change  *)
(* of its format, as long as it has not outgrown what loadActivity reads   *)
(* (and the clock, tick, does not go back).                                *)
HistoryNeverShrinks ==
  [][InFile(activity.disk) <= MaxEntries =>
       \A k \in Key : activity'.disk[k] >= activity.disk[k]]_vars
=============================================================================
