--------------------------- MODULE RuntimeProofs ---------------------------
(***************************************************************************)
(* Runtime for any set of shells and profiles, any configurations and any  *)
(* number of events: what the daemon runs is vetted, an undisturbed reload *)
(* or activation is all or nothing, and the history is kept.               *)
(***************************************************************************)
EXTENDS Runtime, FiniteSetTheorems, TLAPS

(* A request between its check and its store holds a vetted policy. *)
Sound(g) == g.enabled /\ Cardinality(g.profile) = 1 /\ g.own = daemon.start.own
Vetted == /\ PolicyVetted
          /\ \A p \in Shell : shell[p].pc = "store" => shell[p].got \in Policy /\ Sound(shell[p].got)

(* Memory is ahead of the file, unless the file was too large to be read.  *)
History ==
  /\ activity.busy => Up
  /\ activity.form = "legacy" => \A k \in Mac : activity.disk[k] = 0
  /\ \A k \in Key : activity.mem[k] <= activity.tick /\ activity.disk[k] <= activity.tick
  /\ Up /\ InFile(activity.disk) <= MaxEntries =>
       \A k \in Key : activity.mem[k] >= activity.disk[k]

(* Where an undisturbed reload has its text and what it has changed. *)
AloneAt(p) ==
  LET s == shell[p]
  IN  /\ Quiet(p)
      /\ s.pc \in {"publish", "call", "load", "store", "install", "done"} => s.text \in Text
      /\ s.pc \in {"call", "load", "store", "install"} => next = s.text
      /\ s.pc \in {"copy", "publish", "call", "load"} => s.got = Absent
      /\ s.pc \in {"store", "install", "done"} => s.got = Load(s.text)
      /\ s.pc \in {"install", "done"} => Up /\ daemon.policy = s.got
      /\ s.pc = "done" => file = s.text
      /\ s.pc # "done" => file = s.before[2]
      /\ Up /\ s.pc \in {"copy", "publish", "call", "load", "store"} => daemon.policy = s.before[1]
      /\ Up /\ s.pc \in {"cleanup", "failed"} =>
           daemon.policy = IF s.got = Absent THEN s.before[1] ELSE s.got
Undisturbed == \A p \in Shell : shell[p].alone /\ Busy(p) => AloneAt(p)

(* An undisturbed activation can always be undone, and brings back what    *)
(* was there before.                                                       *)
Managed ==
  manager.alone /\ manager.pc # "idle" =>
    /\ \A p \in Shell : ~Busy(p)
    /\ manager.before \in Text
    /\ SetActive(uci, manager.old) = manager.before
    /\ manager.pc \in {"stop again", "start again", "failed"} => uci = manager.before
    /\ manager.pc \in {"start", "start again"} => ~Up /\ ~registered
    /\ manager.pc = "failed" /\ registered => file = manager.before
    /\ manager.pc = "failed" /\ Up => daemon.policy = Load(manager.before)

-----------------------------------------------------------------------------
LEMMA AbsentIsNone == Absent \notin Text /\ Absent \notin Policy /\ Absent \notin Daemon
  BY RuntimeAssumption

LEMMA LoadType ==
  ASSUME NEW t \in Text
  PROVE  Load(t) \in Policy /\ Selected(t) \subseteq Profile
  <1>1. Selected(t) \subseteq Profile  BY DEF Selected, Active, Complete
  <1> QED BY <1>1 DEF Load, Policy, Text

(* What is selected is one profile. *)
LEMMA SelectedOne ==
  ASSUME NEW t \in Text, Loads(t), Selected(t) # {}
  PROVE  Cardinality(Selected(t)) = 1
  <1>1. CASE Active(t) # {}
    <2>1. Active(t) \subseteq Profile /\ IsFiniteSet(Profile)  BY RuntimeAssumption DEF Active
    <2>2. IsFiniteSet(Active(t))  BY <2>1, FS_Subset
    <2>3. Cardinality(Active(t)) \in Nat /\ Cardinality(Active(t)) # 0
      BY <2>2, <1>1, FS_CardinalityType, FS_EmptySet
    <2>4. Cardinality(Active(t)) = 1  BY <2>3 DEF Loads
    <2> QED BY <1>1, <2>4 DEF Selected
  <1>2. CASE Active(t) = {} /\ Cardinality(Complete(t)) = 1
    BY <1>2 DEF Selected
  <1>3. CASE Active(t) = {} /\ Cardinality(Complete(t)) # 1
    <2>1. Selected(t) = {"location"}  BY <1>3 DEF Selected
    <2> QED BY <2>1, FS_Singleton
  <1> QED BY <1>1, <1>2, <1>3

LEMMA SetActiveType ==
  ASSUME NEW t \in Text, NEW on
  PROVE  SetActive(t, on) \in Text
  <1> DEFINE f == [p \in Profile |-> [t.profile[p] EXCEPT !.active = (p \in on)]]
  <1>1. ASSUME NEW p \in Profile, NEW b \in BOOLEAN
        PROVE  [t.profile[p] EXCEPT !.active = b] \in [set : BOOLEAN, active : BOOLEAN]
    BY DEF Text
  <1>2. \A p \in Profile : (p \in on) \in BOOLEAN  OBVIOUS
  <1>3. f \in [Profile -> [set : BOOLEAN, active : BOOLEAN]]  BY <1>1, <1>2
  <1> HIDE DEF f
  <1>4. [t EXCEPT !.profile = f] \in Text  BY <1>3 DEF Text
  <1> QED BY <1>4 DEF SetActive, f

(* Flags set for a while and then set back. *)
LEMMA SetActiveBack ==
  ASSUME NEW t \in Text, NEW on
  PROVE  SetActive(SetActive(t, on), Active(t)) = t
  <1> DEFINE u == SetActive(t, on)
             v == SetActive(u, Active(t))
  <1>1. u \in Text /\ v \in Text  BY SetActiveType
  <1>2. u.ok = t.ok /\ u.enabled = t.enabled /\ u.own = t.own
    BY DEF SetActive, Text
  <1>3. v.ok = u.ok /\ v.enabled = u.enabled /\ v.own = u.own
    BY <1>1 DEF SetActive, Text
  <1>4. u.profile = [p \in Profile |-> [t.profile[p] EXCEPT !.active = (p \in on)]]
    BY DEF SetActive, Text
  <1>5. v.profile = [p \in Profile |-> [u.profile[p] EXCEPT !.active = (p \in Active(t))]]
    BY <1>1 DEF SetActive, Text
  <1>6. ASSUME NEW p \in Profile PROVE v.profile[p] = t.profile[p]
    <2>1. t.profile[p] \in [set : BOOLEAN, active : BOOLEAN]  BY DEF Text
    <2>2. u.profile[p] = [t.profile[p] EXCEPT !.active = (p \in on)]  BY <1>4
    <2>3. v.profile[p] = [u.profile[p] EXCEPT !.active = (p \in Active(t))]  BY <1>5
    <2>4. (p \in Active(t)) = t.profile[p].active  BY <2>1 DEF Active
    <2> HIDE DEF u, v
    <2> QED BY <2>1, <2>2, <2>3, <2>4
  <1>7. v.profile = t.profile
    <2> HIDE DEF u, v
    <2>1. v.profile \in [Profile -> [set : BOOLEAN, active : BOOLEAN]]
          /\ t.profile \in [Profile -> [set : BOOLEAN, active : BOOLEAN]]
      BY <1>1 DEF Text
    <2> QED BY <2>1, <1>6
  <1> HIDE DEF u, v
  <1>8. v = t  BY <1>1, <1>2, <1>3, <1>7 DEF Text
  <1> QED BY <1>8 DEF u, v

LEMMA SetActiveTwice ==
  ASSUME NEW t \in Text, NEW on
  PROVE  SetActive(SetActive(t, on), on) = SetActive(t, on)
  <1> DEFINE u == SetActive(t, on)
             f == [p \in Profile |-> [t.profile[p] EXCEPT !.active = (p \in on)]]
             g == [p \in Profile |-> [u.profile[p] EXCEPT !.active = (p \in on)]]
  <1>1. u \in Text  BY SetActiveType
  <1>2. u.profile = f  BY DEF SetActive, Text
  <1>3. ASSUME NEW p \in Profile PROVE g[p] = f[p]
    <2>1. t.profile[p] \in [set : BOOLEAN, active : BOOLEAN]  BY DEF Text
    <2>2. u.profile[p] = [t.profile[p] EXCEPT !.active = (p \in on)]  BY <1>2
    <2>3. [u.profile[p] EXCEPT !.active = (p \in on)] = u.profile[p]
      <3> HIDE DEF u
      <3> QED BY <2>1, <2>2
    <2> QED BY <2>2, <2>3
  <1>4. g = f  BY <1>3
  <1>5. SetActive(u, on) = [u EXCEPT !.profile = g]  BY DEF SetActive
  <1> HIDE DEF u, f, g
  <1>6. [u EXCEPT !.profile = g] = u  BY <1>1, <1>2, <1>4 DEF Text
  <1> QED BY <1>5, <1>6 DEF u

LEMMA IdleType ==
  /\ IdleShell \in ShellState /\ IdleShell.pc = "idle" /\ ~IdleShell.alone
  /\ IdleManager \in ManagerState /\ IdleManager.pc = "idle"
  BY DEF IdleShell, ShellState, IdleManager, ManagerState

LEMMA NeverType == Never \in [Key -> Nat] /\ \A k \in Key : Never[k] = 0
  BY DEF Never

LEMMA DisturbedType ==
  ASSUME shell \in [Shell -> ShellState]
  PROVE  /\ Disturbed(shell) \in [Shell -> ShellState]
         /\ \A q \in Shell : /\ Disturbed(shell)[q].pc = shell[q].pc
                             /\ Disturbed(shell)[q].got = shell[q].got
                             /\ Disturbed(shell)[q].alone = FALSE
  BY DEF Disturbed, ShellState

LEMMA DisconnectedType ==
  ASSUME shell \in [Shell -> ShellState]
  PROVE  /\ Disconnected \in [Shell -> ShellState]
         /\ \A q \in Shell : /\ Disconnected[q].pc \notin {"load", "store"}
                             /\ Disconnected[q].alone = FALSE
                             /\ shell[q].pc = "idle" => Disconnected[q].pc = "idle"
  <1> SUFFICES ASSUME NEW q \in Shell
               PROVE  /\ Disconnected[q] \in ShellState
                      /\ Disconnected[q].pc \notin {"load", "store"}
                      /\ Disconnected[q].alone = FALSE
                      /\ shell[q].pc = "idle" => Disconnected[q].pc = "idle"
    BY DEF Disconnected
  <1> DEFINE s == [shell[q] EXCEPT !.alone = FALSE]
  <1>1. s \in ShellState /\ s.pc = shell[q].pc /\ s.alone = FALSE  BY DEF ShellState
  <1>2. Disconnected[q] = IF s.pc \notin {"load", "store"} THEN s
                          ELSE IF s.dead THEN IdleShell ELSE [s EXCEPT !.pc = "cleanup", !.got = Absent]
    BY DEF Disconnected
  <1>3. [s EXCEPT !.pc = "cleanup", !.got = Absent] \in ShellState
        /\ [s EXCEPT !.pc = "cleanup", !.got = Absent].pc = "cleanup"
        /\ [s EXCEPT !.pc = "cleanup", !.got = Absent].alone = FALSE
    BY <1>1 DEF ShellState
  <1> HIDE DEF s
  <1> QED BY <1>1, <1>2, <1>3, IdleType

LEMMA SpendType ==
  ASSUME left \in [Event -> Nat], NEW what \in Event, Spend(what)
  PROVE  left' \in [Event -> Nat]
  BY DEF Spend

-----------------------------------------------------------------------------
(* The parts that several commands share. *)
LEMMA GoneType ==
  ASSUME TypeOK, DaemonGone
  PROVE  /\ daemon' = Absent /\ ~Up'
         /\ shell' \in [Shell -> ShellState]
         /\ \A q \in Shell : /\ shell'[q].pc \notin {"load", "store"}
                             /\ shell'[q].alone = FALSE
                             /\ shell[q].pc = "idle" => shell'[q].pc = "idle"
         /\ activity' \in Activity
  <1>1. shell \in [Shell -> ShellState] /\ activity \in Activity  BY DEF TypeOK
  <1>2. activity' \in Activity  BY <1>1, NeverType DEF DaemonGone, Activity
  <1> QED BY <1>1, <1>2, DisconnectedType DEF DaemonGone, Up

LEMMA StopType ==
  ASSUME TypeOK, StopService, manager' \in ManagerState, left' \in [Event -> Nat]
  PROVE  TypeOK'
  BY GoneType DEF StopService, TypeOK

LEMMA StartType ==
  ASSUME TypeOK, StartEnabled, manager' \in ManagerState, left' \in [Event -> Nat]
  PROVE  /\ TypeOK'
         /\ \A q \in Shell : /\ shell'[q].alone = FALSE
                             /\ shell[q].pc = "idle" => shell'[q].pc = "idle"
         /\ \/ DaemonGone
            \/ shell' = Disturbed(shell) /\ UNCHANGED <<daemon, activity>>
  <1>1. CASE shell' = Disturbed(shell) /\ UNCHANGED <<daemon, activity>>
    BY <1>1, DisturbedType DEF StartEnabled, TypeOK, Up
  <1>2. CASE DaemonGone
    BY <1>2, GoneType DEF StartEnabled, TypeOK
  <1> QED BY <1>1, <1>2 DEF StartEnabled

LEMMA DisturbedManagerType ==
  ASSUME manager \in ManagerState
  PROVE  DisturbedManager \in ManagerState /\ ~DisturbedManager.alone
         /\ DisturbedManager.pc = manager.pc
  BY DEF DisturbedManager, ManagerState

(* One shell goes on and nothing else changes its shape. *)
LEMMA BecomeType ==
  ASSUME TypeOK, NEW p \in Shell, NEW new \in ShellState, Become(p, new)
  PROVE  /\ shell' \in [Shell -> ShellState]
         /\ shell'[p] = new /\ \A q \in Shell \ {p} : shell'[q] = shell[q]
  BY DEF Become, TypeOK

-----------------------------------------------------------------------------
(* Type correctness. *)
LEMMA InitType == Init => TypeOK
  <1> SUFFICES ASSUME Init PROVE TypeOK  OBVIOUS
  <1>1. uci \in Text /\ left \in [Event -> Nat]  BY RuntimeAssumption DEF Init
  <1>2. shell \in [Shell -> ShellState] /\ \A p \in Shell : shell[p].pc = "idle"
    BY IdleType DEF Init
  <1>3. activity \in Activity
    <2>1. PICK d \in {Never, [k \in Key |-> IF k \in Ip THEN 1 ELSE 0]}, form \in {"v2", "legacy"} :
            activity = [mem |-> Never, disk |-> d, form |-> form, busy |-> FALSE, tick |-> 1]
      BY DEF Init
    <2>2. d \in [Key -> Nat]  BY NeverType
    <2> QED BY <2>1, <2>2, NeverType DEF Activity
  <1> QED BY <1>1, <1>2, <1>3, IdleType DEF Init, TypeOK

LEMMA ReloadType ==
  ASSUME TypeOK, Vetted, NEW p \in Shell, Reload(p)
  PROVE  TypeOK'
  <1> USE DEF files
  <1>0. /\ shell \in [Shell -> ShellState] /\ manager \in ManagerState
        /\ left \in [Event -> Nat] /\ shell[p] \in ShellState
    BY DEF TypeOK
  <1>1. ASSUME NEW pc \in {"idle", "copy", "publish", "call", "load", "store", "install",
                           "cleanup", "done", "failed"},
               NEW got \in Policy \cup {Absent}
        PROVE  /\ [shell[p] EXCEPT !.pc = pc] \in ShellState
               /\ [shell[p] EXCEPT !.pc = pc, !.got = got] \in ShellState
               /\ [shell[p] EXCEPT !.pc = pc].pc = pc
               /\ [shell[p] EXCEPT !.pc = pc, !.got = got].pc = pc
    BY <1>0 DEF ShellState
  <1>a. ASSUME NEW pc \in {"publish", "call", "load", "install", "cleanup", "done", "failed"},
               Goto(p, pc), pc = "load" => Up
        PROVE  /\ shell' \in [Shell -> ShellState]
               /\ \A q \in Shell : shell'[q].pc \in {"load", "store"} => Up
    <2>2. [shell[p] EXCEPT !.pc = pc] \in ShellState /\ [shell[p] EXCEPT !.pc = pc].pc = pc
      BY <1>0 DEF ShellState
    <2>3. /\ shell' \in [Shell -> ShellState] /\ shell'[p].pc = pc
          /\ \A q \in Shell \ {p} : shell'[q] = shell[q]
      BY <1>a, <2>2, BecomeType DEF Goto
    <2> QED BY <1>a, <2>3 DEF TypeOK
  <1>2. CASE ReloadRuntime(p)
    <2> DEFINE d == Disturbed(shell)
               before == <<IF Up THEN daemon.policy ELSE Absent, file>>
               new == [IdleShell EXCEPT !.pc = "copy", !.alone = Quiet(p), !.before = before]
    <2>1. before \in (Policy \cup {Absent}) \X (Text \cup {Absent})
      BY DEF TypeOK, Daemon, Up
    <2>2. Quiet(p) \in BOOLEAN  BY DEF Quiet
    <2>3. new \in ShellState /\ new.pc = "copy"
      <3> HIDE DEF before
      <3>1. \A b \in BOOLEAN : /\ [IdleShell EXCEPT !.pc = "copy", !.alone = b, !.before = before] \in ShellState
                               /\ [IdleShell EXCEPT !.pc = "copy", !.alone = b, !.before = before].pc = "copy"
        BY <2>1, IdleType DEF ShellState
      <3> QED BY <3>1, <2>2
    <2>4. d \in [Shell -> ShellState] /\ \A q \in Shell : d[q].pc = shell[q].pc
      BY <1>0, DisturbedType
    <2>5. shell' = [d EXCEPT ![p] = new]  BY <1>2 DEF ReloadRuntime
    <2> HIDE DEF d, new
    <2>6. shell' \in [Shell -> ShellState]
          /\ \A q \in Shell : shell'[q].pc \in {"load", "store"} => shell[q].pc \in {"load", "store"}
      BY <2>3, <2>4, <2>5
    <2>7. left' \in [Event -> Nat]  BY <1>2, SpendType DEF ReloadRuntime, TypeOK, Event
    <2> QED BY <1>2, <2>6, <2>7, <1>0, DisturbedManagerType DEF ReloadRuntime, TypeOK, Up
  <1>3. CASE CopyConfig(p)
    <2>1. [shell[p] EXCEPT !.pc = "publish", !.text = uci] \in ShellState
          /\ [shell[p] EXCEPT !.pc = "publish", !.text = uci].pc = "publish"
      BY <1>0 DEF ShellState, TypeOK
    <2> QED BY <1>3, <2>1, BecomeType DEF CopyConfig, TypeOK, Up
  <1>4. CASE Publish(p)
    <2>1. shell[p].text \in Text \cup {Absent}  BY <1>0 DEF ShellState
    <2> QED BY <1>4, <1>a, <2>1 DEF Publish, TypeOK, Up
  <1>5. CASE CallControl(p)
    <2>1. CASE sock /\ Up
      BY <1>5, <1>a, <2>1 DEF CallControl, TypeOK, Up
    <2>2. CASE ~(sock /\ Up)
      BY <1>5, <1>a, <2>2 DEF CallControl, TypeOK, Up
    <2> QED BY <2>1, <2>2
  <1>6. CASE HandleLoad(p)
    <2>1. CASE Accepts(next)
      <3>1. Load(next) \in Policy  BY <2>1, LoadType DEF Accepts, Loads, TypeOK
      <3> QED BY <1>6, <1>1, <2>1, <3>1, BecomeType DEF HandleLoad, TypeOK, Up
    <2>2. CASE ~Accepts(next)
      BY <1>6, <1>1, <2>2, BecomeType, IdleType DEF HandleLoad, Answered, TypeOK, Up
    <2> QED BY <2>1, <2>2
  <1>7. CASE HandleStore(p)
    <2>1. shell[p].got \in Policy \cup {Absent}  BY <1>0 DEF ShellState
    <2>2. shell' \in [Shell -> ShellState] /\ \A q \in Shell \ {p} : shell'[q] = shell[q]
          /\ shell'[p].pc \in {"idle", "install"}
      <3>1. [shell[p] EXCEPT !.pc = "install", !.got = shell[p].got] \in ShellState
            /\ [shell[p] EXCEPT !.pc = "install", !.got = shell[p].got].pc = "install"
        BY <1>1, <2>1
      <3> QED BY <1>7, <3>1, BecomeType, IdleType DEF HandleStore, Answered
    <2>3. Up  BY <1>7 DEF HandleStore, TypeOK
    <2>4. daemon' \in Daemon  
      <3>1. shell[p].got \in Policy  BY <1>7 DEF HandleStore, Vetted
      <3> QED BY <1>7, <2>3, <3>1 DEF HandleStore, TypeOK, Daemon, Up
    <2> QED BY <1>7, <2>2, <2>4, AbsentIsNone DEF HandleStore, TypeOK, Up
  <1>8. CASE Install(p)  BY <1>8, <1>a DEF Install, TypeOK, Up
  <1>9. CASE InstallGone(p)  BY <1>9, <1>a DEF InstallGone, TypeOK, Up
  <1>10. CASE ReloadFails(p)
    <2>1. left' \in [Event -> Nat]  BY <1>10, SpendType DEF ReloadFails, TypeOK, Event
    <2> QED BY <1>10, <1>a, <2>1 DEF ReloadFails, TypeOK, Up
  <1>11. CASE Cleanup(p)  BY <1>11, <1>a DEF Cleanup, TypeOK, Up
  <1>12. CASE ReloadReturns(p)  BY <1>12, BecomeType, IdleType DEF ReloadReturns, TypeOK, Up
  <1>13. CASE ReloadKilled(p)
    <2>1. left' \in [Event -> Nat]  BY <1>13, SpendType DEF ReloadKilled, TypeOK, Event
    <2>2. [shell[p] EXCEPT !.dead = TRUE] \in ShellState
          /\ [shell[p] EXCEPT !.dead = TRUE].pc = shell[p].pc
      BY <1>0 DEF ShellState
    <2> QED BY <1>13, <2>1, <2>2, BecomeType, IdleType DEF ReloadKilled, TypeOK, Up
  <1> QED BY <1>2, <1>3, <1>4, <1>5, <1>6, <1>7, <1>8, <1>9, <1>10, <1>11, <1>12, <1>13 DEF Reload

(* The init script, alone or on behalf of locspoof-profile. *)
LEMMA ServiceType ==
  ASSUME TypeOK, manager' \in ManagerState, left' \in [Event -> Nat],
         StopService \/ StartEnabled \/ StartDisabled
  PROVE  TypeOK'
  BY StopType, StartType DEF StartDisabled

LEMMA ManageType ==
  ASSUME TypeOK, Manage
  PROVE  TypeOK'
  <1> USE DEF files
  <1>0. manager \in ManagerState /\ left \in [Event -> Nat] /\ uci \in Text
    BY DEF TypeOK
  <1>1. ASSUME NEW pc \in {"idle", "stop", "start", "undo", "stop again", "start again", "failed"}
        PROVE  [manager EXCEPT !.pc = pc] \in ManagerState
    BY <1>0 DEF ManagerState
  <1>2. ASSUME NEW w \in Profile, Activate(w) PROVE TypeOK'
    <2>1. uci' \in Text  BY <1>2, <1>0, SetActiveType DEF Activate
    <2>2. (\A p \in Shell : ~Busy(p)) \in BOOLEAN  OBVIOUS
    <2>3. Active(uci) \subseteq Profile  BY DEF Active
    <2>4. manager' \in ManagerState
      <3>1. \A b \in BOOLEAN : [pc |-> "stop", old |-> Active(uci), before |-> uci, alone |-> b]
                                 \in ManagerState
        BY <1>0, <2>3 DEF ManagerState
      <3> QED BY <1>2, <2>2, <3>1 DEF Activate
    <2>5. left' \in [Event -> Nat]  BY <1>2, <1>0, SpendType DEF Activate, Event
    <2> QED BY <1>2, <2>1, <2>4, <2>5, DisturbedType DEF Activate, TypeOK, Up
  <1>3. CASE ActivateStop
    <2>1. manager' \in ManagerState  BY <1>3, <1>1 DEF ActivateStop
    <2>2. left' \in [Event -> Nat]  BY <1>3, <1>0, SpendType DEF ActivateStop, Event
    <2> QED BY <1>3, <2>1, <2>2, StopType DEF ActivateStop
  <1>4. CASE ActivateStart
    <2>1. manager' \in ManagerState  BY <1>4, <1>1, IdleType DEF ActivateStart
    <2>2. left' \in [Event -> Nat]  BY <1>4, <1>0, SpendType DEF ActivateStart, StartFails, Event
    <2> QED BY <1>4, <2>1, <2>2, ServiceType DEF ActivateStart, StartFails
  <1>5. CASE ActivateUndo
    <2>1. uci' \in Text  BY <1>5, <1>0, SetActiveType DEF ActivateUndo
    <2> QED BY <1>5, <2>1, <1>1 DEF ActivateUndo, TypeOK, Up
  <1>6. CASE ActivateStartAgain
    <2>1. manager' \in ManagerState  BY <1>6, <1>1 DEF ActivateStartAgain
    <2>2. left' \in [Event -> Nat]
      BY <1>6, <1>0, SpendType DEF ActivateStartAgain, StartFails, Event
    <2> QED BY <1>6, <2>1, <2>2, ServiceType DEF ActivateStartAgain, StartFails
  <1>7. CASE ActivateReturns
    BY <1>7, IdleType DEF ActivateReturns, TypeOK, Up
  <1> QED BY <1>2, <1>3, <1>4, <1>5, <1>6, <1>7 DEF Manage

LEMMA LoadActivityType ==
  ASSUME activity \in Activity
  PROVE  LoadActivity \in [Key -> Nat]
  BY NeverType DEF LoadActivity, Activity

LEMMA RecordType ==
  ASSUME activity \in Activity, RecordModified
  PROVE  \E ip \in Ip, mac \in SUBSET Mac :
           /\ activity' = [activity EXCEPT !.tick = activity.tick + 1, !.busy = TRUE,
                             !.mem = [k \in Key |-> IF k \in {ip} \cup mac THEN activity.tick + 1
                                                    ELSE activity.mem[k]]]
           /\ activity' \in Activity
  <1>1. PICK ip \in Ip, mac \in SUBSET Mac :
           activity' = [activity EXCEPT !.tick = activity.tick + 1, !.busy = TRUE,
                             !.mem = [k \in Key |-> IF k \in {ip} \cup mac THEN activity.tick + 1
                                                    ELSE activity.mem[k]]]
    BY DEF RecordModified
  <1>2. [k \in Key |-> IF k \in {ip} \cup mac THEN activity.tick + 1 ELSE activity.mem[k]]
          \in [Key -> Nat]
    BY DEF Activity
  <1>3. ASSUME NEW f \in [Key -> Nat], NEW t \in Nat
        PROVE  [activity EXCEPT !.tick = t, !.busy = TRUE, !.mem = f] \in Activity
    BY DEF Activity
  <1>4. activity.tick + 1 \in Nat  BY DEF Activity
  <1>5. activity' \in Activity  BY <1>1, <1>2, <1>3, <1>4
  <1> QED BY <1>1, <1>5

LEMMA TypeStep == TypeOK /\ Vetted /\ [Next]_vars => TypeOK'
  <1> USE DEF files
  <1> SUFFICES ASSUME TypeOK, Vetted, [Next]_vars PROVE TypeOK'  OBVIOUS
  <1>0. manager \in ManagerState /\ left \in [Event -> Nat] /\ activity \in Activity
        /\ shell \in [Shell -> ShellState]
    BY DEF TypeOK
  <1>1. CASE UciEdit
    <2>1. uci' \in Text  BY <1>1, RuntimeAssumption DEF UciEdit
    <2>2. left' \in [Event -> Nat]  BY <1>1, <1>0, SpendType DEF UciEdit, Event
    <2> QED BY <1>1, <1>0, <2>1, <2>2, DisturbedManagerType DEF UciEdit, TypeOK, Up
  <1>2. CASE Service
    <2>1. left' \in [Event -> Nat]  BY <1>2, <1>0, SpendType DEF Service, Event
    <2> QED BY <1>2, <1>0, <2>1, DisturbedManagerType, ServiceType DEF Service
  <1>3. CASE DaemonStart
    <2>1. file \in Text  BY <1>3 DEF DaemonStart, Startable, Loads, TypeOK
    <2>2. daemon' \in Daemon  BY <1>3, <2>1, LoadType DEF DaemonStart, Daemon
    <2>3. activity' \in Activity  BY <1>3, <1>0, LoadActivityType DEF DaemonStart, Activity
    <2> QED BY <1>3, <1>0, <2>2, <2>3, DisturbedType, AbsentIsNone DEF DaemonStart, TypeOK, Up
  <1>4. CASE DaemonCrash
    <2>1. left' \in [Event -> Nat]  BY <1>4, <1>0, SpendType DEF DaemonCrash, Event
    <2> QED BY <1>4, <2>1, GoneType DEF DaemonCrash, TypeOK
  <1>5. CASE Manage  BY <1>5, ManageType
  <1>6. CASE RecordModified
    <2>1. left' \in [Event -> Nat]  BY <1>6, <1>0, SpendType DEF RecordModified, Event
    <2> QED BY <1>6, <1>0, <2>1, RecordType DEF RecordModified, TypeOK, Up
  <1>7. CASE Persist
    <2>1. activity' \in Activity  BY <1>7, <1>0 DEF Persist, Activity
    <2> QED BY <1>7, <2>1 DEF Persist, TypeOK, Up
  <1>8. CASE PersistFails
    <2>1. activity' \in Activity  BY <1>8, <1>0 DEF PersistFails, Activity
    <2>2. left' \in [Event -> Nat]  BY <1>8, <1>0, SpendType DEF PersistFails, Event
    <2> QED BY <1>8, <2>1, <2>2 DEF PersistFails, TypeOK, Up
  <1>9. CASE \E p \in Shell : Reload(p)  BY <1>9, ReloadType
  <1>10. CASE UNCHANGED vars  BY <1>10 DEF vars, TypeOK, Up
  <1> QED BY <1>1, <1>2, <1>3, <1>4, <1>5, <1>6, <1>7, <1>8, <1>9, <1>10 DEF Next

-----------------------------------------------------------------------------
(* The policy. *)
LEMMA VettedFrame ==
  ASSUME Vetted, UNCHANGED daemon,
         \A p \in Shell : shell'[p].pc = "store" =>
           shell[p].pc = "store" /\ shell'[p].got = shell[p].got
  PROVE  Vetted'
  BY DEF Vetted, PolicyVetted, Sound, Up

LEMMA VettedGone ==
  ASSUME TypeOK, DaemonGone
  PROVE  Vetted'
  BY GoneType DEF Vetted, PolicyVetted

LEMMA VettedService ==
  ASSUME TypeOK, Vetted, StopService \/ StartEnabled \/ StartDisabled
  PROVE  Vetted'
  <1>1. CASE DaemonGone  BY <1>1, VettedGone
  <1>2. CASE shell' = Disturbed(shell) /\ UNCHANGED daemon
    <2>1. shell \in [Shell -> ShellState]  BY DEF TypeOK
    <2> QED BY <1>2, <2>1, DisturbedType, VettedFrame
  <1> QED BY <1>1, <1>2 DEF StopService, StartEnabled, StartDisabled

LEMMA VettedReload ==
  ASSUME TypeOK, Vetted, NEW p \in Shell, Reload(p)
  PROVE  Vetted'
  <1>0. shell \in [Shell -> ShellState] /\ shell[p] \in ShellState  BY DEF TypeOK
  <1>a. ASSUME NEW pc, Goto(p, pc), pc # "store", UNCHANGED daemon PROVE Vetted'
    <2>1. \A q \in Shell : shell'[q].pc = "store" => shell'[q] = shell[q]
      BY <1>a, <1>0 DEF Goto, Become, ShellState
    <2> QED BY <1>a, <2>1, VettedFrame
  <1>b. ASSUME NEW new, Become(p, new), new.pc # "store", UNCHANGED daemon PROVE Vetted'
    <2>1. \A q \in Shell : shell'[q].pc = "store" => shell'[q] = shell[q]
      BY <1>b, <1>0 DEF Become
    <2> QED BY <1>b, <2>1, VettedFrame
  <1>2. CASE ReloadRuntime(p)
    <2> DEFINE d == Disturbed(shell)
               new == [IdleShell EXCEPT !.pc = "copy", !.alone = Quiet(p),
                         !.before = <<IF Up THEN daemon.policy ELSE Absent, file>>]
    <2>1. new.pc = "copy"  BY DEF IdleShell
    <2>2. d \in [Shell -> ShellState]
          /\ \A q \in Shell : d[q].pc = shell[q].pc /\ d[q].got = shell[q].got
      BY <1>0, DisturbedType
    <2>3. shell' = [d EXCEPT ![p] = new]  BY <1>2 DEF ReloadRuntime
    <2> HIDE DEF d, new
    <2>4. \A q \in Shell : shell'[q].pc = "store" => shell'[q].got = shell[q].got /\ shell[q].pc = "store"
      BY <2>1, <2>2, <2>3
    <2> QED BY <1>2, <2>4, VettedFrame DEF ReloadRuntime
  <1>3. CASE CopyConfig(p)
    <2>1. [shell[p] EXCEPT !.pc = "publish", !.text = uci].pc = "publish"
      BY <1>0 DEF ShellState
    <2> QED BY <1>3, <2>1, <1>b DEF CopyConfig
  <1>4. CASE Publish(p)  BY <1>4, <1>a DEF Publish
  <1>5. CASE CallControl(p)  BY <1>5, <1>a DEF CallControl
  <1>6. CASE HandleLoad(p)
    <2>1. CASE Accepts(next)
      <3>1. next \in Text  BY <2>1 DEF Accepts, Loads, TypeOK
      <3>2. Load(next) \in Policy  BY <3>1, LoadType
      <3>3. Cardinality(Selected(next)) = 1  BY <2>1, <3>1, SelectedOne DEF Accepts
      <3>4. Sound(Load(next))  BY <2>1, <3>3 DEF Sound, Load, Accepts
      <3>5. [shell[p] EXCEPT !.pc = "store", !.got = Load(next)].got = Load(next)
        BY <1>0 DEF ShellState
      <3>6. shell'[p].got = Load(next) /\ \A q \in Shell \ {p} : shell'[q] = shell[q]
        BY <1>6, <2>1, <1>0, <3>5 DEF HandleLoad, Become
      <3>7. UNCHANGED daemon  BY <1>6 DEF HandleLoad
      <3> QED BY <3>2, <3>4, <3>6, <3>7 DEF Vetted, PolicyVetted, Sound, Up
    <2>2. CASE ~Accepts(next)
      <3>1. [shell[p] EXCEPT !.pc = "cleanup", !.got = Absent].pc = "cleanup"
        BY <1>0 DEF ShellState
      <3> QED BY <1>6, <2>2, <3>1, <1>b, IdleType DEF HandleLoad, Answered
    <2> QED BY <2>1, <2>2
  <1>7. CASE HandleStore(p)
    <2>1. Up /\ shell[p].got \in Policy /\ Sound(shell[p].got)
      BY <1>7 DEF HandleStore, TypeOK, Vetted
    <2>2. daemon \in Daemon  BY <2>1 DEF TypeOK, Up
    <2>3. daemon'.policy = shell[p].got /\ daemon'.start = daemon.start
      BY <1>7, <2>2 DEF HandleStore, Daemon
    <2>4. [shell[p] EXCEPT !.pc = "install", !.got = shell[p].got].pc = "install"
      BY <1>0 DEF ShellState
    <2>5. shell'[p].pc # "store" /\ \A q \in Shell \ {p} : shell'[q] = shell[q]
      BY <1>7, <1>0, <2>4, IdleType DEF HandleStore, Answered, Become
    <2> QED BY <2>1, <2>3, <2>5 DEF Vetted, PolicyVetted, Sound
  <1>8. CASE Install(p)  BY <1>8, <1>a DEF Install
  <1>9. CASE InstallGone(p)  BY <1>9, <1>a DEF InstallGone
  <1>10. CASE ReloadFails(p)  BY <1>10, <1>a DEF ReloadFails
  <1>11. CASE Cleanup(p)  BY <1>11, <1>a DEF Cleanup
  <1>12. CASE ReloadReturns(p)  BY <1>12, <1>b, IdleType DEF ReloadReturns
  <1>13. CASE ReloadKilled(p)
    <2>1. [shell[p] EXCEPT !.dead = TRUE].pc = shell[p].pc
          /\ [shell[p] EXCEPT !.dead = TRUE].got = shell[p].got
      BY <1>0 DEF ShellState
    <2>2. \A q \in Shell : shell'[q].pc = "store" => shell'[q].got = shell[q].got /\ shell[q].pc = "store"
      BY <1>13, <1>0, <2>1, IdleType DEF ReloadKilled, Become
    <2> QED BY <1>13, <2>2, VettedFrame DEF ReloadKilled
  <1> QED BY <1>2, <1>3, <1>4, <1>5, <1>6, <1>7, <1>8, <1>9, <1>10, <1>11, <1>12, <1>13 DEF Reload

LEMMA VettedStep == TypeOK /\ Vetted /\ [Next]_vars => Vetted'
  <1> SUFFICES ASSUME TypeOK, Vetted, [Next]_vars PROVE Vetted'  OBVIOUS
  <1>0. shell \in [Shell -> ShellState]  BY DEF TypeOK
  <1>a. CASE UNCHANGED <<daemon, shell>>  BY <1>a, VettedFrame
  <1>b. CASE shell' = Disturbed(shell) /\ UNCHANGED daemon
    BY <1>b, <1>0, DisturbedType, VettedFrame
  <1>1. CASE UciEdit  BY <1>1, <1>a DEF UciEdit
  <1>2. CASE Service  BY <1>2, VettedService DEF Service
  <1>3. CASE DaemonStart
    <2>1. file \in Text  BY <1>3 DEF DaemonStart, Startable, Loads, TypeOK
    <2>2. file.enabled => Cardinality(Selected(file)) = 1
      BY <1>3, <2>1, SelectedOne DEF DaemonStart, Startable
    <2>3. \A p \in Shell : shell'[p].pc # "store"
      BY <1>3, <1>0, DisturbedType DEF DaemonStart, TypeOK
    <2> QED BY <1>3, <2>2, <2>3 DEF DaemonStart, Vetted, PolicyVetted, Load
  <1>4. CASE DaemonCrash  BY <1>4, VettedGone DEF DaemonCrash
  <1>5. CASE Manage
    <2>1. CASE \E w \in Profile : Activate(w)  BY <2>1, <1>b DEF Activate
    <2>2. CASE ActivateStop  BY <2>2, VettedService DEF ActivateStop
    <2>3. CASE ActivateStart  BY <2>3, VettedService DEF ActivateStart, StartFails
    <2>4. CASE ActivateUndo  BY <2>4, <1>a DEF ActivateUndo
    <2>5. CASE ActivateStartAgain  BY <2>5, VettedService DEF ActivateStartAgain, StartFails
    <2>6. CASE ActivateReturns  BY <2>6, <1>a DEF ActivateReturns
    <2> QED BY <1>5, <2>1, <2>2, <2>3, <2>4, <2>5, <2>6 DEF Manage
  <1>6. CASE RecordModified  BY <1>6, <1>a DEF RecordModified
  <1>7. CASE Persist  BY <1>7, <1>a DEF Persist
  <1>8. CASE PersistFails  BY <1>8, <1>a DEF PersistFails
  <1>9. CASE \E p \in Shell : Reload(p)  BY <1>9, VettedReload
  <1>10. CASE UNCHANGED vars  BY <1>10, <1>a DEF vars
  <1> QED BY <1>1, <1>2, <1>3, <1>4, <1>5, <1>6, <1>7, <1>8, <1>9, <1>10 DEF Next

-----------------------------------------------------------------------------
(* The history.  What a step may do to the daemon and to its memory. *)
LEMMA Memory ==
  ASSUME TypeOK, Vetted, [Next]_vars
  PROVE  \/ UNCHANGED activity /\ Up' = Up
         \/ DaemonGone \/ DaemonStart \/ RecordModified \/ Persist \/ PersistFails
  <1>a. CASE UNCHANGED <<daemon, activity>>  BY <1>a DEF Up
  <1>b. StartEnabled \/ StopService \/ StartDisabled =>
          DaemonGone \/ UNCHANGED <<daemon, activity>>
    BY DEF StartEnabled, StopService, StartDisabled
  <1>1. CASE UciEdit  BY <1>1, <1>a DEF UciEdit
  <1>2. CASE Service  BY <1>2, <1>a, <1>b DEF Service
  <1>3. CASE DaemonCrash  BY <1>3 DEF DaemonCrash
  <1>4. CASE Manage
    <2>1. CASE \E w \in Profile : Activate(w)  BY <2>1, <1>a DEF Activate
    <2>2. CASE ActivateStop  BY <2>2, <1>a, <1>b DEF ActivateStop
    <2>3. CASE ActivateStart  BY <2>3, <1>a, <1>b DEF ActivateStart, StartFails
    <2>4. CASE ActivateUndo  BY <2>4, <1>a DEF ActivateUndo
    <2>5. CASE ActivateStartAgain  BY <2>5, <1>a, <1>b DEF ActivateStartAgain, StartFails
    <2>6. CASE ActivateReturns  BY <2>6, <1>a DEF ActivateReturns
    <2> QED BY <1>4, <2>1, <2>2, <2>3, <2>4, <2>5, <2>6 DEF Manage
  <1>5. ASSUME NEW p \in Shell, Reload(p) PROVE UNCHANGED activity /\ Up' = Up
    <2>1. CASE HandleStore(p)
      <3>1. Up /\ daemon \in Daemon  BY <2>1 DEF HandleStore, TypeOK, Up
      <3>2. shell[p].got \in Policy  BY <2>1 DEF HandleStore, Vetted
      <3>3. daemon' \in Daemon  BY <2>1, <3>1, <3>2 DEF HandleStore, Daemon
      <3> QED BY <2>1, <3>1, <3>3, AbsentIsNone DEF HandleStore, Up
    <2>2. CASE ~HandleStore(p)
      BY <1>5, <2>2, <1>a DEF Reload, ReloadRuntime, CopyConfig, Publish, CallControl, HandleLoad,
         Install, InstallGone, ReloadFails, Cleanup, ReloadReturns, ReloadKilled, Up
    <2> QED BY <2>1, <2>2
  <1>6. CASE UNCHANGED vars  BY <1>6, <1>a DEF vars
  <1> QED BY <1>1, <1>2, <1>3, <1>4, <1>5, <1>6 DEF Next

LEMMA InFileType == ASSUME NEW disk PROVE InFile(disk) \in Nat
  <1>1. {k \in Key : disk[k] # 0} \subseteq Key /\ IsFiniteSet(Key)
    BY RuntimeAssumption, FS_Union DEF Key
  <1> QED BY <1>1, FS_Subset, FS_CardinalityType DEF InFile

LEMMA HistoryStep == TypeOK /\ Vetted /\ History /\ [Next]_vars => History'
  <1> SUFFICES ASSUME TypeOK, Vetted, History, [Next]_vars PROVE History'  OBVIOUS
  <1>0. activity \in Activity /\ MaxEntries \in Nat  BY RuntimeAssumption DEF TypeOK
  <1>1. CASE UNCHANGED activity /\ Up' = Up  BY <1>1 DEF History
  <1>2. CASE DaemonGone
    <2>1. /\ activity'.mem = Never /\ activity'.busy = FALSE /\ activity'.disk = activity.disk
          /\ activity'.form = activity.form /\ activity'.tick = activity.tick
      BY <1>2, <1>0 DEF DaemonGone, Activity
    <2>2. ~Up'  BY <1>2 DEF DaemonGone, Up
    <2>3. \A k \in Key : Never[k] <= activity.tick  BY <1>0, NeverType DEF Activity
    <2> QED BY <2>1, <2>2, <2>3 DEF History
  <1>3. CASE DaemonStart
    <2>1. /\ activity'.mem = LoadActivity /\ activity'.busy = activity.busy
          /\ activity'.disk = activity.disk
          /\ activity'.form = activity.form /\ activity'.tick = activity.tick
      BY <1>3, <1>0 DEF DaemonStart, Activity
    <2>2. ~activity.busy  BY <1>3 DEF DaemonStart, History
    <2>3. activity.tick \in Nat /\ \A k \in Key : activity.disk[k] \in Nat  BY <1>0 DEF Activity
    <2>4. ASSUME NEW k \in Key PROVE LoadActivity[k] <= activity.tick
      BY <2>3, NeverType DEF LoadActivity, History
    <2>5. ASSUME InFile(activity.disk) <= MaxEntries, NEW k \in Key
          PROVE  LoadActivity[k] >= activity.disk[k]
      <3>1. ~(InFile(activity.disk) > MaxEntries)  BY <2>5, <1>0, InFileType
      <3> QED BY <3>1, <2>3 DEF LoadActivity, History
    <2> QED BY <2>1, <2>2, <2>4, <2>5 DEF History
  <1>4. CASE RecordModified
    <2>1. PICK ip \in Ip, mac \in SUBSET Mac :
            activity' = [activity EXCEPT !.tick = activity.tick + 1, !.busy = TRUE,
                           !.mem = [k \in Key |-> IF k \in {ip} \cup mac THEN activity.tick + 1
                                                  ELSE activity.mem[k]]]
      BY <1>4, <1>0, RecordType
    <2>2. /\ activity'.tick = activity.tick + 1 /\ activity'.busy = TRUE
          /\ activity'.disk = activity.disk /\ activity'.form = activity.form
          /\ activity'.mem = [k \in Key |-> IF k \in {ip} \cup mac THEN activity.tick + 1
                                            ELSE activity.mem[k]]
      BY <2>1, <1>0 DEF Activity
    <2>3. Up /\ Up'  BY <1>4 DEF RecordModified, Up
    <2>4. activity.tick \in Nat
          /\ \A k \in Key : activity.disk[k] \in Nat /\ activity.mem[k] \in Nat
      BY <1>0 DEF Activity
    <2>5. ASSUME NEW k \in Key
          PROVE  /\ activity'.mem[k] <= activity'.tick /\ activity'.disk[k] <= activity'.tick
                 /\ activity'.mem[k] >= activity.mem[k]
                 /\ activity'.mem[k] \in Nat
      BY <2>2, <2>4 DEF History
    <2>6. ASSUME InFile(activity'.disk) <= MaxEntries, NEW k \in Key
          PROVE  activity'.mem[k] >= activity'.disk[k]
      BY <2>2, <2>3, <2>4, <2>5, <2>6 DEF History
    <2> QED BY <2>2, <2>3, <2>5, <2>6 DEF History
  <1>5. CASE Persist
    <2>1. /\ activity'.disk = activity.mem /\ activity'.mem = activity.mem
          /\ activity'.form = "v2" /\ activity'.busy = FALSE /\ activity'.tick = activity.tick
      BY <1>5, <1>0 DEF Persist, Activity
    <2>2. \A k \in Key : activity.mem[k] \in Nat  BY <1>0 DEF Activity
    <2> QED BY <2>1, <2>2 DEF History
  <1>6. CASE PersistFails
    <2>1. /\ activity'.disk = activity.disk /\ activity'.mem = activity.mem
          /\ activity'.form = activity.form /\ activity'.busy = FALSE /\ activity'.tick = activity.tick
      BY <1>6, <1>0 DEF PersistFails, Activity
    <2>2. Up' = Up  BY <1>6 DEF PersistFails, Up
    <2> QED BY <2>1, <2>2 DEF History
  <1> QED BY <1>1, <1>2, <1>3, <1>4, <1>5, <1>6, Memory

(* Only Persist writes the file, with a memory that is ahead of it. *)
LEMMA KeptStep ==
  ASSUME TypeOK, Vetted, History, [Next]_vars,
         InFile(activity.disk) <= MaxEntries, NEW k \in Key
  PROVE  activity'.disk[k] >= activity.disk[k]
  <1>0. activity \in Activity  BY DEF TypeOK
  <1>1. activity.disk[k] \in Nat  BY <1>0 DEF Activity
  <1>2. CASE UNCHANGED activity  BY <1>1, <1>2
  <1>3. CASE DaemonGone  BY <1>0, <1>1, <1>3 DEF DaemonGone, Activity
  <1>4. CASE DaemonStart  BY <1>0, <1>1, <1>4 DEF DaemonStart, Activity
  <1>5. CASE RecordModified
    <2>1. activity'.disk = activity.disk  BY <1>0, <1>5, RecordType DEF Activity
    <2> QED BY <2>1, <1>1
  <1>6. CASE Persist
    <2>1. activity'.disk = activity.mem  BY <1>0, <1>6 DEF Persist, Activity
    <2>2. Up  BY <1>6 DEF Persist, History
    <2> QED BY <2>1, <2>2 DEF History
  <1>7. CASE PersistFails  BY <1>0, <1>1, <1>7 DEF PersistFails, Activity
  <1> QED BY <1>2, <1>3, <1>4, <1>5, <1>6, <1>7, Memory

-----------------------------------------------------------------------------
(* An undisturbed reload. *)
LEMMA GotoFields ==
  ASSUME TypeOK, NEW p \in Shell, NEW pc, Goto(p, pc)
  PROVE  /\ shell'[p].pc = pc
         /\ shell'[p].text = shell[p].text /\ shell'[p].got = shell[p].got
         /\ shell'[p].alone = shell[p].alone /\ shell'[p].before = shell[p].before
         /\ \A q \in Shell \ {p} : shell'[q] = shell[q]
  <1>1. shell \in [Shell -> ShellState] /\ shell[p] \in ShellState  BY DEF TypeOK
  <1>2. shell' = [shell EXCEPT ![p] = [shell[p] EXCEPT !.pc = pc]]  BY DEF Goto, Become
  <1>3. shell'[p] = [shell[p] EXCEPT !.pc = pc] /\ \A q \in Shell \ {p} : shell'[q] = shell[q]
    BY <1>1, <1>2
  <1> QED BY <1>1, <1>3 DEF ShellState

LEMMA StillQuiet ==
  ASSUME NEW p \in Shell, Quiet(p), manager'.pc = manager.pc,
         \A q \in Shell \ {p} : shell'[q].pc = shell[q].pc
  PROVE  Quiet(p)'
  BY DEF Quiet, Busy

(* Its own steps, but the first. *)
LEMMA OwnStep ==
  ASSUME TypeOK, Vetted, NEW p \in Shell, Reload(p), ~ReloadRuntime(p), AloneAt(p),
         shell[p].alone, Busy(p)'
  PROVE  AloneAt(p)'
  <1> USE DEF files
  <1>0. shell \in [Shell -> ShellState] /\ shell[p] \in ShellState  BY DEF TypeOK
  <1>q. ASSUME UNCHANGED manager, \A q \in Shell \ {p} : shell'[q] = shell[q] PROVE Quiet(p)'
    BY <1>q, StillQuiet DEF AloneAt
  <1>1. CASE CopyConfig(p)
    <2>1. shell' = [shell EXCEPT ![p] = [shell[p] EXCEPT !.pc = "publish", !.text = uci]]
      BY <1>1 DEF CopyConfig, Become
    <2>2. shell'[p] = [shell[p] EXCEPT !.pc = "publish", !.text = uci]
          /\ \A q \in Shell \ {p} : shell'[q] = shell[q]
      BY <1>0, <2>1
    <2>3. shell'[p].pc = "publish" /\ shell'[p].text = uci /\ shell'[p].got = shell[p].got
          /\ shell'[p].before = shell[p].before
      BY <1>0, <2>2 DEF ShellState
    <2>4. shell[p].pc = "copy" /\ uci \in Text /\ UNCHANGED <<next, file, daemon, manager>>
      BY <1>1 DEF CopyConfig, TypeOK
    <2>5. Quiet(p)'  BY <1>q, <2>2, <2>4
    <2> QED BY <2>3, <2>4, <2>5 DEF AloneAt, Up
  <1>2. CASE Publish(p)
    <2>1. shell[p].pc = "publish" /\ Goto(p, "call") /\ next' = shell[p].text
          /\ UNCHANGED <<file, daemon, manager>>
      BY <1>2 DEF Publish
    <2>2. Quiet(p)'  BY <1>q, <2>1, GotoFields
    <2> QED BY <2>1, <2>2, GotoFields DEF AloneAt, Up
  <1>3. CASE CallControl(p)
    <2>1. shell[p].pc = "call" /\ UNCHANGED <<next, file, daemon, manager>>
      BY <1>3 DEF CallControl
    <2>2. CASE Goto(p, "load")
      <3>1. Quiet(p)'  BY <1>q, <2>1, <2>2, GotoFields
      <3> QED BY <2>1, <2>2, <3>1, GotoFields DEF AloneAt, Up
    <2>3. CASE Goto(p, "cleanup")
      <3>1. Quiet(p)'  BY <1>q, <2>1, <2>3, GotoFields
      <3> QED BY <2>1, <2>3, <3>1, GotoFields DEF AloneAt, Up
    <2> QED BY <1>3, <2>2, <2>3 DEF CallControl
  <1>4. CASE HandleLoad(p)
    <2>1. shell[p].pc = "load" /\ UNCHANGED <<next, file, daemon, manager>> /\ next = shell[p].text
      BY <1>4 DEF HandleLoad, AloneAt
    <2>2. ASSUME NEW pc \in {"store", "cleanup"}, NEW got,
                 shell' = [shell EXCEPT ![p] = [shell[p] EXCEPT !.pc = pc, !.got = got]]
          PROVE  /\ shell'[p].pc = pc /\ shell'[p].got = got /\ shell'[p].text = shell[p].text
                 /\ shell'[p].before = shell[p].before
                 /\ \A q \in Shell \ {p} : shell'[q] = shell[q]
      <3>1. shell'[p] = [shell[p] EXCEPT !.pc = pc, !.got = got]
            /\ \A q \in Shell \ {p} : shell'[q] = shell[q]
        BY <1>0, <2>2
      <3> QED BY <1>0, <3>1 DEF ShellState
    <2>3. CASE Accepts(next)
      <3>1. /\ shell'[p].pc = "store" /\ shell'[p].got = Load(next) /\ shell'[p].text = shell[p].text
            /\ shell'[p].before = shell[p].before /\ \A q \in Shell \ {p} : shell'[q] = shell[q]
        BY <1>4, <2>2, <2>3 DEF HandleLoad, Become
      <3>2. Quiet(p)'  BY <1>q, <2>1, <3>1
      <3> QED BY <2>1, <3>1, <3>2 DEF AloneAt, Up
    <2>4. CASE ~Accepts(next) /\ ~shell[p].dead
      <3>1. /\ shell'[p].pc = "cleanup" /\ shell'[p].got = Absent /\ shell'[p].text = shell[p].text
            /\ shell'[p].before = shell[p].before /\ \A q \in Shell \ {p} : shell'[q] = shell[q]
        BY <1>4, <2>2, <2>4 DEF HandleLoad, Answered, Become
      <3>2. Quiet(p)'  BY <1>q, <2>1, <3>1
      <3> QED BY <2>1, <3>1, <3>2 DEF AloneAt, Up
    <2>5. CASE ~Accepts(next) /\ shell[p].dead
      BY <1>4, <1>0, <2>5, IdleType DEF HandleLoad, Answered, Become, Busy
    <2> QED BY <2>3, <2>4, <2>5
  <1>5. CASE HandleStore(p)
    <2>1. shell[p].pc = "store" /\ UNCHANGED <<next, file, manager>> /\ next = shell[p].text
          /\ shell[p].got = Load(shell[p].text)
      BY <1>5 DEF HandleStore, AloneAt
    <2>2. Up /\ daemon \in Daemon /\ shell[p].got \in Policy
      BY <2>1 DEF TypeOK, Vetted, Up
    <2>3. daemon' \in Daemon /\ daemon'.policy = shell[p].got
      BY <1>5, <2>2 DEF HandleStore, Daemon
    <2>4. CASE shell[p].dead
      BY <1>5, <1>0, <2>4, IdleType DEF HandleStore, Answered, Become, Busy
    <2>5. CASE ~shell[p].dead
      <3>1. shell'[p] = [shell[p] EXCEPT !.pc = "install", !.got = shell[p].got]
            /\ \A q \in Shell \ {p} : shell'[q] = shell[q]
        BY <1>5, <1>0, <2>5 DEF HandleStore, Answered, Become
      <3>2. shell'[p].pc = "install" /\ shell'[p].got = shell[p].got /\ shell'[p].text = shell[p].text
            /\ shell'[p].before = shell[p].before
        BY <1>0, <3>1 DEF ShellState
      <3>3. Quiet(p)'  BY <1>q, <2>1, <3>1
      <3> QED BY <2>1, <2>3, <3>2, <3>3, AbsentIsNone DEF AloneAt, Up
    <2> QED BY <2>4, <2>5
  <1>6. CASE Install(p)
    <2>1. shell[p].pc = "install" /\ Goto(p, "done") /\ file' = next /\ UNCHANGED <<daemon, manager>>
      BY <1>6 DEF Install
    <2>2. Quiet(p)'  BY <1>q, <2>1, GotoFields
    <2> QED BY <2>1, <2>2, GotoFields DEF AloneAt, Up
  <1>7. CASE InstallGone(p)
    <2>1. shell[p].pc = "install" /\ next = Absent  BY <1>7 DEF InstallGone
    <2> QED BY <2>1, AbsentIsNone DEF AloneAt
  <1>8. CASE ReloadFails(p)
    <2>1. shell[p].pc \in {"copy", "publish", "install"} /\ Goto(p, "cleanup")
          /\ UNCHANGED <<file, daemon, manager>>
      BY <1>8 DEF ReloadFails
    <2>2. Quiet(p)'  BY <1>q, <2>1, GotoFields
    <2>3. shell[p].pc = "install" => shell[p].got # Absent
      BY AbsentIsNone, LoadType DEF AloneAt
    <2> QED BY <2>1, <2>2, <2>3, GotoFields DEF AloneAt, Up
  <1>9. CASE Cleanup(p)
    <2>1. shell[p].pc = "cleanup" /\ Goto(p, "failed") /\ UNCHANGED <<file, daemon, manager>>
      BY <1>9 DEF Cleanup
    <2>2. Quiet(p)'  BY <1>q, <2>1, GotoFields
    <2> QED BY <2>1, <2>2, GotoFields DEF AloneAt, Up
  <1>10. CASE ReloadReturns(p)
    BY <1>10, <1>0, IdleType DEF ReloadReturns, Become, Busy
  <1>11. CASE ReloadKilled(p)
    <2>1. CASE shell[p].pc \in {"load", "store"}
      <3>1. shell'[p] = [shell[p] EXCEPT !.dead = TRUE] /\ \A q \in Shell \ {p} : shell'[q] = shell[q]
        BY <1>11, <1>0, <2>1 DEF ReloadKilled, Become
      <3>2. shell'[p].pc = shell[p].pc /\ shell'[p].got = shell[p].got
            /\ shell'[p].text = shell[p].text /\ shell'[p].before = shell[p].before
        BY <1>0, <3>1 DEF ShellState
      <3>3. UNCHANGED <<next, file, daemon, manager>>  BY <1>11 DEF ReloadKilled
      <3>4. Quiet(p)'  BY <1>q, <3>1, <3>3
      <3> QED BY <3>2, <3>3, <3>4 DEF AloneAt, Up
    <2>2. CASE shell[p].pc \notin {"load", "store"}
      BY <1>11, <1>0, <2>2, IdleType DEF ReloadKilled, Become, Busy
    <2> QED BY <2>1, <2>2
  <1> QED BY <1>1, <1>2, <1>3, <1>4, <1>5, <1>6, <1>7, <1>8, <1>9, <1>10, <1>11 DEF Reload

(* Any of them, seen from the other shells. *)
LEMMA OneShell ==
  ASSUME TypeOK, NEW p \in Shell, Reload(p), ~ReloadRuntime(p)
  PROVE  /\ Busy(p) /\ UNCHANGED manager
         /\ \A q \in Shell \ {p} : shell'[q] = shell[q]
         /\ shell'[p].alone => shell[p].alone
  <1>0. shell \in [Shell -> ShellState] /\ shell[p] \in ShellState  BY DEF TypeOK
  <1>1. Busy(p) /\ UNCHANGED manager
    BY DEF Reload, CopyConfig, Publish, CallControl, HandleLoad, HandleStore, Install, InstallGone,
       ReloadFails, Cleanup, ReloadReturns, ReloadKilled, Busy
  <1>2. ASSUME NEW new, Become(p, new), new.alone => shell[p].alone
        PROVE  /\ \A q \in Shell \ {p} : shell'[q] = shell[q]
               /\ shell'[p].alone => shell[p].alone
    BY <1>0, <1>2 DEF Become
  <1>3. ASSUME NEW pc, NEW got, NEW text
        PROVE  /\ [shell[p] EXCEPT !.pc = pc].alone = shell[p].alone
               /\ [shell[p] EXCEPT !.pc = pc, !.got = got].alone = shell[p].alone
               /\ [shell[p] EXCEPT !.pc = pc, !.text = text].alone = shell[p].alone
               /\ [shell[p] EXCEPT !.dead = TRUE].alone = shell[p].alone
    BY <1>0 DEF ShellState
  <1>4. \A pc, got : Goto(p, pc) \/ Answered(p, pc, got) =>
          /\ \A q \in Shell \ {p} : shell'[q] = shell[q]
          /\ shell'[p].alone => shell[p].alone
    BY <1>2, <1>3, IdleType DEF Goto, Answered
  <1>5. CASE CopyConfig(p)  BY <1>5, <1>1, <1>2, <1>3 DEF CopyConfig
  <1>6. CASE HandleLoad(p)  BY <1>6, <1>1, <1>2, <1>3, <1>4 DEF HandleLoad
  <1>7. CASE HandleStore(p)  BY <1>7, <1>1, <1>4 DEF HandleStore
  <1>8. CASE ReloadReturns(p)  BY <1>8, <1>1, <1>2, IdleType DEF ReloadReturns
  <1>9. CASE ReloadKilled(p)  BY <1>9, <1>1, <1>2, <1>3, IdleType DEF ReloadKilled
  <1>10. CASE Publish(p) \/ CallControl(p) \/ Install(p) \/ InstallGone(p) \/ ReloadFails(p) \/ Cleanup(p)
    BY <1>10, <1>1, <1>4 DEF Publish, CallControl, Install, InstallGone, ReloadFails, Cleanup
  <1> QED BY <1>5, <1>6, <1>7, <1>8, <1>9, <1>10 DEF Reload

(* The first one: nothing has changed yet. *)
LEMMA FirstStep ==
  ASSUME TypeOK, NEW p \in Shell, ReloadRuntime(p)
  PROVE  /\ \A q \in Shell \ {p} : shell'[q].alone = FALSE /\ shell'[q].pc = shell[q].pc
         /\ manager'.pc = manager.pc /\ manager'.alone = FALSE
         /\ shell'[p].alone => AloneAt(p)'
  <1>0. shell \in [Shell -> ShellState] /\ manager \in ManagerState  BY DEF TypeOK
  <1> DEFINE d == Disturbed(shell)
             before == <<IF Up THEN daemon.policy ELSE Absent, file>>
             new == [IdleShell EXCEPT !.pc = "copy", !.alone = Quiet(p), !.before = before]
  <1>1. d \in [Shell -> ShellState] /\ \A q \in Shell : d[q].pc = shell[q].pc /\ d[q].alone = FALSE
    BY <1>0, DisturbedType
  <1>2. shell' = [d EXCEPT ![p] = new]  BY DEF ReloadRuntime
  <1>3. new.pc = "copy" /\ new.got = Absent /\ new.before = before /\ new.alone = Quiet(p)
    <2> HIDE DEF before
    <2> QED BY DEF IdleShell
  <1> HIDE DEF d, new
  <1>4. shell'[p] = new /\ \A q \in Shell \ {p} : shell'[q] = d[q]  BY <1>1, <1>2
  <1>5. manager'.pc = manager.pc /\ manager'.alone = FALSE
    BY <1>0, DisturbedManagerType DEF ReloadRuntime, DisturbedManager, ManagerState
  <1>6. ASSUME shell'[p].alone PROVE AloneAt(p)'
    <2>1. Quiet(p)'  BY <1>1, <1>3, <1>4, <1>5, <1>6, StillQuiet
    <2>2. shell'[p].pc = "copy" /\ shell'[p].got = Absent /\ shell'[p].before = before
      BY <1>3, <1>4
    <2>3. UNCHANGED <<file, daemon>>  BY DEF ReloadRuntime, files
    <2> QED BY <2>1, <2>2, <2>3 DEF AloneAt, Up
  <1> QED BY <1>1, <1>4, <1>5, <1>6

(* The service changes under the shells. *)
LEMMA ShellsDisturbed ==
  ASSUME TypeOK, DaemonGone \/ shell' = Disturbed(shell)
  PROVE  \A q \in Shell : /\ shell'[q].alone = FALSE
                          /\ shell[q].pc = "idle" => shell'[q].pc = "idle"
  <1>1. shell \in [Shell -> ShellState]  BY DEF TypeOK
  <1> QED BY <1>1, GoneType, DisturbedType

LEMMA UndisturbedStep == TypeOK /\ Vetted /\ Undisturbed /\ [Next]_vars => Undisturbed'
  <1> SUFFICES ASSUME TypeOK, Vetted, Undisturbed, [Next]_vars,
                      NEW p \in Shell, shell'[p].alone, Busy(p)'
               PROVE  AloneAt(p)'
    BY DEF Undisturbed
  <1>1. CASE DaemonGone \/ shell' = Disturbed(shell)
    BY <1>1, ShellsDisturbed
  <1>2. CASE UNCHANGED <<shell, file, next, daemon>> /\ manager'.pc = manager.pc
    BY <1>2 DEF Undisturbed, AloneAt, Quiet, Busy, Up
  <1>3. CASE ActivateUndo \/ ActivateReturns
    <2>1. UNCHANGED shell /\ manager.pc # "idle"  BY <1>3 DEF ActivateUndo, ActivateReturns
    <2>2. shell[p].alone /\ Busy(p)  BY <2>1 DEF Busy
    <2>3. Quiet(p)  BY <2>2 DEF Undisturbed, AloneAt
    <2> QED BY <2>1, <2>3 DEF Quiet
  <1>4. ASSUME NEW q \in Shell, Reload(q), q # p PROVE AloneAt(p)'
    <2>1. CASE ReloadRuntime(q)  BY <1>4, <2>1, FirstStep
    <2>2. CASE ~ReloadRuntime(q)
      <3>1. Busy(q) /\ shell'[p] = shell[p]  BY <1>4, <2>2, OneShell
      <3> QED BY <1>4, <3>1 DEF Undisturbed, AloneAt, Quiet, Busy
    <2> QED BY <2>1, <2>2
  <1>5. CASE Reload(p)
    <2>1. CASE ReloadRuntime(p)  BY <2>1, FirstStep
    <2>2. CASE ~ReloadRuntime(p)
      <3>1. Busy(p) /\ shell[p].alone  BY <1>5, <2>2, OneShell
      <3>2. AloneAt(p)  BY <3>1 DEF Undisturbed
      <3> QED BY <1>5, <2>2, <3>1, <3>2, OwnStep
    <2> QED BY <2>1, <2>2
  <1>6. CASE UciEdit \/ RecordModified \/ Persist \/ PersistFails \/ UNCHANGED vars
    <2>1. manager'.pc = manager.pc
      BY <1>6, DisturbedManagerType DEF UciEdit, RecordModified, Persist, PersistFails, vars, TypeOK
    <2> QED BY <1>2, <1>6, <2>1 DEF UciEdit, RecordModified, Persist, PersistFails, vars, files
  <1>7. CASE Service
    BY <1>1, <1>7 DEF Service, StopService, StartEnabled, StartDisabled
  <1>8. CASE DaemonStart \/ DaemonCrash
    BY <1>1, <1>8 DEF DaemonStart, DaemonCrash
  <1>9. CASE Manage
    BY <1>1, <1>3, <1>9 DEF Manage, Activate, ActivateStop, ActivateStart, ActivateStartAgain,
       StopService, StartEnabled, StartDisabled, StartFails
  <1> QED BY <1>4, <1>5, <1>6, <1>7, <1>8, <1>9 DEF Next

-----------------------------------------------------------------------------
(* An undisturbed activation. *)
LEMMA ManagerFields ==
  ASSUME TypeOK, NEW pc, manager' = [manager EXCEPT !.pc = pc]
  PROVE  /\ manager'.pc = pc /\ manager'.old = manager.old
         /\ manager'.before = manager.before /\ manager'.alone = manager.alone
  BY DEF TypeOK, ManagerState

LEMMA StillIdle ==
  ASSUME TypeOK, \A p \in Shell : ~Busy(p), DaemonGone \/ shell' = Disturbed(shell)
  PROVE  \A p \in Shell : ~Busy(p)'
  BY ShellsDisturbed DEF Busy

(* The service is stopped and started for it: what the file then holds. *)
LEMMA StopStarted ==
  ASSUME TypeOK, \A p \in Shell : ~Busy(p), StopService
  PROVE  UNCHANGED uci /\ ~Up' /\ ~registered' /\ \A p \in Shell : ~Busy(p)'
  <1>1. DaemonGone  BY DEF StopService
  <1>2. \A p \in Shell : ~Busy(p)'  BY <1>1, StillIdle
  <1> QED BY <1>1, <1>2 DEF StopService, DaemonGone, Up

LEMMA ManagedStep == TypeOK /\ Managed /\ [Next]_vars => Managed'
  <1> SUFFICES ASSUME TypeOK, Managed, [Next]_vars, manager'.alone, manager'.pc # "idle"
               PROVE  Managed'
    BY DEF Managed
  <1> USE DEF files
  <1>0. manager \in ManagerState /\ uci \in Text  BY DEF TypeOK
  <1>1. CASE UciEdit \/ Service
    BY <1>0, <1>1, DisturbedManagerType DEF UciEdit, Service
  <1>2. ASSUME NEW w \in Profile, Activate(w) PROVE Managed'
    <2>1. /\ manager'.pc = "stop" /\ manager'.old = Active(uci) /\ manager'.before = uci
          /\ manager'.alone = (\A p \in Shell : ~Busy(p))
      BY <1>2 DEF Activate
    <2>2. \A p \in Shell : ~Busy(p)'  BY <1>2, <2>1, StillIdle DEF Activate
    <2>3. SetActive(uci', manager'.old) = manager'.before
      BY <1>0, <1>2, <2>1, SetActiveBack DEF Activate
    <2> QED BY <1>0, <2>1, <2>2, <2>3 DEF Managed
  <1>3. CASE ActivateStop
    <2>1. PICK pc \in {"start", "start again", "undo", "failed"} :
            /\ manager' = [manager EXCEPT !.pc = pc]
            /\ pc \in {"start again", "failed"} => manager.pc = "stop again"
      BY <1>3 DEF ActivateStop
    <2>2. StopService /\ manager.pc # "idle"  BY <1>3 DEF ActivateStop
    <2>3. /\ manager'.pc = pc /\ manager'.old = manager.old
          /\ manager'.before = manager.before /\ manager'.alone = manager.alone
      BY <2>1, ManagerFields
    <2>4. UNCHANGED uci /\ ~Up' /\ ~registered' /\ \A p \in Shell : ~Busy(p)'
      BY <2>2, <2>3, StopStarted DEF Managed
    <2> QED BY <2>1, <2>2, <2>3, <2>4 DEF Managed
  <1>4. CASE ActivateStart
    <2>1. /\ manager.pc = "start" /\ StopService /\ manager' = [manager EXCEPT !.pc = "undo"]
      BY <1>4, IdleType DEF ActivateStart, StartFails
    <2>2. /\ manager'.pc = "undo" /\ manager'.old = manager.old
          /\ manager'.before = manager.before /\ manager'.alone = manager.alone
      BY <2>1, ManagerFields
    <2>3. UNCHANGED uci /\ \A p \in Shell : ~Busy(p)'
      BY <2>1, <2>2, StopStarted DEF Managed
    <2> QED BY <2>1, <2>2, <2>3 DEF Managed
  <1>5. CASE ActivateUndo
    <2>1. /\ manager.pc = "undo" /\ manager' = [manager EXCEPT !.pc = "stop again"]
          /\ uci' = SetActive(uci, manager.old) /\ UNCHANGED <<shell, registered, daemon>>
      BY <1>5 DEF ActivateUndo
    <2>2. /\ manager'.pc = "stop again" /\ manager'.old = manager.old
          /\ manager'.before = manager.before /\ manager'.alone = manager.alone
      BY <2>1, ManagerFields
    <2>3. uci' = manager.before /\ manager.before \in Text
      BY <2>1, <2>2 DEF Managed
    <2>4. SetActive(uci', manager.old) = uci'
      BY <2>1, <2>3, SetActiveTwice, <1>0
    <2> QED BY <2>1, <2>2, <2>3, <2>4 DEF Managed, Busy
  <1>6. CASE ActivateStartAgain
    <2>1. manager.pc = "start again" /\ manager' = [manager EXCEPT !.pc = "failed"]
      BY <1>6 DEF ActivateStartAgain
    <2>2. /\ manager'.pc = "failed" /\ manager'.old = manager.old
          /\ manager'.before = manager.before /\ manager'.alone = manager.alone
      BY <2>1, ManagerFields
    <2>3. /\ ~Up /\ uci = manager.before /\ \A p \in Shell : ~Busy(p)
      BY <2>1, <2>2 DEF Managed
    <2>4. CASE StopService
      <3>1. UNCHANGED uci /\ ~Up' /\ ~registered' /\ \A p \in Shell : ~Busy(p)'
        BY <2>3, <2>4, StopStarted
      <3> QED BY <2>1, <2>2, <3>1 DEF Managed
    <2>5. CASE StartEnabled
      <3>1. UNCHANGED uci /\ file' = uci /\ shell' = Disturbed(shell) /\ ~Up'
        BY <2>3, <2>5 DEF StartEnabled, Up
      <3>2. \A p \in Shell : ~Busy(p)'  BY <2>3, <3>1, StillIdle
      <3> QED BY <2>1, <2>2, <2>3, <3>1, <3>2 DEF Managed
    <2> QED BY <1>6, <2>4, <2>5 DEF ActivateStartAgain, StartDisabled, StartFails
  <1>7. CASE ActivateReturns
    BY <1>7, IdleType DEF ActivateReturns
  <1>8. CASE DaemonStart
    <2>1. /\ registered /\ ~Up /\ daemon' = [start |-> Load(file), policy |-> Load(file)]
          /\ UNCHANGED <<uci, file, registered, manager>> /\ shell' = Disturbed(shell)
      BY <1>8 DEF DaemonStart
    <2>2. \A p \in Shell : ~Busy(p)'  BY <2>1, StillIdle DEF Managed
    <2>3. daemon'.policy = Load(file)  BY <2>1
    <2> QED BY <2>1, <2>2, <2>3 DEF Managed
  <1>9. CASE DaemonCrash
    <2>1. DaemonGone /\ UNCHANGED <<uci, file, registered, manager>>  BY <1>9 DEF DaemonCrash
    <2>2. \A p \in Shell : ~Busy(p)'  BY <2>1, StillIdle DEF Managed
    <2> QED BY <2>1, <2>2 DEF Managed, DaemonGone, Up
  <1>10. ASSUME NEW p \in Shell, Reload(p) PROVE Managed'
    <2>1. CASE ReloadRuntime(p)  BY <2>1, FirstStep
    <2>2. CASE ~ReloadRuntime(p)
      <3>1. Busy(p) /\ UNCHANGED manager  BY <1>10, <2>2, OneShell
      <3> QED BY <3>1 DEF Managed
    <2> QED BY <2>1, <2>2
  <1>11. CASE RecordModified \/ Persist \/ PersistFails \/ UNCHANGED vars
    <2>1. UNCHANGED <<uci, file, daemon, registered, shell, manager>>
      BY <1>11 DEF RecordModified, Persist, PersistFails, vars
    <2> QED BY <2>1 DEF Managed, Busy, Up
  <1> QED BY <1>1, <1>2, <1>3, <1>4, <1>5, <1>6, <1>7, <1>8, <1>9, <1>10, <1>11 DEF Next, Manage

-----------------------------------------------------------------------------
IInv == TypeOK /\ Vetted /\ History /\ Undisturbed /\ Managed

LEMMA InitInv == Init => IInv
  <1> SUFFICES ASSUME Init PROVE IInv  OBVIOUS
  <1>1. TypeOK  BY InitType
  <1>2. \A p \in Shell : shell[p] = IdleShell  BY DEF Init
  <1>3. Vetted  BY <1>2, IdleType DEF Init, Vetted, PolicyVetted, Up
  <1>4. Undisturbed  BY <1>2, IdleType DEF Undisturbed
  <1>5. Managed  BY IdleType DEF Init, Managed
  <1>6. History
    <2>1. PICK d \in {Never, [k \in Key |-> IF k \in Ip THEN 1 ELSE 0]}, form \in {"v2", "legacy"} :
            activity = [mem |-> Never, disk |-> d, form |-> form, busy |-> FALSE, tick |-> 1]
      BY DEF Init
    <2>2. \A k \in Key : d[k] <= 1 /\ Never[k] <= 1 /\ (k \in Mac => d[k] = 0)
      BY <2>1, NeverType, RuntimeAssumption
    <2>3. Mac \subseteq Key /\ ~Up  BY DEF Key, Init, Up
    <2> QED BY <2>1, <2>2, <2>3 DEF History
  <1> QED BY <1>1, <1>3, <1>4, <1>5, <1>6 DEF IInv

LEMMA StepInv == IInv /\ [Next]_vars => IInv'
  BY TypeStep, VettedStep, HistoryStep, UndisturbedStep, ManagedStep DEF IInv

LEMMA Inductive == Spec => []IInv
  BY InitInv, StepInv, PTL DEF Spec

(* No interleaving of reloads, restarts, activations and crashes takes the *)
(* daemon, its files and its memory out of their types; in particular the  *)
(* control server never works on a request after the process has ended.    *)
THEOREM TypeCorrect == Spec => []TypeOK
  <1>1. IInv => TypeOK  BY DEF IInv
  <1> QED BY <1>1, Inductive, PTL

(* main's reload closure: the policy a daemon rewrites with is complete,   *)
(* names one profile, and agrees with what the process was started with,   *)
(* however many requests are between their check and their store.          *)
THEOREM PolicyAlwaysVetted == Spec => []PolicyVetted
  <1>1. IInv => PolicyVetted  BY DEF IInv, Vetted
  <1> QED BY <1>1, Inductive, PTL

(* reload_runtime: an undisturbed reload that succeeds has changed both    *)
(* the daemon and the file to what it read.                                *)
THEOREM ReloadEffective == Spec => []ReloadTakesEffect
  <1>1. IInv => ReloadTakesEffect
    BY DEF IInv, Undisturbed, AloneAt, Busy, ReloadTakesEffect
  <1> QED BY <1>1, Inductive, PTL

(* reload_runtime: an undisturbed reload that fails has not touched the    *)
(* file, and the policy only if the failure came after the daemon's OK.    *)
THEOREM FailedReloadHarmless == Spec => []FailedReloadChangesNothing
  <1>1. IInv => FailedReloadChangesNothing
    BY DEF IInv, Undisturbed, AloneAt, Busy, FailedReloadChangesNothing
  <1> QED BY <1>1, Inductive, PTL

(* locspoof-profile activate: an undisturbed activation that fails leaves  *)
(* the configuration it found, and any daemon that came up has it.         *)
THEOREM ActivationUndone == Spec => []FailedActivationUndone
  <1>1. IInv => FailedActivationUndone  BY DEF IInv, Managed, FailedActivationUndone
  <1> QED BY <1>1, Inductive, PTL

(* RecordResponseModified and loadActivity: whatever crashes or fails to   *)
(* be written, the file forgets no device and no later rewrite of it.      *)
THEOREM HistoryKept == Spec => HistoryNeverShrinks
  <1>1. IInv /\ [Next]_vars =>
          [InFile(activity.disk) <= MaxEntries =>
             \A k \in Key : activity'.disk[k] >= activity.disk[k]]_vars
    BY KeptStep DEF IInv
  <1> QED BY <1>1, Inductive, PTL DEF Spec, HistoryNeverShrinks

LEMMA FlagAgain ==
  ASSUME NEW r \in [set : BOOLEAN, active : BOOLEAN], NEW old, NEW new
  PROVE  [[r EXCEPT !.active = old] EXCEPT !.active = new] = [r EXCEPT !.active = new]
  OBVIOUS

(* Setting the flags again leaves what they were set in. *)
LEMMA FlagsOnly ==
  ASSUME NEW text \in Text, NEW on \in SUBSET Profile
  PROVE  SetActive(SetActive(text, on), {}) = SetActive(text, {})
  <1> DEFINE other == SetActive(text, on)
  <1>1. /\ text.profile \in [Profile -> [set : BOOLEAN, active : BOOLEAN]]
        /\ other = [text EXCEPT !.profile =
                      [p \in Profile |-> [text.profile[p] EXCEPT !.active = (p \in on)]]]
    BY DEF Text, SetActive
  <1>2. /\ other.profile = [p \in Profile |-> [text.profile[p] EXCEPT !.active = (p \in on)]]
        /\ \A new : [other EXCEPT !.profile = new] = [text EXCEPT !.profile = new]
    BY <1>1 DEF Text
  <1> HIDE DEF other
  <1>3. \A p \in Profile : [other.profile[p] EXCEPT !.active = (p \in {})]
                           = [text.profile[p] EXCEPT !.active = (p \in {})]
    <2> SUFFICES ASSUME NEW p \in Profile
                 PROVE  [other.profile[p] EXCEPT !.active = (p \in {})]
                        = [text.profile[p] EXCEPT !.active = (p \in {})]
      OBVIOUS
    <2>1. text.profile[p] \in [set : BOOLEAN, active : BOOLEAN]  BY <1>1
    <2>2. other.profile[p] = [text.profile[p] EXCEPT !.active = (p \in on)]  BY <1>2, Zenon
    <2> QED BY <2>1, <2>2, FlagAgain, Zenon
  <1>4. [p \in Profile |-> [other.profile[p] EXCEPT !.active = (p \in {})]]
        = [p \in Profile |-> [text.profile[p] EXCEPT !.active = (p \in {})]]
    BY <1>3
  <1>5. SetActive(other, {}) = SetActive(text, {})
    BY <1>2, <1>4, Zenon DEF SetActive
  <1> QED BY <1>5 DEF other

LEMMA EditsKeptStep ==
  ASSUME TypeOK, Next, manager'.pc # manager.pc
  PROVE  SetActive(uci', {}) = SetActive(uci, {})
  <1>1. CASE Manage
    <2>1. CASE \E w \in Profile : Activate(w)
      BY <2>1, FlagsOnly DEF Activate, TypeOK
    <2>2. CASE ActivateUndo
      <3>1. manager.old \in SUBSET Profile  BY DEF TypeOK, ManagerState
      <3> QED BY <2>2, <3>1, FlagsOnly DEF ActivateUndo, TypeOK
    <2>3. CASE ActivateStop \/ ActivateStart \/ ActivateStartAgain \/ ActivateReturns
      <3>1. uci' = uci
        BY <2>3 DEF ActivateStop, ActivateStart, ActivateStartAgain, ActivateReturns, StopService,
           StartEnabled, StartFails, StartDisabled, files
      <3> QED BY <3>1
    <2> QED BY <1>1, <2>1, <2>2, <2>3 DEF Manage
  <1>2. CASE UciEdit \/ Service \/ \E p \in Shell : Reload(p)
    <2>1. manager' = manager \/ manager' = [manager EXCEPT !.alone = FALSE]
      BY <1>2 DEF UciEdit, Service, Reload, ReloadRuntime, CopyConfig, Publish, CallControl, HandleLoad,
         HandleStore, Install, InstallGone, ReloadFails, Cleanup, ReloadReturns, ReloadKilled,
         DisturbedManager
    <2>2. manager'.pc = manager.pc  BY <2>1 DEF TypeOK, ManagerState
    <2> QED BY <2>2
  <1>3. CASE DaemonStart \/ DaemonCrash \/ RecordModified \/ Persist \/ PersistFails
    BY <1>3 DEF DaemonStart, DaemonCrash, RecordModified, Persist, PersistFails
  <1> QED BY <1>1, <1>2, <1>3 DEF Next

(* locspoof-profile activate: an edit of the configuration that is         *)
(* committed while an activation runs outlives it and its rollback.        *)
THEOREM EditsKept == Spec => ActivationKeepsEdits
  <1>1. TypeOK /\ [Next]_vars =>
          [manager'.pc # manager.pc => SetActive(uci', {}) = SetActive(uci, {})]_vars
    BY EditsKeptStep
  <1> QED BY <1>1, TypeCorrect, PTL DEF Spec, ActivationKeepsEdits

=============================================================================
