--------------------------- MODULE CAStoreProofs ---------------------------
(***************************************************************************)
(* locspoof-ca for any set of host names and any number of runs and        *)
(* faults: no file is ever torn, no run replaces a CA it found, and a run  *)
(* that nothing disturbs leaves a usable store unless the CA is damaged.   *)
(***************************************************************************)
EXTENDS CAStore, TLAPS

(* Whatever is renamed was synced before, so nothing unsynced is visible. *)
Clean == /\ unsynced = {}
         /\ \A f \in File : disk[f].state # "torn" /\ durable[f].state # "torn"
         /\ tmp.content.state # "torn"

(* A run that is about to put a CA file in place found none. *)
Before(f) == tmp.file = f /\ tmp.stage \in {"create", "filled", "synced"}
Fresh == Undisturbed =>
           /\ Before("ca-cert") => ~Exists("ca-cert") /\ ~Exists("ca-key")
           /\ (tmp.file = "ca-cert" /\ tmp.stage = "renamed") \/ pc = "caKey" \/ Before("ca-key")
                => ~Exists("ca-key")

IInv == TypeOK /\ Clean /\ Fresh /\ faults <= before

-----------------------------------------------------------------------------
LEMMA Bounds == MaxRuns \in Nat /\ MaxFaults \in Nat
  BY BoundsAssumption

LEMMA FileNames ==
  /\ {"ca-cert", "ca-key", "signer-cert", "signer-key", "profile"} \subseteq File
  /\ Host \subseteq File
  /\ Host \cap CAFile = {}
  BY HostAssumption DEF File, CAFile, Signer

LEMMA GoodType ==
  ASSUME NEW i \in Id, NEW j \in Id, NEW p \in BOOLEAN
  PROVE  Good(i, j, p) \in Content /\ Good(i, j, p).state = "good"
  BY DEF Good, Content

LEMMA AbsentType == Absent \in Content /\ Absent.state = "absent"
  BY Bounds DEF Absent, Content, Id

LEMMA NoTmpType ==
  /\ NoTmp \in [file : File, content : Content,
                stage : {"none", "create", "filled", "synced", "renamed"}]
  /\ NoTmp.stage = "none" /\ NoTmp.content.state # "torn"
  BY AbsentType, FileNames DEF NoTmp

(* A change of mode keeps the rest of a file. *)
LEMMA ModeType ==
  ASSUME NEW c \in Content, NEW p \in BOOLEAN
  PROVE  LET d == [c EXCEPT !.private = p]
         IN  d \in Content /\ d.state = c.state /\ d.id = c.id /\ d.issuer = c.issuer
  BY DEF Content

LEMMA StateType ==
  ASSUME NEW c \in Content, NEW s \in {"absent", "good", "expired", "broken", "torn"}
  PROVE  LET d == [c EXCEPT !.state = s] IN d \in Content /\ d.state = s
  BY DEF Content

LEMMA InitIInv == Init => IInv
  <1> SUFFICES ASSUME Init PROVE IInv  OBVIOUS
  <1>1. TypeOK
    <2>1. disk \in [File -> Content] /\ durable \in [File -> Content]
      BY AbsentType DEF Init
    <2> QED BY <2>1, NoTmpType, Bounds DEF Init, TypeOK, Id
  <1>2. Clean  BY AbsentType, NoTmpType DEF Init, Clean
  <1>3. Fresh  BY NoTmpType DEF Init, Fresh, Before
  <1> QED BY <1>1, <1>2, <1>3, Bounds DEF IInv, Init

-----------------------------------------------------------------------------
(* What changing the modes of some files does. *)
LEMMA ChmodKeeps ==
  ASSUME IInv, NEW files, Chmod(files)
  PROVE  /\ disk' \in [File -> Content]
         /\ \A f \in File : /\ disk'[f].state = disk[f].state
                            /\ disk'[f].id = disk[f].id
                            /\ disk'[f].issuer = disk[f].issuer
         /\ UNCHANGED <<durable, unsynced>>
  <1>1. disk \in [File -> Content]  BY DEF IInv, TypeOK
  <1>2. \A f \in File : Private(f) \in BOOLEAN  BY DEF Private
  <1>3. \A f \in File : LET d == [disk[f] EXCEPT !.private = Private(f)]
                        IN  d \in Content /\ d.state = disk[f].state
                            /\ d.id = disk[f].id /\ d.issuer = disk[f].issuer
    BY <1>1, <1>2, ModeType
  <1>4. \A f \in File : disk'[f] = IF f \in files THEN [disk[f] EXCEPT !.private = Private(f)]
                                                  ELSE disk[f]
    BY Zenon DEF Chmod
  <1>5. \A f \in File : disk'[f] \in Content
    BY <1>1, <1>3, <1>4
  <1>6. disk' \in [File -> Content]
    BY <1>5 DEF Chmod
  <1> QED BY <1>1, <1>3, <1>4, <1>6 DEF Chmod

(* The steps that leave the store alone, or change modes only. *)
Quiet == /\ disk' \in [File -> Content]
         /\ \A f \in File : disk'[f].state = disk[f].state
         /\ UNCHANGED <<durable, unsynced>>

(* A step that ends the run, or goes on to another place than the writes. *)
LEMMA Ends ==
  ASSUME IInv, NEW how \in {"ok", "failed", "crashed"}, End(how), Quiet,
         UNCHANGED <<ca, hosts, run>>, NoFault \/ Fault
  PROVE  IInv'
  <1>1. TypeOK'
    BY NoTmpType, Bounds DEF IInv, TypeOK, End, Quiet, NoFault, Fault
  <1>2. Clean'
    BY NoTmpType DEF IInv, Clean, End, Quiet
  <1>3. Fresh'
    BY NoTmpType DEF Fresh, Before, End
  <1>4. (faults <= before)'
    BY DEF IInv, TypeOK, NoFault, Fault
  <1> QED BY <1>1, <1>2, <1>3, <1>4 DEF IInv

(* A step to another place than a write, taken outside one. *)
LEMMA Moves ==
  ASSUME IInv, pc # "write", Quiet, UNCHANGED run, NoFault,
         NEW next \in {"chmodKey", "signer", "sign", "leaves", "chmod"}, Goto(next),
         ca' \in [id : Id, parsed : BOOLEAN], hosts' \subseteq Host, UNCHANGED result
  PROVE  IInv'
  <1>0. tmp.stage = "none"  BY DEF IInv, TypeOK
  <1>1. TypeOK'
    BY <1>0 DEF IInv, TypeOK, Goto, Quiet, NoFault
  <1>2. Clean'
    BY DEF IInv, Clean, Goto, Quiet
  <1>3. Fresh'
    BY <1>0 DEF Fresh, Before, Goto
  <1>4. (faults <= before)'
    BY DEF IInv, NoFault
  <1> QED BY <1>1, <1>2, <1>3, <1>4 DEF IInv

(* A write is begun: of a CA file only if there is none. *)
LEMMA Writes ==
  ASSUME IInv, pc # "write", UNCHANGED <<store, run, result>>, NoFault,
         NEW f \in File, NEW content \in Content, content.state = "good",
         AtomicWrite(f, content),
         f = "ca-cert" => ~Exists("ca-cert") /\ ~Exists("ca-key"),
         f = "ca-key" => pc = "caKey",
         ca' \in [id : Id, parsed : BOOLEAN], hosts' \subseteq Host
  PROVE  IInv'
  <1>1. TypeOK'
    BY DEF IInv, TypeOK, AtomicWrite, NoFault, store
  <1>2. Clean'
    BY DEF IInv, Clean, AtomicWrite, store
  <1>3. Fresh'
    BY DEF IInv, Fresh, Undisturbed, Before, Exists, AtomicWrite, NoFault, store
  <1>4. (faults <= before)'
    BY DEF IInv, NoFault
  <1> QED BY <1>1, <1>2, <1>3, <1>4 DEF IInv

LEMMA QuietStore == ASSUME IInv, UNCHANGED store PROVE Quiet
  BY DEF IInv, TypeOK, Quiet, store

-----------------------------------------------------------------------------
LEMMA StartInv == IInv /\ Start => IInv'
  <1> SUFFICES ASSUME IInv, Start PROVE IInv'  OBVIOUS
  <1>0. tmp.stage = "none" /\ UNCHANGED store  BY DEF IInv, TypeOK, Start
  <1>1. TypeOK'
    BY <1>0, Bounds DEF IInv, TypeOK, Start, Goto, store, Id
  <1>2. Clean'
    BY DEF IInv, Clean, Start, Goto, store
  <1>3. Fresh'
    BY <1>0 DEF Fresh, Before, Start, Goto
  <1>4. (faults <= before)'
    BY Bounds DEF IInv, TypeOK, Start
  <1> QED BY <1>1, <1>2, <1>3, <1>4 DEF IInv

LEMMA LoadCAInv == IInv /\ LoadCA => IInv'
  <1> SUFFICES ASSUME IInv, LoadCA PROVE IInv'  OBVIOUS
  <1>1. disk["ca-cert"].id \in Id
    BY FileNames DEF IInv, TypeOK, Content
  <1>2. ca' \in [id : Id, parsed : BOOLEAN]
    BY <1>1 DEF LoadCA
  <1> QED BY <1>2, QuietStore, Moves DEF LoadCA, IInv, TypeOK

LEMMA CreateCAInv == IInv /\ CreateCA => IInv'
  <1> SUFFICES ASSUME IInv, CreateCA PROVE IInv'  OBVIOUS
  <1>1. run \in Id  BY DEF IInv, TypeOK
  <1>2. Good(run, run, FALSE) \in Content /\ Good(run, run, FALSE).state = "good"
    BY <1>1, GoodType
  <1>3. ca' \in [id : Id, parsed : BOOLEAN]
    BY <1>1 DEF CreateCA
  <1>4. ~Exists("ca-cert") /\ ~Exists("ca-key")
    BY DEF CreateCA, Damaged, CAFile
  <1>5. hosts' \subseteq Host  BY DEF CreateCA, IInv, TypeOK
  <1> QED BY <1>2, <1>3, <1>4, <1>5, Writes, FileNames DEF CreateCA

LEMMA RefuseCAInv == IInv /\ RefuseCA => IInv'
  BY QuietStore, Ends DEF RefuseCA, Fail

LEMMA WriteCAKeyInv == IInv /\ WriteCAKey => IInv'
  <1> SUFFICES ASSUME IInv, WriteCAKey PROVE IInv'  OBVIOUS
  <1>1. ca.id \in Id /\ 0 \in Id  BY Bounds DEF IInv, TypeOK, Id
  <1>2. Good(ca.id, 0, TRUE) \in Content /\ Good(ca.id, 0, TRUE).state = "good"
    BY <1>1, GoodType
  <1>3. ca' \in [id : Id, parsed : BOOLEAN] /\ hosts' \subseteq Host
    BY DEF WriteCAKey, IInv, TypeOK
  <1> QED BY <1>2, <1>3, Writes, FileNames DEF WriteCAKey

LEMMA ChmodKeyInv == IInv /\ ChmodKey => IInv'
  <1> SUFFICES ASSUME IInv, ChmodKey PROVE IInv'  OBVIOUS
  <1>1. CASE Exists("ca-key")
    <2>1. Chmod({"ca-key"}) /\ Goto("signer") /\ UNCHANGED <<ca, hosts, run, result>>
      BY <1>1 DEF ChmodKey
    <2>2. Quiet  BY <2>1, ChmodKeeps DEF Quiet
    <2>3. ca' \in [id : Id, parsed : BOOLEAN] /\ hosts' \subseteq Host
      BY <2>1 DEF IInv, TypeOK
    <2> QED BY <2>1, <2>2, <2>3, Moves DEF ChmodKey
  <1>2. CASE ~Exists("ca-key")
    BY <1>2, QuietStore, Ends DEF ChmodKey, Fail
  <1> QED BY <1>1, <1>2

LEMMA EnsureProfileSignerInv == IInv /\ EnsureProfileSigner => IInv'
  <1> SUFFICES ASSUME IInv, EnsureProfileSigner PROVE IInv'  OBVIOUS
  <1>1. ca' \in [id : Id, parsed : BOOLEAN] /\ hosts' \subseteq Host
    BY DEF EnsureProfileSigner, IInv, TypeOK
  <1>2. CASE ProfileSignerValid
    BY <1>1, <1>2, QuietStore, Moves DEF EnsureProfileSigner
  <1>3. CASE ~ProfileSignerValid
    <2>1. run \in Id /\ ca.id \in Id  BY DEF IInv, TypeOK
    <2>2. Good(run, ca.id, FALSE) \in Content /\ Good(run, ca.id, FALSE).state = "good"
      BY <2>1, GoodType
    <2> QED BY <1>1, <1>3, <2>2, Writes, FileNames DEF EnsureProfileSigner
  <1> QED BY <1>2, <1>3

LEMMA WriteSignerKeyInv == IInv /\ WriteSignerKey => IInv'
  <1> SUFFICES ASSUME IInv, WriteSignerKey PROVE IInv'  OBVIOUS
  <1>1. run \in Id /\ 0 \in Id  BY Bounds DEF IInv, TypeOK, Id
  <1>2. Good(run, 0, TRUE) \in Content /\ Good(run, 0, TRUE).state = "good"
    BY <1>1, GoodType
  <1>3. ca' \in [id : Id, parsed : BOOLEAN] /\ hosts' \subseteq Host
    BY DEF WriteSignerKey, IInv, TypeOK
  <1> QED BY <1>2, <1>3, Writes, FileNames DEF WriteSignerKey

LEMMA SignProfileInv == IInv /\ SignProfile => IInv'
  <1> SUFFICES ASSUME IInv, SignProfile PROVE IInv'  OBVIOUS
  <1>1. Embedded \in Id /\ 0 \in Id  BY Bounds DEF IInv, TypeOK, Id, Embedded
  <1>2. Good(Embedded, 0, FALSE) \in Content /\ Good(Embedded, 0, FALSE).state = "good"
    BY <1>1, GoodType
  <1>3. ca' \in [id : Id, parsed : BOOLEAN] /\ hosts' \subseteq Host
    BY DEF SignProfile, IInv, TypeOK
  <1> QED BY <1>2, <1>3, Writes, FileNames DEF SignProfile

LEMMA SignFailsInv == IInv /\ SignFails => IInv'
  BY QuietStore, Ends DEF SignFails, Fail

LEMMA EnsureLeafInv ==
  ASSUME IInv, NEW h \in Host, EnsureLeaf(h)
  PROVE  IInv'
  <1>1. ca' \in [id : Id, parsed : BOOLEAN] /\ hosts' \subseteq Host
    BY DEF EnsureLeaf, IInv, TypeOK
  <1>2. CASE LeafValid(h)
    <2>1. Chmod({h}) /\ Goto("leaves")  BY <1>2 DEF EnsureLeaf
    <2>2. Quiet  BY <2>1, ChmodKeeps DEF Quiet
    <2> QED BY <1>1, <2>1, <2>2, Moves DEF EnsureLeaf
  <1>3. CASE ~LeafValid(h)
    <2>1. run \in Id /\ ca.id \in Id  BY DEF IInv, TypeOK
    <2>2. Good(run, ca.id, FALSE) \in Content /\ Good(run, ca.id, FALSE).state = "good"
      BY <2>1, GoodType
    <2>3. h \in File /\ h # "ca-cert" /\ h # "ca-key"  BY FileNames DEF CAFile
    <2> QED BY <1>1, <1>3, <2>2, <2>3, Writes DEF EnsureLeaf
  <1> QED BY <1>2, <1>3

LEMMA LeavesDoneInv == IInv /\ LeavesDone => IInv'
  BY QuietStore, Moves DEF LeavesDone, IInv, TypeOK

LEMMA FinishInv == IInv /\ Finish => IInv'
  <1> SUFFICES ASSUME IInv, Finish PROVE IInv'  OBVIOUS
  <1> DEFINE files == {"ca-cert", "profile"} \cup Signer
  <1>1. CASE \A f \in files : Exists(f)
    <2>1. Chmod(files) /\ End("ok") /\ UNCHANGED <<ca, hosts, run>>
      BY <1>1 DEF Finish
    <2>2. Quiet  BY <2>1, ChmodKeeps DEF Quiet
    <2> QED BY <2>1, <2>2, Ends DEF Finish
  <1>2. CASE ~\A f \in files : Exists(f)
    <2>1. Fail  BY <1>2 DEF Finish
    <2> QED BY <2>1, QuietStore, Ends DEF Finish, Fail
  <1> QED BY <1>1, <1>2

-----------------------------------------------------------------------------
(* The steps of atomicWrite. *)
LEMMA FillInv == IInv /\ Fill => IInv'
  <1> SUFFICES ASSUME IInv, Fill PROVE IInv'  OBVIOUS
  <1>1. TypeOK'  BY DEF IInv, TypeOK, Fill, NoFault, store
  <1>2. Clean'  BY DEF IInv, TypeOK, Clean, Fill, store
  <1>3. Fresh'
    BY DEF IInv, TypeOK, Fresh, Undisturbed, Before, Exists, Fill, NoFault, store
  <1> QED BY <1>1, <1>2, <1>3 DEF IInv, Fill, NoFault

LEMMA SyncInv == IInv /\ Sync => IInv'
  <1> SUFFICES ASSUME IInv, Sync PROVE IInv'  OBVIOUS
  <1>1. TypeOK'  BY DEF IInv, TypeOK, Sync, NoFault, store
  <1>2. Clean'  BY DEF IInv, TypeOK, Clean, Sync, store
  <1>3. Fresh'
    BY DEF IInv, TypeOK, Fresh, Undisturbed, Before, Exists, Sync, NoFault, store
  <1> QED BY <1>1, <1>2, <1>3 DEF IInv, Sync, NoFault

LEMMA RenameInv == IInv /\ Rename => IInv'
  <1> SUFFICES ASSUME IInv, Rename PROVE IInv'  OBVIOUS
  <1>1. TypeOK'  BY DEF IInv, TypeOK, Rename, Replace, NoFault
  <1>2. Clean'  BY DEF IInv, TypeOK, Clean, Rename, Replace
  <1>3. Fresh'
    <2>1. pc' = "write" /\ tmp'.file = tmp.file /\ tmp'.stage = "renamed"
      BY DEF IInv, TypeOK, Rename, Replace
    <2>2. ASSUME Undisturbed', tmp.file = "ca-cert" PROVE ~Exists("ca-key")'
      <3>1. ~Exists("ca-key")
        BY <2>2 DEF IInv, Fresh, Undisturbed, Before, Rename, Replace, NoFault
      <3> QED BY <2>2, <3>1, FileNames DEF IInv, TypeOK, Exists, Rename, Replace
    <2> QED BY <2>1, <2>2 DEF Fresh, Before
  <1> QED BY <1>1, <1>2, <1>3 DEF IInv, Rename, Replace, NoFault

(* A fault leaves the run disturbed. *)
LEMMA FaultDisturbs ==
  ASSUME IInv, Fault
  PROVE  /\ ~Undisturbed' /\ Fresh'
         /\ (faults <= before)' /\ faults' \in 0..MaxFaults /\ before' \in 0..MaxFaults
  BY Bounds DEF IInv, TypeOK, Fault, Undisturbed, Fresh

LEMMA SyncDirInv == IInv /\ SyncDir => IInv'
  <1> SUFFICES ASSUME IInv, SyncDir PROVE IInv'  OBVIOUS
  <1>0. NoFault \/ Fault  BY DEF SyncDir
  <1>1. AfterWrite(tmp.file) \in {"caKey", "chmodKey", "signerKey", "sign", "leaves"}
    BY DEF AfterWrite
  <1>2. faults' \in 0..MaxFaults /\ before' \in 0..MaxFaults /\ faults' <= before'
    BY <1>0, FaultDisturbs DEF IInv, TypeOK, NoFault
  <1>3. TypeOK'
    BY <1>1, <1>2, NoTmpType DEF IInv, TypeOK, SyncDir
  <1>4. Clean'
    BY NoTmpType DEF IInv, Clean, SyncDir
  <1>5. Fresh'
    <2>1. CASE Fault  BY <2>1, FaultDisturbs
    <2>2. CASE NoFault
      <3>1. ASSUME Undisturbed', pc' = "caKey" PROVE ~Exists("ca-key")'
        <4>1. tmp.file = "ca-cert"  BY <3>1 DEF SyncDir, AfterWrite
        <4> QED BY <2>2, <3>1, <4>1
                DEF IInv, Fresh, Undisturbed, Exists, SyncDir, NoFault
      <3> QED BY <3>1, NoTmpType DEF Fresh, Before, SyncDir
    <2> QED BY <1>0, <2>1, <2>2
  <1> QED BY <1>2, <1>3, <1>4, <1>5 DEF IInv

LEMMA OperationFailsInv == IInv /\ OperationFails => IInv'
  BY QuietStore, Ends DEF OperationFails, Fail

LEMMA CrashInv == IInv /\ Crash => IInv'
  BY QuietStore, Ends DEF Crash

(* As nothing visible is unsynced, a power loss leaves of each file what   *)
(* it was or what it was before.                                           *)
LEMMA PowerLossInv == IInv /\ PowerLoss => IInv'
  <1> SUFFICES ASSUME IInv, PowerLoss PROVE IInv'  OBVIOUS
  <1>1. \A f \in File : disk'[f] \in {disk[f], durable[f]}
    <2>1. unsynced = {}  BY DEF IInv, Clean
    <2>2. PICK kept \in SUBSET {f \in File : disk[f] # durable[f]} :
            disk' = [f \in File |-> CASE f \in kept /\ f \in unsynced -> Torn(f)
                                      [] f \in kept /\ f \notin unsynced -> disk[f]
                                      [] OTHER -> durable[f]]
      BY DEF PowerLoss
    <2> QED BY <2>1, <2>2
  <1>2. disk' \in [File -> Content] /\ durable' = disk' /\ unsynced' = {}
    <2>1. \A f \in File : disk'[f] \in Content  BY <1>1 DEF IInv, TypeOK
    <2>2. disk' = [f \in File |-> disk'[f]]  BY DEF PowerLoss
    <2> QED BY <2>1, <2>2 DEF PowerLoss
  <1>3. faults' \in 0..MaxFaults /\ before' \in 0..MaxFaults /\ faults' <= before' /\ Fresh'
    BY FaultDisturbs DEF PowerLoss
  <1>4. TypeOK' /\ tmp'.content.state # "torn"
    <2>1. CASE pc = "idle"
      BY <1>2, <1>3, <2>1 DEF IInv, TypeOK, Clean, PowerLoss
    <2>2. CASE pc # "idle"
      BY <1>2, <1>3, <2>2, NoTmpType DEF IInv, TypeOK, PowerLoss, End
    <2> QED BY <2>1, <2>2
  <1>5. Clean'
    BY <1>1, <1>2, <1>4 DEF IInv, Clean
  <1> QED BY <1>3, <1>4, <1>5 DEF IInv

LEMMA DamageInv ==
  ASSUME IInv, NEW f \in File, Damage(f)
  PROVE  IInv'
  <1>0. disk[f] \in Content /\ disk[f].state # "torn" /\ disk[f].private \in BOOLEAN
    BY DEF IInv, TypeOK, Clean, Content
  <1>1. PICK c \in {Absent, [disk[f] EXCEPT !.state = "broken"],
               [disk[f] EXCEPT !.state = IF @ = "good" THEN "expired" ELSE @],
               [disk[f] EXCEPT !.private = ~@], Good(0, 0, Private(f))} :
          disk' = [disk EXCEPT ![f] = c] /\ durable' = [durable EXCEPT ![f] = c]
    BY DEF Damage
  <1>2. c \in Content /\ c.state # "torn"
    <2>1. CASE c = Absent  BY <2>1, AbsentType
    <2>2. CASE c = [disk[f] EXCEPT !.state = "broken"]
      BY <1>0, <2>2, StateType
    <2>3. CASE c = [disk[f] EXCEPT !.state = IF @ = "good" THEN "expired" ELSE @]
      <3> DEFINE s == IF disk[f].state = "good" THEN "expired" ELSE disk[f].state
      <3>1. s \in {"absent", "good", "expired", "broken", "torn"} /\ s # "torn"
        BY <1>0 DEF Content
      <3>2. c = [disk[f] EXCEPT !.state = s]  BY <2>3
      <3> HIDE DEF s
      <3> QED BY <1>0, <3>1, <3>2, StateType
    <2>4. CASE c = [disk[f] EXCEPT !.private = ~@]
      <3> DEFINE p == ~disk[f].private
      <3>1. p \in BOOLEAN  OBVIOUS
      <3>2. c = [disk[f] EXCEPT !.private = p]  BY <2>4
      <3> HIDE DEF p
      <3> QED BY <1>0, <3>1, <3>2, ModeType
    <2>5. CASE c = Good(0, 0, Private(f))
      <3>1. 0 \in Id /\ Private(f) \in BOOLEAN  BY Bounds DEF Id, Private
      <3> QED BY <2>5, <3>1, GoodType
    <2> QED BY <1>1, <2>1, <2>2, <2>3, <2>4, <2>5
  <1>3. faults' \in 0..MaxFaults /\ before' \in 0..MaxFaults /\ faults' <= before' /\ Fresh'
    BY FaultDisturbs DEF Damage
  <1>4. TypeOK'
    BY <1>1, <1>2, <1>3 DEF IInv, TypeOK, Damage
  <1>5. Clean'
    BY <1>1, <1>2 DEF IInv, TypeOK, Clean, Damage
  <1> QED BY <1>3, <1>4, <1>5 DEF IInv

-----------------------------------------------------------------------------
LEMMA StutterInv == IInv /\ UNCHANGED vars => IInv'
  BY DEF IInv, TypeOK, Clean, Fresh, Undisturbed, Before, Exists, vars, store

LEMMA NextInv == IInv /\ [Next]_vars => IInv'
  BY StutterInv, StartInv, LoadCAInv, CreateCAInv, RefuseCAInv, WriteCAKeyInv, ChmodKeyInv,
     EnsureProfileSignerInv, WriteSignerKeyInv, SignProfileInv, SignFailsInv, EnsureLeafInv,
     LeavesDoneInv, FinishInv, FillInv, SyncInv, RenameInv, SyncDirInv,
     OperationFailsInv, CrashInv, PowerLossInv, DamageInv DEF Next, Run

(* The inductive invariant: nothing unsynced is visible, and a run about   *)
(* to put a CA file in place found none.                                   *)
THEOREM Invariance == Spec => []IInv
  BY InitIInv, NextInv, PTL DEF Spec

(* Every state the program can be left in, by any sequence of runs,        *)
(* crashes, power losses and damage, is one the model describes.           *)
THEOREM TypeCorrect == Spec => []TypeOK
  <1>1. IInv => TypeOK  BY DEF IInv
  <1> QED BY <1>1, Invariance, PTL

(* atomicWrite: because contents are synced before the rename, no crash    *)
(* and no power loss ever shows a file with half of its contents.          *)
THEOREM NeverTorn == Spec => []NothingTorn
  <1>1. IInv => NothingTorn  BY DEF IInv, Clean, NothingTorn
  <1> QED BY <1>1, Invariance, PTL

-----------------------------------------------------------------------------
(* The body of CAKept. *)
Kept(f) ==
  LET was == disk[f] now == disk'[f]
  IN  Exists(f) /\ Undisturbed /\ faults' = faults
        => now.state = was.state /\ now.id = was.id /\ now.issuer = was.issuer

LEMMA StepKeeps ==
  ASSUME IInv, [Next]_vars, NEW f \in CAFile
  PROVE  Kept(f)
  <1> USE DEF Kept
  <1>0. f \in File  BY FileNames DEF CAFile
  <1>1. CASE disk' = disk  BY <1>1
  <1>2. CASE Fault  BY <1>2 DEF IInv, TypeOK, Fault
  <1>3. ASSUME NEW files, Chmod(files) PROVE Kept(f)
    BY <1>0, <1>3, ChmodKeeps
  <1>4. CASE Rename
    <2>1. CASE tmp.file = f
      <3>1. Undisturbed => ~Exists(f)
        BY <1>4, <2>1 DEF IInv, Fresh, Before, Rename, CAFile
      <3> QED BY <3>1
    <2>2. CASE tmp.file # f
      BY <1>0, <1>4, <2>2 DEF IInv, TypeOK, Rename, Replace
    <2> QED BY <2>1, <2>2
  <1>5. CASE ChmodKey  BY <1>1, <1>3, <1>5 DEF ChmodKey, Fail, store
  <1>6. CASE Finish  BY <1>1, <1>3, <1>6 DEF Finish, Fail, store
  <1>7. CASE \E h \in Host : EnsureLeaf(h)  BY <1>1, <1>3, <1>7 DEF EnsureLeaf, store
  <1>8. CASE PowerLoss \/ \E g \in File : Damage(g)  BY <1>2, <1>8 DEF PowerLoss, Damage
  <1>9. CASE \/ UNCHANGED vars \/ Start \/ LoadCA \/ CreateCA \/ RefuseCA \/ WriteCAKey
             \/ EnsureProfileSigner \/ WriteSignerKey \/ SignProfile \/ SignFails
             \/ LeavesDone \/ Fill \/ Sync \/ SyncDir \/ OperationFails \/ Crash
    BY <1>1, <1>9 DEF vars, store, Start, LoadCA, CreateCA, RefuseCA, WriteCAKey,
       EnsureProfileSigner, WriteSignerKey, SignProfile, SignFails, LeavesDone, Fill, Sync,
       SyncDir, OperationFails, Crash, Fail
  <1> QED BY <1>4, <1>5, <1>6, <1>7, <1>8, <1>9 DEF Next, Run

(* No run replaces a CA file it finds, however many runs were cut short    *)
(* before it: the CA the devices trust is never rotated by locspoof-ca.    *)
THEOREM NeverReplaced == Spec => CAKept
  <1>1. IInv /\ [Next]_vars => \A f \in CAFile : Kept(f)
    BY StepKeeps
  <1>2. IInv /\ [Next]_vars => [\A f \in CAFile : Kept(f)]_vars
    BY <1>1
  <1> QED BY <1>2, Invariance, PTL DEF Spec, CAKept, Kept

-----------------------------------------------------------------------------
(* How far a run has come: a file is being put in place, or the run goes   *)
(* on at a place, where it is as soon as the file before it is in place.   *)
Writing(files) == pc = "write" /\ tmp.stage # "renamed" /\ tmp.file \in files
At(places) == IF pc = "write" THEN tmp.stage = "renamed" /\ AfterWrite(tmp.file) \in places
                              ELSE pc \in places

(* What atomicWrite is given for each file. *)
Wanted(f) == CASE f = "ca-cert" -> Good(ca.id, ca.id, FALSE)
               [] f = "ca-key" -> Good(ca.id, 0, TRUE)
               [] f = "signer-key" -> Good(run, 0, TRUE)
               [] f = "profile" -> Good(Embedded, 0, FALSE)
               [] OTHER -> Good(run, ca.id, FALSE)

(* What a run has put in place, or found, of what it leaves behind. *)
HasCert == Parses("ca-cert") /\ disk["ca-cert"].id = ca.id
HasCA == HasCert /\ Parses("ca-key") /\ disk["ca-key"].id = ca.id
HasSignerCert == Parses("signer-cert") /\ disk["signer-cert"].issuer = ca.id
HasSigner == HasSignerCert /\ Parses("signer-key")
             /\ disk["signer-cert"].id = disk["signer-key"].id
HasLeaf(h) == Parses(h) /\ disk[h].issuer = ca.id /\ ~disk[h].private

(* What a run that is not disturbed relies on at each place. *)
InHand == pc = "write" => tmp.content = Wanted(tmp.file)
CertPlaced == At({"caKey"}) \/ Writing({"ca-key"}) => HasCert
CAPlaced == At({"chmodKey"}) => HasCA
KeyPrivate == At({"signer", "signerKey", "sign", "leaves", "chmod"})
                \/ Writing(Signer \cup {"profile"} \cup Host) => HasCA /\ disk["ca-key"].private
SignerBegun == At({"signerKey"}) \/ Writing({"signer-key"}) =>
                 HasSignerCert /\ disk["signer-cert"].id = run
SignerPlaced == At({"sign", "leaves", "chmod"}) \/ Writing({"profile"} \cup Host) => HasSigner
LeavesPlaced == At({"leaves", "chmod"}) \/ Writing(Host) =>
                  Parses("profile") /\ \A h \in Host \ hosts : HasLeaf(h) \/ Writing({h})
HostsLeft == /\ At({"load", "caKey", "chmodKey", "signer", "signerKey", "sign"})
                  \/ Writing(CAFile \cup Signer \cup {"profile"}) => hosts = Host
             /\ At({"chmod"}) => hosts = {}
Outcome == (result = "ok" => Usable) /\ (result = "failed" => Damaged)

Progress == /\ InHand /\ CertPlaced /\ CAPlaced /\ KeyPrivate /\ SignerBegun /\ SignerPlaced
            /\ LeavesPlaced /\ HostsLeft /\ Outcome

(* Only a run that has returned has a result, and one that nothing has     *)
(* disturbed is where it should be.                                        *)
OnTrack == /\ result \in {"ok", "failed"} => pc = "idle"
           /\ Undisturbed => Progress

-----------------------------------------------------------------------------
LEMMA HostNames ==
  \A h \in Host : /\ h \in File
                  /\ h \notin {"ca-cert", "ca-key", "signer-cert", "signer-key", "profile"}
  BY HostAssumption DEF File, CAFile, Signer

USE DEF Progress, InHand, CertPlaced, CAPlaced, KeyPrivate, SignerBegun, SignerPlaced, LeavesPlaced,
        HostsLeft, Outcome, At, Writing

(* Each file changed gets its own mode. *)
LEMMA ChmodSets ==
  ASSUME IInv, NEW files, Chmod(files)
  PROVE  \A f \in File : disk'[f].private <=> IF f \in files THEN Private(f) ELSE disk[f].private
  <1>1. disk \in [File -> Content]  BY DEF IInv, TypeOK
  <1>2. \A f \in File : disk'[f] = IF f \in files THEN [disk[f] EXCEPT !.private = Private(f)]
                                                  ELSE disk[f]
    BY Zenon DEF Chmod
  <1> QED BY <1>1, <1>2 DEF Content

LEMMA InitTrack == Init => OnTrack
  BY NoTmpType DEF Init, OnTrack

LEMMA StartTrack == OnTrack /\ Start => OnTrack'
  BY DEF OnTrack, Start, Goto

(* A fault excuses the run. *)
LEMMA FaultTrack ==
  ASSUME IInv, Fault, result' \in {"ok", "failed"} => pc' = "idle"
  PROVE  OnTrack'
  BY FaultDisturbs DEF OnTrack

LEMMA LoadCATrack == IInv /\ OnTrack /\ LoadCA => OnTrack'
  BY DEF OnTrack, LoadCA, Goto, NoFault, Undisturbed, store, Loadable, Parses, HasCA, HasCert

LEMMA CreateCATrack == IInv /\ OnTrack /\ CreateCA => OnTrack'
  BY HostNames DEF IInv, TypeOK, OnTrack, CreateCA, AtomicWrite, NoFault, Undisturbed, Wanted,
     Signer

LEMMA RefuseCATrack == IInv /\ OnTrack /\ RefuseCA => OnTrack'
  BY DEF OnTrack, RefuseCA, Fail, End, store, Damaged, Loadable, Exists, Parses

LEMMA WriteCAKeyTrack == IInv /\ OnTrack /\ WriteCAKey => OnTrack'
  BY HostNames DEF IInv, TypeOK, OnTrack, WriteCAKey, AtomicWrite, NoFault, store, Undisturbed,
     Wanted, Signer, HasCert, Parses

LEMMA ChmodKeyTrack == IInv /\ OnTrack /\ ChmodKey => OnTrack'
  <1> SUFFICES ASSUME IInv, OnTrack, ChmodKey PROVE OnTrack'  OBVIOUS
  <1>1. CASE ~Undisturbed'
    BY <1>1 DEF OnTrack, ChmodKey, Goto, Fail, End
  <1>2. CASE Undisturbed'
    <2>1. HasCA  BY <1>2 DEF OnTrack, ChmodKey, NoFault, Undisturbed
    <2>2. Chmod({"ca-key"}) /\ Goto("signer") /\ UNCHANGED <<ca, hosts, run, result>>
      BY <2>1 DEF ChmodKey, HasCA, Parses, Exists
    <2>3. HasCA' /\ disk'["ca-key"].private
      BY <2>1, <2>2, ChmodKeeps, ChmodSets, FileNames DEF HasCA, HasCert, Parses, Private
    <2> QED BY <1>2, <2>2, <2>3 DEF OnTrack, ChmodKey, Goto, NoFault, Undisturbed
  <1> QED BY <1>1, <1>2

LEMMA EnsureProfileSignerTrack == IInv /\ OnTrack /\ EnsureProfileSigner => OnTrack'
  <1> SUFFICES ASSUME IInv, OnTrack, EnsureProfileSigner PROVE OnTrack'  OBVIOUS
  <1>1. /\ pc = "signer" /\ result \notin {"ok", "failed"}
        /\ UNCHANGED <<disk, ca, hosts, run, result>>
        /\ Undisturbed' => HasCA /\ disk["ca-key"].private /\ hosts = Host
    BY DEF OnTrack, EnsureProfileSigner, NoFault, Undisturbed, store
  <1>2. CASE ProfileSignerValid
    BY <1>1, <1>2 DEF OnTrack, EnsureProfileSigner, Goto, ProfileSignerValid, SignedByCA, HasCA,
       HasCert, HasSigner, HasSignerCert, Signer, Parses
  <1>3. CASE ~ProfileSignerValid
    <2>1. /\ pc' = "write" /\ tmp'.file = "signer-cert" /\ tmp'.stage = "create"
          /\ tmp'.content = Good(run, ca.id, FALSE)
      <3>1. AtomicWrite("signer-cert", Good(run, ca.id, FALSE))  BY <1>3 DEF EnsureProfileSigner
      <3> QED BY <3>1 DEF AtomicWrite
    <2>2. InHand'  BY <1>1, <2>1 DEF Wanted
    <2>3. Undisturbed' => KeyPrivate' /\ HostsLeft'
      BY <1>1, <2>1 DEF HasCA, HasCert, Parses, Signer
    <2> QED BY <1>1, <2>1, <2>2, <2>3, HostNames DEF OnTrack
  <1> QED BY <1>2, <1>3

LEMMA WriteSignerKeyTrack == IInv /\ OnTrack /\ WriteSignerKey => OnTrack'
  BY HostNames DEF IInv, TypeOK, OnTrack, WriteSignerKey, AtomicWrite, NoFault, store, Undisturbed,
     Wanted, Signer, HasCert, HasCA, HasSignerCert, Parses

LEMMA SignProfileTrack == IInv /\ OnTrack /\ SignProfile => OnTrack'
  BY HostNames DEF IInv, TypeOK, OnTrack, SignProfile, AtomicWrite, NoFault, store, Undisturbed,
     Wanted, Signer, HasCert, HasCA, HasSignerCert, HasSigner, Parses, Embedded

LEMMA SignFailsTrack == IInv /\ OnTrack /\ SignFails => OnTrack'
  BY DEF OnTrack, SignFails, Fail, End, NoFault, Undisturbed, CanSign, HasSigner, HasSignerCert,
     Signer, Parses, store

LEMMA LeavesDoneTrack == IInv /\ OnTrack /\ LeavesDone => OnTrack'
  BY DEF IInv, TypeOK, OnTrack, LeavesDone, Goto, NoFault, store, Undisturbed, HasCert, HasCA,
     HasSignerCert, HasSigner, HasLeaf, Parses

LEMMA FillTrack == IInv /\ OnTrack /\ Fill => OnTrack'
  BY DEF IInv, TypeOK, OnTrack, Fill, NoFault, store, Undisturbed, Wanted, Embedded, HasCert, HasCA,
     HasSignerCert, HasSigner, HasLeaf, Parses

LEMMA SyncTrack == IInv /\ OnTrack /\ Sync => OnTrack'
  BY DEF IInv, TypeOK, OnTrack, Sync, NoFault, store, Undisturbed, Wanted, Embedded, HasCert, HasCA,
     HasSignerCert, HasSigner, HasLeaf, Parses

LEMMA SyncDirTrack == IInv /\ OnTrack /\ SyncDir => OnTrack'
  BY FaultTrack DEF IInv, TypeOK, OnTrack, SyncDir, NoFault, store, Undisturbed, AfterWrite,
     HasCert, HasCA, HasSignerCert, HasSigner, HasLeaf, Parses

(* The new leaf is in place, or its mode is set. *)
LEMMA EnsureLeafTrack ==
  ASSUME IInv, OnTrack, NEW h \in Host, EnsureLeaf(h)
  PROVE  OnTrack'
  <1>1. CASE ~Undisturbed'
    BY <1>1 DEF OnTrack, EnsureLeaf, Goto, AtomicWrite
  <1>2. CASE Undisturbed' /\ ~LeafValid(h)
    <2>1. AtomicWrite(h, Good(run, ca.id, FALSE)) /\ UNCHANGED store  BY <1>2 DEF EnsureLeaf
    <2>2. /\ pc' = "write" /\ tmp'.file = h /\ tmp'.stage = "create"
          /\ tmp'.content = Good(run, ca.id, FALSE)
      BY <2>1 DEF AtomicWrite
    <2>3. InHand'
      <3>1. UNCHANGED <<ca, run>>  BY DEF EnsureLeaf
      <3> QED BY <2>2, <3>1, HostNames DEF Wanted
    <2>4. KeyPrivate' /\ SignerPlaced' /\ LeavesPlaced'
      BY <1>2, <2>1, <2>2
         DEF OnTrack, EnsureLeaf, NoFault, Undisturbed, store, HasCA, HasCert, HasSigner,
             HasSignerCert, HasLeaf, Parses
    <2> QED BY <2>2, <2>3, <2>4, HostNames DEF OnTrack, EnsureLeaf, CAFile, Signer
  <1>3. CASE Undisturbed' /\ LeafValid(h)
    <2>1. /\ pc = "leaves" /\ hosts' = hosts \ {h}
          /\ Chmod({h}) /\ Goto("leaves") /\ UNCHANGED <<ca, run, result>>
      BY <1>3 DEF EnsureLeaf
    <2>2. HasCA /\ HasSigner /\ disk["ca-key"].private /\ Parses("profile")
          /\ \A g \in Host \ hosts : HasLeaf(g)
      BY <1>3, <2>1 DEF OnTrack, EnsureLeaf, NoFault, Undisturbed
    <2>3. HasCA' /\ HasSigner' /\ Parses("profile")' /\ disk'["ca-key"].private
      BY <2>1, <2>2, ChmodKeeps, ChmodSets, FileNames, HostNames
         DEF HasCA, HasCert, HasSigner, HasSignerCert, Parses
    <2>4. ~disk'[h].private
      BY <2>1, ChmodSets, HostNames DEF Private
    <2>5. \A g \in Host \ hosts' : HasLeaf(g)'
      BY <1>3, <2>1, <2>2, <2>4, ChmodKeeps, ChmodSets, HostNames DEF HasLeaf, LeafValid,
         SignedByCA, Parses
    <2> QED BY <2>1, <2>3, <2>5 DEF IInv, TypeOK, OnTrack, Goto
  <1> QED BY <1>1, <1>2, <1>3

LEMMA FinishTrack == IInv /\ OnTrack /\ Finish => OnTrack'
  <1> SUFFICES ASSUME IInv, OnTrack, Finish PROVE OnTrack'  OBVIOUS
  <1> DEFINE files == {"ca-cert", "profile"} \cup Signer
  <1>1. CASE ~Undisturbed'
    BY <1>1 DEF OnTrack, Finish, Fail, End
  <1>2. CASE Undisturbed'
    <2>1. HasCA /\ HasSigner /\ disk["ca-key"].private /\ Parses("profile")
          /\ \A h \in Host : HasLeaf(h)
      BY <1>2 DEF OnTrack, Finish, NoFault, Undisturbed
    <2>2. Chmod(files) /\ End("ok") /\ UNCHANGED ca
      BY <2>1 DEF Finish, HasCA, HasCert, HasSigner, HasSignerCert, Signer, Parses, Exists
    <2>3. HasCA' /\ HasSigner' /\ Parses("profile")'
      BY <2>1, <2>2, ChmodKeeps, FileNames
         DEF HasCA, HasCert, HasSigner, HasSignerCert, Parses
    <2>4. \A h \in Host : Parses(h)' /\ disk'[h].issuer = ca.id
      BY <2>1, <2>2, ChmodKeeps, HostNames DEF HasLeaf, Parses
    <2>5. \A f \in File : disk'[f].private <=> Private(f)
      <3>1. \A f \in files : disk'[f].private <=> Private(f)
        BY <2>2, ChmodSets, FileNames DEF Signer
      <3>2. disk'["ca-key"].private
        BY <2>1, <2>2, ChmodSets, FileNames DEF Signer
      <3>3. \A h \in Host : ~disk'[h].private
        BY <2>1, <2>2, ChmodSets, HostNames DEF Signer, HasLeaf
      <3> QED BY <3>1, <3>2, <3>3, HostNames DEF File, CAFile, Private
    <2>6. Usable'
      BY <2>2, <2>3, <2>4, <2>5
         DEF Usable, Loadable, HasCA, HasCert, HasSigner, HasSignerCert, Signer, Parses
    <2> QED BY <2>2, <2>6 DEF OnTrack, End
  <1> QED BY <1>1, <1>2

(* With the rename the run is past the file: what it wanted is in place. *)
LEMMA RenameTrack == IInv /\ OnTrack /\ Rename => OnTrack'
  <1> SUFFICES ASSUME IInv, OnTrack, Rename PROVE OnTrack'  OBVIOUS
  <1>1. /\ pc = "write" /\ tmp' = [tmp EXCEPT !.stage = "renamed"]
        /\ disk' = [disk EXCEPT ![tmp.file] = tmp.content]
        /\ tmp.file \in File /\ disk \in [File -> Content] /\ tmp.stage = "synced"
        /\ UNCHANGED <<pc, ca, hosts, run, result>> /\ NoFault
    BY DEF IInv, TypeOK, Rename, Replace
  <1>2. CASE ~Undisturbed'
    BY <1>1, <1>2 DEF OnTrack
  <1>3. CASE Undisturbed'
    <2> DEFINE f == tmp.file  c == tmp.content
    <2>1. Progress /\ c = Wanted(f) /\ result \notin {"ok", "failed"}
      BY <1>1, <1>3 DEF OnTrack, NoFault, Undisturbed
    <2>2. tmp'.file = f /\ tmp'.content = c /\ tmp'.stage = "renamed" /\ Wanted(f)' = Wanted(f)
      BY <1>1 DEF IInv, TypeOK, Wanted, Embedded
    <2>3. disk'[f] = c /\ \A g \in File \ {f} : disk'[g] = disk[g]
      BY <1>1
    <2> HIDE DEF f, c
    <2>4. CASE f = "ca-cert"
      BY <1>1, <2>1, <2>2, <2>3, <2>4
         DEF f, OnTrack, AfterWrite, CAFile, Wanted, Good, HasCert, Parses
    <2>5. CASE f = "ca-key"
      BY <1>1, <2>1, <2>2, <2>3, <2>5, FileNames
         DEF f, OnTrack, AfterWrite, CAFile, Wanted, Good, HasCert, HasCA, Parses
    <2>6. CASE f = "signer-cert"
      BY <1>1, <2>1, <2>2, <2>3, <2>6, FileNames
         DEF f, OnTrack, AfterWrite, CAFile, Wanted, Good, HasCert, HasCA, HasSignerCert, Signer,
             Parses
    <2>7. CASE f = "signer-key"
      BY <1>1, <2>1, <2>2, <2>3, <2>7, FileNames
         DEF f, OnTrack, AfterWrite, CAFile, Wanted, Good, HasCert, HasCA, HasSignerCert, HasSigner,
             Signer, Parses
    <2>8. CASE f = "profile"
      BY <1>1, <2>1, <2>2, <2>3, <2>8, FileNames, HostNames
         DEF f, OnTrack, AfterWrite, CAFile, Wanted, Good, HasCert, HasCA, HasSignerCert, HasSigner,
             HasLeaf, Parses
    <2>9. CASE f \in Host
      BY <1>1, <2>1, <2>2, <2>3, <2>9, FileNames, HostNames
         DEF f, OnTrack, AfterWrite, CAFile, Wanted, Good, HasCert, HasCA, HasSignerCert, HasSigner,
             HasLeaf, Parses
    <2> QED BY <1>1, <2>4, <2>5, <2>6, <2>7, <2>8, <2>9 DEF f, File, CAFile, Signer
  <1> QED BY <1>2, <1>3

LEMMA FaultStepTrack ==
  ASSUME IInv, OnTrack, OperationFails \/ Crash \/ PowerLoss \/ \E f \in File : Damage(f)
  PROVE  OnTrack'
  <1>1. Fault  BY DEF OperationFails, Crash, PowerLoss, Damage
  <1>2. result' \in {"ok", "failed"} => pc' = "idle"
    BY DEF OnTrack, OperationFails, Crash, PowerLoss, Damage, Fail, End
  <1> QED BY <1>1, <1>2, FaultTrack

LEMMA StutterTrack == OnTrack /\ UNCHANGED vars => OnTrack'
  BY DEF OnTrack, Undisturbed, vars, store, Wanted, Embedded, HasCert, HasCA, HasSignerCert,
     HasSigner, HasLeaf, Usable, Damaged, Loadable, Exists, Parses

HIDE DEF Progress, InHand, CertPlaced, CAPlaced, KeyPrivate, SignerBegun, SignerPlaced,
         LeavesPlaced, HostsLeft, Outcome, At, Writing

LEMMA NextTrack == IInv /\ OnTrack /\ [Next]_vars => OnTrack'
  BY StutterTrack, StartTrack, LoadCATrack, CreateCATrack, RefuseCATrack, WriteCAKeyTrack,
     ChmodKeyTrack, EnsureProfileSignerTrack, WriteSignerKeyTrack, SignProfileTrack, SignFailsTrack,
     EnsureLeafTrack, LeavesDoneTrack, FinishTrack, FillTrack, SyncTrack, RenameTrack, SyncDirTrack,
     FaultStepTrack DEF Next, Run

LEMMA AlwaysOnTrack == Spec => []OnTrack
  BY InitTrack, NextTrack, Invariance, PTL DEF Spec

(* A run that reports success and that nothing disturbed leaves one CA, a  *)
(* signer and a leaf for every host under it, and private keys private,    *)
(* whatever the crashes, power losses and damage before it left behind.    *)
THEOREM SuccessIsUsable == Spec => []SuccessMeansUsable
  <1>1. OnTrack => SuccessMeansUsable  BY DEF OnTrack, Progress, Outcome, SuccessMeansUsable
  <1> QED BY <1>1, AlwaysOnTrack, PTL

(* A run that nothing disturbs fails only on a damaged CA: whatever else   *)
(* it finds missing, broken, expired or of another CA, it repairs.         *)
THEOREM OnlyDamagedCAFails == Spec => []RunRepairs
  <1>1. OnTrack => RunRepairs  BY DEF OnTrack, Progress, Outcome, RunRepairs
  <1> QED BY <1>1, AlwaysOnTrack, PTL
=============================================================================
