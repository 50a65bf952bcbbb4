------------------------------ MODULE CAStore ------------------------------
(***************************************************************************)
(* locspoof-ca: the program that start_service runs before every start of  *)
(* the daemon, to create what is missing of the certificates and repair    *)
(* what is damaged.  It may be killed, or the router may lose its power,   *)
(* at any point; files may be damaged, removed, replaced or expire at any  *)
(* time.  The next run has to cope with whatever it finds.                 *)
(*                                                                         *)
(* Keys are told apart by the run that made them.  Each file has one       *)
(* owner; the init script's lock keeps two runs apart.                     *)
(***************************************************************************)
EXTENDS Naturals

CONSTANTS Host,       \* the host names, each with a bundle of certificate and key
          MaxRuns,    \* bound: runs
          MaxFaults   \* bound: crashes, failing operations and damaged files

ASSUME BoundsAssumption == MaxRuns \in Nat /\ MaxFaults \in Nat

CAFile == {"ca-cert", "ca-key"}
Signer == {"signer-cert", "signer-key"}
ASSUME HostAssumption == Host \cap (CAFile \cup Signer \cup {"profile"}) = {}

File == CAFile \cup Signer \cup {"profile"} \cup Host

VARIABLES disk,      \* what a reader of each file sees
          durable,   \* what is left of it after a power loss
          unsynced,  \* files whose contents were not on disk when they were renamed
          pc,        \* where the run is
          ca,        \* the CA in its memory: whose key, and whether parsed from the file
          tmp,       \* atomicWrite: the file to replace, by what, and how far it is
          hosts,     \* host names still to be looked at
          run,       \* number of the run
          result,    \* how it ended
          faults,    \* faults that may still happen
          before     \* ... when the run started

store == <<disk, durable, unsynced>>
vars == <<store, pc, ca, tmp, hosts, run, result, faults, before>>

(* A file: whether it parses and is within its dates, whose key it holds   *)
(* or certifies, whose key signed it, and whether only root may read it.   *)
(* Of the profile, id is the CA certificate inside, 0 for none at all.     *)
Id == 0..MaxRuns
Content == [state : {"absent", "good", "expired", "broken", "torn"},
            id : Id, issuer : Id, private : BOOLEAN]
Absent == [state |-> "absent", id |-> 0, issuer |-> 0, private |-> FALSE]
Good(id, issuer, private) ==
  [state |-> "good", id |-> id, issuer |-> issuer, private |-> private]

Private(f) == f \in {"ca-key", "signer-key"}
NoTmp == [file |-> "profile", content |-> Absent, stage |-> "none"]

TypeOK == /\ disk \in [File -> Content] /\ durable \in [File -> Content]
          /\ unsynced \subseteq File
          /\ pc \in {"idle", "load", "caKey", "chmodKey", "signer", "signerKey", "sign",
                     "leaves", "chmod", "write"}
          /\ ca \in [id : Id, parsed : BOOLEAN]
          /\ tmp \in [file : File, content : Content,
                      stage : {"none", "create", "filled", "synced", "renamed"}]
          /\ pc = "write" <=> tmp.stage # "none"
          /\ hosts \subseteq Host
          /\ run \in Id
          /\ result \in {"none", "running", "ok", "failed", "crashed"}
          /\ faults \in 0..MaxFaults /\ before \in 0..MaxFaults

(* A new installation. *)
Init == /\ disk = [f \in File |-> Absent] /\ durable = disk
        /\ unsynced = {}
        /\ pc = "idle"
        /\ ca = [id |-> 0, parsed |-> FALSE]
        /\ tmp = NoTmp
        /\ hosts = {}
        /\ run = 0
        /\ result = "none"
        /\ faults = MaxFaults /\ before = MaxFaults

-----------------------------------------------------------------------------
Exists(f) == disk[f].state # "absent"
Parses(f) == disk[f].state = "good"

(* loadCA: both files parse, are within their dates and belong together. *)
Loadable == Parses("ca-cert") /\ Parses("ca-key") /\ disk["ca-cert"].id = disk["ca-key"].id

(* A CA that is there and cannot be loaded. *)
Damaged == ~Loadable /\ \E f \in CAFile : Exists(f)

(* CheckSignatureFrom: a template has no key, so nothing is signed by it. *)
SignedByCA(f) == ca.parsed /\ disk[f].issuer = ca.id

(* A mistake: a certificate the CA signed is taken for a whole identity. *)
SignerCertValid == Parses("signer-cert") /\ SignedByCA("signer-cert")

ProfileSignerValid ==
  /\ \A f \in Signer : Parses(f)
  /\ SignedByCA("signer-cert")
  /\ disk["signer-cert"].id = disk["signer-key"].id

(* A mistake: the leaf of another CA will do. *)
AnyLeafValid(h) == Parses(h)

LeafValid(h) == Parses(h) /\ SignedByCA(h)

-----------------------------------------------------------------------------
Goto(next) == pc' = next /\ UNCHANGED tmp

AtomicWrite(f, content) ==
  /\ pc' = "write"
  /\ tmp' = [file |-> f, content |-> content, stage |-> "create"]

(* A mistake: the temporary file stays. *)
EndKeepingTmp(how) == pc' = "idle" /\ result' = how /\ UNCHANGED tmp

(* run returns; atomicWrite's defer has removed the temporary file. *)
End(how) ==
  /\ pc' = "idle"
  /\ tmp' = NoTmp
  /\ result' = how

Fail == End("failed") /\ UNCHANGED <<store, ca, hosts, run>>
Fault == faults > 0 /\ faults' = faults - 1 /\ UNCHANGED before
NoFault == UNCHANGED <<faults, before>>

Start ==
  /\ pc = "idle" /\ run < MaxRuns
  /\ run' = run + 1
  /\ result' = "running"
  /\ hosts' = Host
  /\ before' = faults
  /\ Goto("load")
  /\ UNCHANGED <<store, ca, faults>>

LoadCA ==
  /\ pc = "load" /\ Loadable
  /\ ca' = [id |-> disk["ca-cert"].id, parsed |-> TRUE]
  /\ Goto("chmodKey")
  /\ UNCHANGED <<store, hosts, run, result>> /\ NoFault

(* A mistake: a damaged CA is replaced. *)
ReplaceCA ==
  /\ pc = "load" /\ ~Loadable
  /\ ca' = [id |-> run, parsed |-> FALSE]
  /\ AtomicWrite("ca-cert", Good(run, run, FALSE))
  /\ UNCHANGED <<store, hosts, run, result>> /\ NoFault

(* Only when neither file exists.  The CA kept in memory is the template   *)
(* the certificate was made from.                                          *)
CreateCA ==
  /\ pc = "load" /\ ~Loadable /\ ~Damaged
  /\ ca' = [id |-> run, parsed |-> FALSE]
  /\ AtomicWrite("ca-cert", Good(run, run, FALSE))
  /\ UNCHANGED <<store, hosts, run, result>> /\ NoFault

RefuseCA == pc = "load" /\ Damaged /\ Fail /\ NoFault

WriteCAKey ==
  /\ pc = "caKey"
  /\ AtomicWrite("ca-key", Good(ca.id, 0, TRUE))
  /\ UNCHANGED <<store, ca, hosts, run, result>> /\ NoFault

(* os.Chmod of some files, each to its own mode. *)
Chmod(files) ==
  /\ disk' = [f \in File |-> IF f \in files THEN [disk[f] EXCEPT !.private = Private(f)]
                                            ELSE disk[f]]
  /\ UNCHANGED <<durable, unsynced>>

ChmodKey ==
  /\ pc = "chmodKey"
  /\ IF Exists("ca-key")
     THEN Chmod({"ca-key"}) /\ Goto("signer") /\ UNCHANGED <<ca, hosts, run, result>>
     ELSE Fail
  /\ NoFault

EnsureProfileSigner ==
  /\ pc = "signer"
  /\ IF ProfileSignerValid THEN Goto("sign")
                           ELSE AtomicWrite("signer-cert", Good(run, ca.id, FALSE))
  /\ UNCHANGED <<store, ca, hosts, run, result>> /\ NoFault

WriteSignerKey ==
  /\ pc = "signerKey"
  /\ AtomicWrite("signer-key", Good(run, 0, TRUE))
  /\ UNCHANGED <<store, ca, hosts, run, result>> /\ NoFault

(* EnrollmentMobileConfig embeds the raw bytes of the certificate, which a *)
(* template does not have.                                                 *)
Embedded == IF ca.parsed THEN ca.id ELSE 0

(* openssl needs a signer whose certificate and key parse and match. *)
CanSign == (\A f \in Signer : disk[f].state \in {"good", "expired"})
           /\ disk["signer-cert"].id = disk["signer-key"].id

SignProfile ==
  /\ pc = "sign" /\ CanSign
  /\ AtomicWrite("profile", Good(Embedded, 0, FALSE))
  /\ UNCHANGED <<store, ca, hosts, run, result>> /\ NoFault

SignFails == pc = "sign" /\ ~CanSign /\ Fail /\ NoFault

EnsureLeaf(h) ==
  /\ pc = "leaves" /\ h \in hosts
  /\ hosts' = hosts \ {h}
  /\ IF LeafValid(h)
     THEN Chmod({h}) /\ Goto("leaves")
     ELSE AtomicWrite(h, Good(run, ca.id, FALSE)) /\ UNCHANGED store
  /\ UNCHANGED <<ca, run, result>> /\ NoFault

LeavesDone ==
  /\ pc = "leaves" /\ hosts = {}
  /\ Goto("chmod")
  /\ UNCHANGED <<store, ca, hosts, run, result>> /\ NoFault

(* The modes once more, and the end of the run. *)
Finish ==
  /\ pc = "chmod"
  /\ LET files == {"ca-cert", "profile"} \cup Signer
     IN  IF \A f \in files : Exists(f)
         THEN Chmod(files) /\ End("ok") /\ UNCHANGED <<ca, hosts, run>>
         ELSE Fail
  /\ NoFault

-----------------------------------------------------------------------------
(* atomicWrite: a new file with its mode and contents, ... *)
Fill ==
  /\ tmp.stage = "create"
  /\ tmp' = [tmp EXCEPT !.stage = "filled"]
  /\ UNCHANGED <<store, pc, ca, hosts, run, result>> /\ NoFault

(* ... on disk, ... *)
Sync ==
  /\ tmp.stage = "filled"
  /\ tmp' = [tmp EXCEPT !.stage = "synced"]
  /\ UNCHANGED <<store, pc, ca, hosts, run, result>> /\ NoFault

(* ... takes the place of the old one, ... *)
Replace(f) ==
  /\ tmp' = [tmp EXCEPT !.stage = "renamed"]
  /\ disk' = [disk EXCEPT ![f] = tmp.content]
  /\ UNCHANGED <<durable, pc, ca, hosts, run, result>> /\ NoFault

(* A mistake: nobody waits for the contents. *)
RenameUnsynced ==
  /\ tmp.stage = "filled"
  /\ Replace(tmp.file)
  /\ unsynced' = unsynced \cup {tmp.file}

Rename ==
  /\ tmp.stage = "synced"
  /\ Replace(tmp.file)
  /\ unsynced' = unsynced \ {tmp.file}

(* ... and the directory is synced, the outcome of which nobody looks at.  *)
AfterWrite(f) == CASE f = "ca-cert" -> "caKey"
                   [] f = "ca-key" -> "chmodKey"
                   [] f = "signer-cert" -> "signerKey"
                   [] f = "signer-key" -> "sign"
                   [] OTHER -> "leaves"

SyncDir ==
  /\ tmp.stage = "renamed"
  /\ tmp' = NoTmp
  /\ pc' = AfterWrite(tmp.file)
  /\ \/ durable' = disk /\ NoFault
     \/ UNCHANGED durable /\ Fault
  /\ UNCHANGED <<disk, unsynced, ca, hosts, run, result>>

(* Any other operation may fail (a directory, a key, openssl, a mode, a    *)
(* full disk), and ends the run.                                           *)
OperationFails ==
  /\ pc # "idle" /\ tmp.stage # "renamed"
  /\ Fault
  /\ Fail

-----------------------------------------------------------------------------
(* The process is killed.  Its temporary file stays, and is never read. *)
Crash ==
  /\ pc # "idle"
  /\ Fault
  /\ End("crashed")
  /\ UNCHANGED <<store, ca, hosts, run>>

(* The power fails: a rename that was not synced may be undone, and a file *)
(* whose contents were not on disk is torn.                                *)
Torn(f) == [durable[f] EXCEPT !.state = "torn"]

PowerLoss ==
  /\ Fault
  /\ \E kept \in SUBSET {f \in File : disk[f] # durable[f]} :
       disk' = [f \in File |-> CASE f \in kept /\ f \in unsynced -> Torn(f)
                                 [] f \in kept /\ f \notin unsynced -> disk[f]
                                 [] OTHER -> durable[f]]
  /\ durable' = disk'
  /\ unsynced' = {}
  /\ IF pc = "idle" THEN UNCHANGED <<pc, tmp, result>> ELSE End("crashed")
  /\ UNCHANGED <<ca, hosts, run>>

(* Somebody removes, damages or replaces a file, or changes its mode; or   *)
(* a certificate expires.                                                  *)
Damage(f) ==
  /\ Fault
  /\ \E c \in {Absent, [disk[f] EXCEPT !.state = "broken"],
               [disk[f] EXCEPT !.state = IF @ = "good" THEN "expired" ELSE @],
               [disk[f] EXCEPT !.private = ~@], Good(0, 0, Private(f))} :
       /\ disk' = [disk EXCEPT ![f] = c]
       /\ durable' = [durable EXCEPT ![f] = c]
  /\ UNCHANGED <<unsynced, pc, ca, tmp, hosts, run, result>>

Run == \/ Start \/ LoadCA \/ CreateCA \/ RefuseCA \/ WriteCAKey \/ ChmodKey
       \/ EnsureProfileSigner \/ WriteSignerKey \/ SignProfile \/ SignFails
       \/ (\E h \in Host : EnsureLeaf(h)) \/ LeavesDone \/ Finish
       \/ Fill \/ Sync \/ Rename \/ SyncDir \/ OperationFails

Next == Run \/ Crash \/ PowerLoss \/ \E f \in File : Damage(f)

Spec == Init /\ [][Next]_vars

-----------------------------------------------------------------------------
Undisturbed == faults = before

(* A run that nothing disturbs never replaces a CA file that exists,       *)
(* whatever state it is in and however earlier runs ended: trust already   *)
(* installed on devices is not rotated ("never silently replace a damaged  *)
(* root CA").  One file may appear after the run has looked for it; that   *)
(* one it does replace.                                                    *)
CAKept ==
  [][\A f \in CAFile :
       LET was == disk[f] now == disk'[f]
       IN  Exists(f) /\ Undisturbed /\ faults' = faults
             => now.state = was.state /\ now.id = was.id /\ now.issuer = was.issuer]_vars

(* atomicWrite: no crash and no power loss leaves a file with half of its  *)
(* contents, or puts one in the place of a good file.                      *)
NothingTorn == \A f \in File : disk[f].state # "torn"

(* What the daemon and the devices need: one CA, a signer with its key and *)
(* a leaf for every host, all issued by that CA, and private keys private. *)
Usable ==
  LET id == disk["ca-cert"].id
  IN  /\ Loadable
      /\ \A f \in Signer : Parses(f)
      /\ disk["signer-cert"].issuer = id
      /\ disk["signer-cert"].id = disk["signer-key"].id
      /\ Parses("profile")
      /\ \A h \in Host : Parses(h) /\ disk[h].issuer = id
      /\ \A f \in File : disk[f].private <=> Private(f)

(* A run that reports success leaves a usable store, whatever crashes and  *)
(* damage came before it.                                                  *)
SuccessMeansUsable == result = "ok" /\ Undisturbed => Usable

(* Everything but the CA is repaired: a run that is not disturbed fails    *)
(* only if it finds a damaged CA.                                          *)
RunRepairs == result = "failed" /\ Undisturbed => Damaged

(* Enrollment: the profile a successful run leaves for the devices to      *)
(* install carries the CA certificate.                                     *)
ProfileCarriesCA ==
  result = "ok" /\ Undisturbed => disk["profile"].id = disk["ca-cert"].id
=============================================================================
