------------------------------ MODULE Enrollment ------------------------------
(***************************************************************************)
(* How a machine enrols, and what becomes of its keys: the configuration    *)
(* file that the service (service_windows.go) and SecureConfig              *)
(* (security_windows.go) share, the keys toMachineConfig loads, generates   *)
(* and persists (machine.go), Bootstrap's choice between the certificate    *)
(* and the setup key (bootstrap.go), and the removal of the setup key once  *)
(* the certificate works.                                                   *)
(*                                                                          *)
(* The service and SecureConfig read and write one path, each with the      *)
(* fields it knows.  os.WriteFile truncates and then writes, so an error or *)
(* a kill in the middle leaves a prefix of the fields.  A value is present  *)
(* ("key", or which key), absent ("none") or cannot be decrypted any more   *)
(* ("damaged").                                                             *)
(***************************************************************************)
EXTENDS Naturals

CONSTANTS
    Keys,         \* the WireGuard keys that may be generated
    Deployments,  \* which fields the first file has: "setupKey", "cert", "both"
    MaxFaults     \* bound: failed decryptions, writes and mTLS attempts together

ASSUME EnrollmentAssumption ==
    /\ Deployments \subseteq {"setupKey", "cert", "both"}
    /\ MaxFaults \in Nat
    /\ "none" \notin Keys /\ "damaged" \notin Keys

VARIABLES
    file,        \* the configuration file
    mem,         \* t.config of the running service
    pc,          \* where the service is
    attempt,     \* the MachineConfig of the connect at hand
    registered,  \* the keys the management server knows this machine by
    setupKeys,   \* "valid", or "revoked" in the dashboard
    certs,       \* "none", or "enrolled": the machine certificate can be found
    auth,        \* how the last bootstrap that succeeded authenticated
    removed,     \* "yes": the setup key has been removed after mTLS
    trouble,     \* "yes": a value could not be decrypted, or a write failed
    faults       \* faults so far

vars == <<file, mem, pc, attempt, registered, setupKeys, certs, auth, removed,
          trouble, faults>>

\* The fields only the service's own parser knows (dns_servers, allowed_dc_ips
\* and others) have no part in enrolment and are left out.
File == [url : {"yes", "no"}, setupKey : {"none", "key"},
         encSetupKey : {"none", "key", "damaged"},
         encPrivateKey : Keys \cup {"none", "damaged"},
         encSSHKey : {"none", "key", "damaged"},
         certEnabled : {"on", "off"}]

\* An empty file, or one that is no YAML: nothing can be taken from it.
Blank == [url |-> "no", setupKey |-> "none", encSetupKey |-> "none",
          encPrivateKey |-> "none", encSSHKey |-> "none", certEnabled |-> "off"]

\* The file an administrator writes.
Fresh(d) == [Blank EXCEPT !.url = "yes",
                          !.setupKey = IF d = "cert" THEN "none" ELSE "key",
                          !.certEnabled = IF d = "setupKey" THEN "off" ELSE "on"]

NoConfig == [setupKey |-> "none", certEnabled |-> "off"]
NoAttempt == [key |-> "none", setupKey |-> "none"]

Init ==
    /\ file \in {Fresh(d) : d \in Deployments}
    /\ mem = NoConfig /\ pc = "down" /\ attempt = NoAttempt
    /\ registered = {} /\ setupKeys = "valid"
    /\ certs = IF file.certEnabled = "on" THEN "enrolled" ELSE "none"
    /\ auth = "none" /\ removed = "no" /\ trouble = "no" /\ faults = 0

------------------------------------------------------------------------------
(***************************************************************************)
(* Writing the file.                                                       *)
(***************************************************************************)

\* What is left of f, in the order of SecureConfig's fields, when the write
\* stops in the middle: all that comes before some field, and of that field
\* itself nothing or a damaged value.
Truncated(f) ==
    LET cut(v) == IF v = "none" THEN {"none"} ELSE {"none", "damaged"}
        upTo1 == [Blank EXCEPT !.url = "yes"]
        upTo2 == [upTo1 EXCEPT !.encSetupKey = f.encSetupKey]
        upTo3 == [upTo2 EXCEPT !.encPrivateKey = f.encPrivateKey]
        upTo4 == [upTo3 EXCEPT !.encSSHKey = f.encSSHKey]
    IN  {Blank, upTo4}
          \cup {[upTo1 EXCEPT !.encSetupKey = v] : v \in cut(f.encSetupKey)}
          \cup {[upTo2 EXCEPT !.encPrivateKey = v] : v \in cut(f.encPrivateKey)}
          \cup {[upTo3 EXCEPT !.encSSHKey = v] : v \in cut(f.encSSHKey)}

\* SaveTo knows SecureConfig's fields and no others.
Saved(f) == [f EXCEPT !.url = "yes", !.setupKey = "none"]

\* SaveTo succeeds, or returns an error before or in the middle of the write.
SaveTo(f) ==
    \/ file' = f /\ UNCHANGED <<trouble, faults>>
    \/ /\ faults < MaxFaults /\ faults' = faults + 1
       /\ trouble' = "yes"
       /\ file' \in {file} \cup Truncated(f)

------------------------------------------------------------------------------
(***************************************************************************)
(* The service.                                                            *)
(***************************************************************************)

\* Which values fail to decrypt this time.  Damaged ones always do.
Decryption(failing) ==
    IF failing = {} THEN UNCHANGED <<trouble, faults>>
    ELSE faults < MaxFaults /\ faults' = faults + 1 /\ trouble' = "yes"

DecryptedSetupKey(failing) ==
    IF file.encSetupKey = "key" /\ "setupKey" \notin failing THEN "key" ELSE "none"

\* loadConfig and NewMachineTunnel.  Without a management URL, or without any
\* way to authenticate, the service does not come up.
StartService ==
    /\ pc = "down" /\ file.url = "yes"
    /\ \E failing \in SUBSET {"setupKey"} :
          LET key == IF file.setupKey = "key" THEN "key"
                     ELSE IF file.certEnabled = "off" THEN DecryptedSetupKey(failing)
                     ELSE "none"
          IN  /\ Decryption(failing)
              /\ key = "key" \/ file.certEnabled = "on"
              /\ mem' = [setupKey |-> key, certEnabled |-> file.certEnabled]
    /\ pc' = "load"
    /\ UNCHANGED <<file, attempt, registered, setupKeys, certs, auth, removed>>

\* Mutant of NeedsPersist: a generated key alone is no reason to save.
NeedsPersistNoKey(key, setupKey) ==
    file.url = "no" \/ (setupKey = "none" /\ mem.setupKey = "key")

\* toMachineConfig saves when the file could not be loaded, when the setup key
\* comes from memory and when a key was generated.
NeedsPersist(key, setupKey) ==
    \/ file.url = "no"
    \/ setupKey = "none" /\ mem.setupKey = "key"
    \/ key = "none"
    \/ file.encSSHKey # "key"

\* Mutant of LoadKeys: the private key on file is used though it did not decrypt.
LoadKeysUnchecked ==
    /\ pc = "load"
    /\ \E failing \in SUBSET {"setupKey", "key", "sshKey"} :
          LET key == file.encPrivateKey
              setupKey == DecryptedSetupKey(failing)
          IN  /\ Decryption(failing)
              /\ \E k \in IF key = "none" THEN Keys \ registered ELSE {key} :
                    attempt' = [key |-> k,
                                setupKey |-> IF setupKey = "key" THEN "key"
                                             ELSE mem.setupKey]
              /\ pc' = IF NeedsPersist(key, setupKey) \/ "sshKey" \in failing
                         THEN "persist" ELSE "bootstrap"
    /\ UNCHANGED <<file, mem, registered, setupKeys, certs, auth, removed>>

\* toMachineConfig up to persistKeys: every key is loaded, or generated when
\* it is not there or cannot be decrypted.
LoadKeys ==
    /\ pc = "load"
    /\ \E failing \in SUBSET {"setupKey", "key", "sshKey"} :
          LET key == IF file.encPrivateKey \in Keys /\ "key" \notin failing
                       THEN file.encPrivateKey ELSE "none"
              setupKey == DecryptedSetupKey(failing)
          IN  /\ Decryption(failing)
              /\ \E k \in IF key = "none" THEN Keys \ registered ELSE {key} :
                    attempt' = [key |-> k,
                                setupKey |-> IF setupKey = "key" THEN "key"
                                             ELSE mem.setupKey]
              /\ pc' = IF NeedsPersist(key, setupKey) \/ "sshKey" \in failing
                         THEN "persist" ELSE "bootstrap"
    /\ UNCHANGED <<file, mem, registered, setupKeys, certs, auth, removed>>

\* What persistKeys writes: a setup key only when none is there yet.
Persisted ==
    Saved([file EXCEPT !.encPrivateKey = attempt.key, !.encSSHKey = "key",
                       !.certEnabled = mem.certEnabled,
                       !.encSetupKey = IF @ = "none" THEN attempt.setupKey ELSE @])

\* A failure is logged; bootstrap goes on with the keys in memory.
PersistKeys ==
    /\ pc = "persist"
    /\ SaveTo(Persisted)
    /\ pc' = "bootstrap"
    /\ UNCHANGED <<mem, attempt, registered, setupKeys, certs, auth, removed>>

\* Bootstrap tries the certificate if it is enabled and can be found.
TriesMTLS == mem.certEnabled = "on" /\ certs = "enrolled"

BootstrapWithMTLS ==
    /\ pc = "bootstrap" /\ TriesMTLS
    /\ registered' = registered \cup {attempt.key}
    /\ auth' = "mtls"
    /\ pc' = "cleanup"
    /\ UNCHANGED <<file, mem, attempt, setupKeys, certs, removed, trouble, faults>>

\* With a setup key it logs in under a key the server knows, or registers.  After
\* mTLS this is the fallback from an attempt that failed.
BootstrapWithSetupKey ==
    /\ pc = "bootstrap" /\ attempt.setupKey = "key"
    /\ IF TriesMTLS
         THEN faults < MaxFaults /\ faults' = faults + 1 /\ auth' = "fallback"
         ELSE UNCHANGED faults /\ auth' = "setupKey"
    /\ attempt.key \in registered \/ setupKeys = "valid"
    /\ registered' = registered \cup {attempt.key}
    /\ pc' = "connected"
    /\ UNCHANGED <<file, mem, attempt, setupKeys, certs, removed, trouble>>

\* Nothing to authenticate with, a refusal, or an error: connect fails, and the
\* next one starts over from the file.
BootstrapFails ==
    /\ pc = "bootstrap"
    /\ \/ /\ ~TriesMTLS
          /\ attempt.setupKey = "key" => attempt.key \notin registered /\ setupKeys = "revoked"
          /\ UNCHANGED faults
       \/ faults < MaxFaults /\ faults' = faults + 1
    /\ pc' = "load" /\ attempt' = NoAttempt
    /\ UNCHANGED <<file, mem, registered, setupKeys, certs, auth, removed, trouble>>

\* Mutant of CleanupSetupKeyAfterMTLS: the updated config is not saved.
CleanupSetupKeyUnsaved ==
    /\ pc = "cleanup"
    /\ removed' = "yes" /\ UNCHANGED <<file, trouble, faults>>
    /\ pc' = "connected"
    /\ UNCHANGED <<mem, attempt, registered, setupKeys, certs, auth>>

\* The encrypted setup key is removed, if there is one.  A failure is logged, to
\* load the file included.
CleanupSetupKeyAfterMTLS ==
    /\ pc = "cleanup"
    /\ IF file.url = "yes" /\ file.encSetupKey # "none"
         THEN /\ SaveTo(Saved([file EXCEPT !.encSetupKey = "none"]))
              /\ removed' = IF faults' = faults THEN "yes" ELSE removed
         ELSE /\ removed' = IF file.url = "yes" THEN "yes" ELSE removed
              /\ UNCHANGED <<file, trouble, faults>>
    /\ pc' = "connected"
    /\ UNCHANGED <<mem, attempt, registered, setupKeys, certs, auth>>

\* The tunnel is lost; connectionLoop calls connect again.
Reconnect ==
    /\ pc = "connected"
    /\ pc' = "load" /\ attempt' = NoAttempt
    /\ UNCHANGED <<file, mem, registered, setupKeys, certs, auth, removed, trouble, faults>>

\* The service stops, or is killed between two steps ...
StopService ==
    /\ pc # "down"
    /\ pc' = "down" /\ mem' = NoConfig /\ attempt' = NoAttempt
    /\ UNCHANGED <<file, registered, setupKeys, certs, auth, removed, trouble, faults>>

\* ... or in the middle of a write.
KilledWhileSaving ==
    /\ \/ pc = "persist" /\ file' \in Truncated(Persisted)
       \/ /\ pc = "cleanup" /\ file.url = "yes" /\ file.encSetupKey # "none"
          /\ file' \in Truncated(Saved([file EXCEPT !.encSetupKey = "none"]))
    /\ faults < MaxFaults /\ faults' = faults + 1
    /\ trouble' = "yes"
    /\ pc' = "down" /\ mem' = NoConfig /\ attempt' = NoAttempt
    /\ UNCHANGED <<registered, setupKeys, certs, auth, removed>>

------------------------------------------------------------------------------
(***************************************************************************)
(* The administrator.                                                      *)
(***************************************************************************)

\* The first tunnel lets the machine join the domain and get a certificate.
EnrollCertificate ==
    /\ certs = "none" /\ pc = "connected"
    /\ certs' = "enrolled"
    /\ UNCHANGED <<file, mem, pc, attempt, registered, setupKeys, auth, removed, trouble,
                   faults>>

\* machine_cert_enabled: true, while the service runs or not.
EnableMachineCert ==
    /\ certs = "enrolled" /\ file.url = "yes" /\ file.certEnabled = "off"
    /\ file' = [file EXCEPT !.certEnabled = "on"]
    /\ UNCHANGED <<mem, pc, attempt, registered, setupKeys, certs, auth, removed, trouble,
                   faults>>

RevokeSetupKey ==
    /\ setupKeys = "valid" /\ setupKeys' = "revoked"
    /\ UNCHANGED <<file, mem, pc, attempt, registered, certs, auth, removed, trouble, faults>>

\* A file the service cannot start from is written anew.
RewriteFile ==
    /\ pc = "down"
    /\ \/ file.url = "no"
       \/ file.setupKey = "none" /\ file.certEnabled = "off" /\ file.encSetupKey # "key"
    /\ file' \in {Fresh(d) : d \in Deployments}
    /\ removed' = "no" /\ trouble' = "yes"
    /\ UNCHANGED <<mem, pc, attempt, registered, setupKeys, certs, auth, faults>>

Service ==
    \/ StartService \/ LoadKeys \/ PersistKeys \/ BootstrapWithMTLS \/ BootstrapWithSetupKey
    \/ BootstrapFails \/ CleanupSetupKeyAfterMTLS \/ Reconnect \/ StopService
    \/ KilledWhileSaving

Administrator == EnrollCertificate \/ EnableMachineCert \/ RevokeSetupKey \/ RewriteFile

Next == Service \/ Administrator

Spec == Init /\ [][Next]_vars

------------------------------------------------------------------------------

\* Every variable has a value of its type: whatever a write cut short has left on
\* file, toMachineConfig hands Bootstrap a key that was generated.
TypeOK ==
    /\ file \in File
    /\ mem \in [setupKey : {"none", "key"}, certEnabled : {"on", "off"}]
    /\ pc \in {"down", "load", "persist", "bootstrap", "cleanup", "connected"}
    /\ attempt \in [key : Keys \cup {"none"}, setupKey : {"none", "key"}]
    /\ registered \in SUBSET Keys
    /\ setupKeys \in {"valid", "revoked"}
    /\ certs \in {"none", "enrolled"}
    /\ auth \in {"none", "setupKey", "mtls", "fallback"}
    /\ removed \in {"no", "yes"}
    /\ trouble \in {"no", "yes"}
    /\ faults \in 0 .. MaxFaults

\* Keys survive restarts: unless a decryption or a write has failed, the server
\* knows the machine by one key for ever, and it is the one on file.  A kill
\* between any two steps is no exception, because the key is saved before it is
\* first presented.
OneIdentity ==
    (trouble = "no" /\ registered # {}) => registered = {file.encPrivateKey}

\* The setup key is gone for good once it has been removed after mTLS: neither
\* the file nor any later attempt has one.
SetupKeyRemoved ==
    (trouble = "no" /\ removed = "yes") =>
        /\ file.setupKey = "none" /\ file.encSetupKey = "none"
        /\ attempt.setupKey = "key" => pc \in {"cleanup", "connected"}
================================================================================
