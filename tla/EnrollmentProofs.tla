--------------------------- MODULE EnrollmentProofs ---------------------------
(***************************************************************************)
(* Proofs about Enrollment, for any keys and any number of faults.          *)
(*                                                                          *)
(* OneIdentity rests on the order of toMachineConfig and Bootstrap: the key *)
(* is on file before it is presented (KeyOnFile).  SetupKeyRemoved holds    *)
(* when no file starts with a plain setup key and the certificate enabled   *)
(* at once: then a process that holds the setup key in memory is one that   *)
(* never tries the certificate (PhasesApart).                               *)
(***************************************************************************)
EXTENDS Enrollment, TLAPS

\* toMachineConfig returns with a key.
KeyInHand ==
    pc \in {"persist", "bootstrap", "cleanup", "connected"} => attempt.key \in Keys

\* From bootstrap on the key in use is the one on file, and before that the
\* server knows no other.
KeyOnFile ==
    trouble = "no" =>
        /\ file.url = "yes" /\ file.encPrivateKey # "damaged"
        /\ registered \subseteq {file.encPrivateKey}
        /\ pc = "persist" => \/ registered = {}
                             \/ attempt.key = file.encPrivateKey
        /\ pc \in {"bootstrap", "cleanup", "connected"} =>
              attempt.key = file.encPrivateKey

\* A file with a plain setup key is one that has never been saved to, and only
\* a process in its first phase has the setup key in memory.
PhasesApart ==
    trouble = "no" =>
        /\ file.setupKey = "key" => /\ file.encPrivateKey = "none"
                                    /\ file.certEnabled = "off" /\ certs = "none"
                                    /\ pc \in {"down", "load", "persist"}
        /\ mem.setupKey = "key" => mem.certEnabled = "off"
        /\ pc = "cleanup" => mem.certEnabled = "on" /\ certs = "enrolled"
        /\ removed = "yes" => mem.setupKey = "none" /\ certs = "enrolled"

------------------------------------------------------------------------------
\* A prefix of a file is a file.
LEMMA TruncatedType ==
    ASSUME NEW f \in File
    PROVE  Truncated(f) \subseteq File
<1> DEFINE cut(v) == IF v = "none" THEN {"none"} ELSE {"none", "damaged"}
           upTo1 == [Blank EXCEPT !.url = "yes"]
           upTo2 == [upTo1 EXCEPT !.encSetupKey = f.encSetupKey]
           upTo3 == [upTo2 EXCEPT !.encPrivateKey = f.encPrivateKey]
           upTo4 == [upTo3 EXCEPT !.encSSHKey = f.encSSHKey]
<1>1. Blank \in File
  BY DEF Blank, File
<1>2. upTo1 \in File
  BY <1>1 DEF File
<1>3. upTo2 \in File
  BY <1>2, Zenon DEF File
<1>4. upTo3 \in File
  BY <1>3, Zenon DEF File
<1>5. upTo4 \in File
  BY <1>4, ZenonT(30) DEF File
<1> HIDE DEF upTo1, upTo2, upTo3, upTo4
<1>6. \A v \in cut(f.encSetupKey) : [upTo1 EXCEPT !.encSetupKey = v] \in File
  BY <1>2 DEF File
<1>7. \A v \in cut(f.encPrivateKey) : [upTo2 EXCEPT !.encPrivateKey = v] \in File
  BY <1>3 DEF File
<1>8. \A v \in cut(f.encSSHKey) : [upTo3 EXCEPT !.encSSHKey = v] \in File
  BY <1>4 DEF File
<1> HIDE DEF cut
<1>. QED
  BY <1>1, <1>5, <1>6, <1>7, <1>8, Zenon DEF Truncated, cut, upTo1, upTo2, upTo3, upTo4

\* So is what SaveTo writes.
LEMMA SavedType ==
    ASSUME NEW f \in File
    PROVE  Saved(f) \in File
  BY Zenon DEF Saved, File

\* What persistKeys writes is a file when a key is in hand.
LEMMA PersistedType ==
    ASSUME TypeOK
    PROVE  Persisted \in File
<1> DEFINE f == [file EXCEPT !.encPrivateKey = attempt.key, !.encSSHKey = "key",
                             !.certEnabled = mem.certEnabled,
                             !.encSetupKey = IF @ = "none" THEN attempt.setupKey ELSE @]
<1>1. /\ attempt.key \in Keys \cup {"none", "damaged"} /\ attempt.setupKey \in {"none", "key", "damaged"}
      /\ mem.certEnabled \in {"on", "off"} /\ file \in File
  BY DEF TypeOK
<1>2. (IF file.encSetupKey = "none" THEN attempt.setupKey ELSE file.encSetupKey) \in {"none", "key", "damaged"}
  BY <1>1 DEF File
<1>3. f \in File
  BY <1>1, <1>2, Zenon DEF File
<1>. QED
  BY <1>3, SavedType DEF Persisted

\* SaveTo leaves a file, whatever happens.
LEMMA SaveToType ==
    ASSUME TypeOK, NEW f \in File, SaveTo(f)
    PROVE  /\ file' \in File /\ trouble' \in {"no", "yes"}
           /\ faults' \in 0 .. MaxFaults
  BY TruncatedType, EnrollmentAssumption DEF SaveTo, TypeOK

\* A file as the administrator writes it is one.
LEMMA FreshType == \A d : Fresh(d) \in File
<1>1. Blank \in File
  BY DEF Blank, File
<1>2. TAKE d
<1>3. /\ (IF d = "cert" THEN "none" ELSE "key") \in {"none", "key"}
      /\ (IF d = "setupKey" THEN "off" ELSE "on") \in {"on", "off"}
  OBVIOUS
<1>. QED
  BY <1>1, <1>3, Zenon DEF Fresh, File

LEMMA InitTypeOK == Init => TypeOK /\ KeyInHand
  BY FreshType, EnrollmentAssumption DEF Init, TypeOK, KeyInHand, NoConfig, NoAttempt

\* One step per action.
LEMMA NextTypeOK ==
    ASSUME TypeOK, KeyInHand, [Next]_vars
    PROVE  TypeOK'
<1> USE EnrollmentAssumption DEF TypeOK
<1>1. CASE StartService
  <2>1. trouble' \in {"no", "yes"} /\ faults' \in 0 .. MaxFaults
    BY <1>1 DEF StartService, Decryption
  <2>2. mem' \in [setupKey : {"none", "key"}, certEnabled : {"on", "off"}]
    BY <1>1 DEF StartService, DecryptedSetupKey, File
  <2>. QED
    BY <1>1, <2>1, <2>2 DEF StartService
<1>2. CASE LoadKeys
  <2>1. trouble' \in {"no", "yes"} /\ faults' \in 0 .. MaxFaults
    BY <1>2 DEF LoadKeys, Decryption
  <2>2. attempt' \in [key : Keys \cup {"none"}, setupKey : {"none", "key"}]
    BY <1>2 DEF LoadKeys
  <2>3. pc' \in {"persist", "bootstrap"}
    BY <1>2 DEF LoadKeys
  <2>. QED
    BY <1>2, <2>1, <2>2, <2>3 DEF LoadKeys
<1>3. CASE PersistKeys
  <2>1. /\ file' \in File /\ trouble' \in {"no", "yes"}
        /\ faults' \in 0 .. MaxFaults
    BY <1>3, PersistedType, SaveToType DEF PersistKeys
  <2>. QED
    BY <1>3, <2>1 DEF PersistKeys
<1>4. CASE BootstrapWithMTLS
  BY <1>4 DEF BootstrapWithMTLS, KeyInHand
<1>5. CASE BootstrapWithSetupKey
  BY <1>5 DEF BootstrapWithSetupKey, KeyInHand
<1>6. CASE BootstrapFails
  BY <1>6 DEF BootstrapFails, NoAttempt
<1>7. CASE CleanupSetupKeyAfterMTLS
  <2>1. Saved([file EXCEPT !.encSetupKey = "none"]) \in File
    BY SavedType DEF File
  <2>2. /\ file' \in File /\ trouble' \in {"no", "yes"}
        /\ faults' \in 0 .. MaxFaults
    BY <1>7, <2>1, SaveToType DEF CleanupSetupKeyAfterMTLS
  <2>3. removed' \in {"no", "yes"}
    BY <1>7 DEF CleanupSetupKeyAfterMTLS
  <2>. QED
    BY <1>7, <2>2, <2>3 DEF CleanupSetupKeyAfterMTLS
<1>8. CASE Reconnect
  BY <1>8 DEF Reconnect, NoAttempt
<1>9. CASE StopService
  BY <1>9 DEF StopService, NoAttempt, NoConfig
<1>10. CASE KilledWhileSaving
  <2>1. Saved([file EXCEPT !.encSetupKey = "none"]) \in File
    BY SavedType DEF File
  <2>2. file' \in File
    BY <1>10, <2>1, PersistedType, TruncatedType DEF KilledWhileSaving
  <2>. QED
    BY <1>10, <2>2 DEF KilledWhileSaving, NoAttempt, NoConfig
<1>11. CASE EnrollCertificate
  BY <1>11 DEF EnrollCertificate
<1>12. CASE EnableMachineCert
  BY <1>12 DEF EnableMachineCert, File
<1>13. CASE RevokeSetupKey
  BY <1>13 DEF RevokeSetupKey
<1>14. CASE RewriteFile
  BY <1>14, FreshType DEF RewriteFile
<1>15. CASE UNCHANGED vars
  BY <1>15 DEF vars
<1>. QED
  BY <1>1, <1>2, <1>3, <1>4, <1>5, <1>6, <1>7, <1>8, <1>9, <1>10, <1>11, <1>12, <1>13,
     <1>14, <1>15 DEF Next, Service, Administrator

------------------------------------------------------------------------------
\* Only toMachineConfig leads to the steps that use a key.
LEMMA NextKeyInHand ==
    ASSUME TypeOK, KeyInHand, [Next]_vars
    PROVE  KeyInHand'
<1> USE DEF KeyInHand
<1>1. \/ LoadKeys
      \/ pc' \in {"down", "load"}
      \/ /\ pc \in {"persist", "bootstrap", "cleanup", "connected"}
         /\ UNCHANGED attempt
      \/ UNCHANGED <<pc, attempt>>
  BY DEF Next, Service, Administrator, StartService, PersistKeys, BootstrapWithMTLS,
     BootstrapWithSetupKey, BootstrapFails, CleanupSetupKeyAfterMTLS, Reconnect,
     StopService, KilledWhileSaving, EnrollCertificate, EnableMachineCert,
     RevokeSetupKey, RewriteFile, vars
<1>2. CASE LoadKeys
  BY <1>2 DEF LoadKeys
<1>. QED
  BY <1>1, <1>2

\* The server sees only a key that is on file.
LEMMA NextKeyOnFile ==
    ASSUME TypeOK, KeyInHand, KeyOnFile, [Next]_vars
    PROVE  KeyOnFile'
<1> SUFFICES ASSUME trouble' = "no" PROVE KeyOnFile'
  BY DEF KeyOnFile
<1> USE EnrollmentAssumption DEF KeyOnFile, TypeOK, File
<1>1. CASE StartService
  BY <1>1 DEF StartService, Decryption
<1>2. CASE LoadKeys
  <2>1. trouble = "no" /\ attempt'.key \in Keys
    BY <1>2 DEF LoadKeys, Decryption
  <2>2. pc' = "bootstrap" \/ registered # {} => attempt'.key = file.encPrivateKey
    BY <1>2, <2>1 DEF LoadKeys, Decryption, NeedsPersist
  <2>3. pc' \in {"persist", "bootstrap"} /\ UNCHANGED <<file, registered>>
    BY <1>2 DEF LoadKeys
  <2>. QED
    BY <2>1, <2>2, <2>3
<1>3. CASE PersistKeys
  <2>1. trouble = "no" /\ file' = Persisted
    BY <1>3 DEF PersistKeys, SaveTo
  <2>2. file'.url = "yes" /\ file'.encPrivateKey = attempt.key
    BY <2>1 DEF Persisted, Saved
  <2>3. attempt.key \in Keys
    BY <1>3 DEF PersistKeys, KeyInHand
  <2>. QED
    BY <1>3, <2>1, <2>2, <2>3 DEF PersistKeys
<1>4. CASE BootstrapWithMTLS
  BY <1>4 DEF BootstrapWithMTLS
<1>5. CASE BootstrapWithSetupKey
  BY <1>5 DEF BootstrapWithSetupKey
<1>6. CASE BootstrapFails
  BY <1>6 DEF BootstrapFails
<1>7. CASE CleanupSetupKeyAfterMTLS
  <2>1. trouble = "no"
    BY <1>7 DEF CleanupSetupKeyAfterMTLS, SaveTo
  <2>2. file' = file \/ file' = Saved([file EXCEPT !.encSetupKey = "none"])
    BY <1>7 DEF CleanupSetupKeyAfterMTLS, SaveTo
  <2>3. file'.url = "yes" /\ file'.encPrivateKey = file.encPrivateKey
    BY <2>1, <2>2, Zenon DEF Saved
  <2>. QED
    BY <1>7, <2>1, <2>3 DEF CleanupSetupKeyAfterMTLS
<1>8. CASE Reconnect
  BY <1>8 DEF Reconnect
<1>9. CASE StopService
  BY <1>9 DEF StopService
<1>10. CASE KilledWhileSaving
  BY <1>10 DEF KilledWhileSaving
<1>11. CASE EnrollCertificate
  BY <1>11 DEF EnrollCertificate
<1>12. CASE EnableMachineCert
  BY <1>12 DEF EnableMachineCert
<1>13. CASE RevokeSetupKey
  BY <1>13 DEF RevokeSetupKey
<1>14. CASE RewriteFile
  BY <1>14 DEF RewriteFile
<1>15. CASE UNCHANGED vars
  BY <1>15 DEF vars
<1>. QED
  BY <1>1, <1>2, <1>3, <1>4, <1>5, <1>6, <1>7, <1>8, <1>9, <1>10, <1>11, <1>12, <1>13,
     <1>14, <1>15 DEF Next, Service, Administrator

\* The two phases never meet in one process, so a removed setup key is not
\* found again in memory.
LEMMA NextPhasesApart ==
    ASSUME TypeOK, TypeOK', KeyOnFile, PhasesApart, SetupKeyRemoved, [Next]_vars
    PROVE  PhasesApart' /\ SetupKeyRemoved'
<1> SUFFICES ASSUME trouble' = "no" PROVE PhasesApart' /\ SetupKeyRemoved'
  BY DEF PhasesApart, SetupKeyRemoved
<1> USE DEF PhasesApart, SetupKeyRemoved, TypeOK, File
<1>1. CASE StartService
  <2>1. /\ trouble = "no" /\ UNCHANGED <<file, attempt, certs, removed>>
        /\ pc = "down" /\ pc' = "load"
    BY <1>1 DEF StartService, Decryption
  <2>2. mem'.setupKey = "key" => file.setupKey = "key" \/ file.encSetupKey = "key"
    BY <1>1, <2>1 DEF StartService, DecryptedSetupKey
  <2>3. mem'.setupKey = "key" => mem'.certEnabled = "off"
    BY <1>1, <2>1 DEF StartService, DecryptedSetupKey
  <2>. QED
    BY <2>1, <2>2, <2>3
<1>2. CASE LoadKeys
  <2>1. /\ trouble = "no" /\ UNCHANGED <<file, mem, certs, removed>>
        /\ pc' \in {"persist", "bootstrap"} /\ pc = "load"
    BY <1>2 DEF LoadKeys, Decryption
  <2>2. file.setupKey = "key" => pc' = "persist"
    BY <1>2, <2>1, EnrollmentAssumption DEF LoadKeys, NeedsPersist
  <2>3. attempt'.setupKey = "key" => file.encSetupKey = "key" \/ mem.setupKey = "key"
    BY <1>2 DEF LoadKeys, DecryptedSetupKey
  <2>. QED
    BY <2>1, <2>2, <2>3
<1>3. CASE PersistKeys
  <2>1. trouble = "no" /\ file' = Persisted
    BY <1>3 DEF PersistKeys, SaveTo
  <2>2. /\ file'.setupKey = "none"
        /\ file'.encSetupKey = IF file.encSetupKey = "none" THEN attempt.setupKey
                                                            ELSE file.encSetupKey
    BY <2>1 DEF Persisted, Saved
  <2>. QED
    BY <1>3, <2>1, <2>2 DEF PersistKeys
<1>4. CASE BootstrapWithMTLS
  BY <1>4 DEF BootstrapWithMTLS, TriesMTLS
<1>5. CASE BootstrapWithSetupKey
  BY <1>5 DEF BootstrapWithSetupKey
<1>6. CASE BootstrapFails
  BY <1>6 DEF BootstrapFails, NoAttempt
<1>7. CASE CleanupSetupKeyAfterMTLS
  <2>1. /\ trouble = "no" /\ UNCHANGED <<mem, certs, attempt>>
        /\ pc = "cleanup" /\ pc' = "connected"
    BY <1>7 DEF CleanupSetupKeyAfterMTLS, SaveTo
  <2>2. file' = file \/ file' = Saved([file EXCEPT !.encSetupKey = "none"])
    BY <1>7 DEF CleanupSetupKeyAfterMTLS, SaveTo
  <2>3. file'.setupKey = "none"
    <3>1. file.setupKey = "none"
      BY <2>1
    <3>2. CASE file' = file
      BY <3>1, <3>2
    <3>3. CASE file' = Saved([file EXCEPT !.encSetupKey = "none"])
      <4>1. [file EXCEPT !.encSetupKey = "none"].setupKey = "none"
        BY <3>1
      <4>. QED
        BY <3>3, <4>1 DEF Saved
    <3>. QED
      BY <2>2, <3>2, <3>3
  <2>4. file'.encSetupKey = "none"
    <3>1. CASE file.encSetupKey = "none"
      BY <3>1, <2>2, Zenon DEF Saved
    <3>2. CASE file.encSetupKey # "none"
      <4>1. file.url = "yes"
        BY <2>1 DEF KeyOnFile
      <4>2. file' = Saved([file EXCEPT !.encSetupKey = "none"])
        BY <1>7, <3>2, <4>1 DEF CleanupSetupKeyAfterMTLS, SaveTo
      <4>. QED
        BY <4>2 DEF Saved
    <3>. QED
      BY <3>1, <3>2
  <2>. QED
    BY <2>1, <2>3, <2>4
<1>8. CASE Reconnect
  BY <1>8 DEF Reconnect, NoAttempt
<1>9. CASE StopService
  BY <1>9 DEF StopService, NoAttempt, NoConfig
<1>10. CASE KilledWhileSaving
  BY <1>10 DEF KilledWhileSaving
<1>11. CASE EnrollCertificate
  BY <1>11 DEF EnrollCertificate
<1>12. CASE EnableMachineCert
  BY <1>12 DEF EnableMachineCert
<1>13. CASE RevokeSetupKey
  BY <1>13 DEF RevokeSetupKey
<1>14. CASE RewriteFile
  BY <1>14 DEF RewriteFile
<1>15. CASE UNCHANGED vars
  BY <1>15 DEF vars
<1>. QED
  BY <1>1, <1>2, <1>3, <1>4, <1>5, <1>6, <1>7, <1>8, <1>9, <1>10, <1>11, <1>12, <1>13,
     <1>14, <1>15 DEF Next, Service, Administrator

------------------------------------------------------------------------------
\* Every variable keeps its type, and from toMachineConfig on a key is in hand.
THEOREM TypeCorrect == Spec => []TypeOK
<1>1. TypeOK /\ KeyInHand /\ [Next]_vars => TypeOK' /\ KeyInHand'
  BY NextTypeOK, NextKeyInHand
<1>. QED
  BY <1>1, InitTypeOK, PTL DEF Spec

\* Unless a decryption or a write fails, the server knows the machine by one key,
\* the one on file, through restarts and kills at any point.
THEOREM KeysSurviveRestarts == Spec => []OneIdentity
<1> DEFINE I == TypeOK /\ KeyInHand /\ KeyOnFile
<1>1. Init => I
  <2>1. Init => KeyOnFile
    BY Zenon DEF Init, KeyOnFile, Fresh, Blank
  <2>. QED
    BY <2>1, InitTypeOK, ZenonT(30)
<1>2. I /\ [Next]_vars => I'
  BY NextTypeOK, NextKeyInHand, NextKeyOnFile
<1>3. I => OneIdentity
  BY DEF KeyOnFile, OneIdentity
<1>. QED
  BY <1>1, <1>2, <1>3, PTL DEF Spec

\* Where a setup key is not deployed together with an enabled certificate, its
\* removal after mTLS is final.
THEOREM RemovalIsFinal ==
    ASSUME "both" \notin Deployments
    PROVE  Spec => []SetupKeyRemoved
<1> DEFINE I == /\ TypeOK /\ KeyInHand /\ KeyOnFile
                /\ PhasesApart /\ SetupKeyRemoved
<1>1. Init => I
  <2>1. Init => KeyOnFile
    BY Zenon DEF Init, KeyOnFile, Fresh, Blank
  <2>2. ASSUME Init PROVE PhasesApart
    <3>1. PICK d \in Deployments : file = Fresh(d)
      BY <2>2 DEF Init
    <3>2. d \in {"setupKey", "cert"}
      BY EnrollmentAssumption
    <3>3. file.setupKey = "key" => file.certEnabled = "off"
      BY <3>1, <3>2 DEF Fresh, Blank
    <3>4. file.encPrivateKey = "none"
      BY <3>1 DEF Fresh, Blank
    <3>. QED
      BY <2>2, <3>3, <3>4 DEF Init, PhasesApart, NoConfig
  <2>3. Init => SetupKeyRemoved
    BY DEF Init, SetupKeyRemoved
  <2>. QED
    BY <2>1, <2>2, <2>3, InitTypeOK, ZenonT(30)
<1>2. I /\ [Next]_vars => I'
  <2> SUFFICES ASSUME I, [Next]_vars PROVE I'
    OBVIOUS
  <2>1. TypeOK' /\ KeyInHand' /\ KeyOnFile'
    BY NextTypeOK, NextKeyInHand, NextKeyOnFile
  <2>. QED
    BY <2>1, NextPhasesApart
<1>. QED
  BY <1>1, <1>2, PTL DEF Spec
================================================================================
