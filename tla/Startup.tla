------------------------------ MODULE Startup ------------------------------
(***************************************************************************)
(* Where a broker gets its signing key and the certificate of its mTLS     *)
(* listener: startServer and resolveMtlsCert (src/start.ts) and            *)
(* loadBrokerSigningKey (src/shared/signing.ts).  Daemons hold on to both: *)
(* the key's public half is announced to them in the welcome, and they pin *)
(* the certificate.                                                        *)
(*                                                                         *)
(* Each instance has a working directory that survives it.  A process may  *)
(* crash at any point; one that crashes inside writeFileSync may leave a   *)
(* torn file, which opens but does not parse.  `--check` (dryRun) is a     *)
(* process of its own that only reads.  Whoever operates an instance       *)
(* starts it again as often as they like, or never.  Another process may   *)
(* hold a port the broker wants (EADDRINUSE), or the port be forbidden to  *)
(* it (EACCES), whatever was true a moment ago.                            *)
(*                                                                         *)
(* Definitions with an underscore in their name are seeded faults, as in   *)
(* RelayServer.                                                            *)
(***************************************************************************)
EXTENDS Naturals, FiniteSets

CONSTANTS
  Instances,
  Configs,    \* configurations an instance may have, see ConfigType
  MaxCrashes  \* crashes in all (bounds the model)

\* key and cert: operator-managed material that is there, or that is missing,
\* or none configured.  `multi` is server.multi_instance, `writable` says that
\* the working directory can be written.
ConfigType == [key : {"shared", "missing", "none"}, cert : {"shared", "missing", "none"},
               multi : BOOLEAN, writable : BOOLEAN]

ASSUME StartupAssumption ==
  /\ Configs \subseteq ConfigType
  /\ Instances \cap {"shared", "absent", "torn"} = {}
  /\ MaxCrashes \in Nat

VARIABLES
  config,    \* instance -> its configuration
  disk,      \* instance -> the three files of its working directory
  pc,        \* instance -> where its process is
  mem,       \* instance -> what the process has loaded
  crashes,   \* crashes so far
  announced, \* instance -> the pairs of key and certificate daemons have seen
  checked    \* instance -> a check passed, and nothing has crashed since

vars == <<config, disk, pc, mem, crashes, announced, checked>>

\* Key material by its origin: the operator's, or the n-th an instance generated.
Shared == <<"shared", 0>>
Absent == <<"absent", 0>>
Torn == <<"torn", 0>>
Material == {Shared} \cup (Instances \X Nat)
Contents == {Absent, Torn} \cup (Instances \X Nat)
Nothing == [cert |-> Absent, certKey |-> Absent, key |-> Absent]

\* "failed": startServer threw before it listened; "portRefused": a listener
\* emitted "error".  Either way the process ends (main().catch in index.ts).
Places == {"down", "cert", "writeCert", "writeCertKey", "key", "writeKey",
           "listen", "listenMtls", "up", "failed", "portRefused"}

Ended == {"down", "failed", "portRefused"}

\* The state keeps its types; a process that is up has loaded everything.
TypeOK ==
  /\ config \in [Instances -> Configs]
  /\ disk \in [Instances -> [cert : Contents, certKey : Contents, key : Contents]]
  /\ pc \in [Instances -> Places]
  /\ mem \in [Instances -> [cert : Material \cup {Absent}, certKey : Material \cup {Absent},
                            key : Material \cup {Absent}]]
  /\ \A i \in Instances : pc[i] = "up" => Absent \notin {mem[i].cert, mem[i].certKey, mem[i].key}
  /\ crashes \in 0 .. MaxCrashes
  /\ announced \in [Instances -> SUBSET [cert : Material, key : Material]]
  /\ checked \in [Instances -> BOOLEAN]

Init ==
  /\ config \in [Instances -> Configs]
  /\ disk = [i \in Instances |-> Nothing]
  /\ pc = [i \in Instances |-> "down"]
  /\ mem = [i \in Instances |-> Nothing]
  /\ crashes = 0
  /\ announced = [i \in Instances |-> {}]
  /\ checked = [i \in Instances |-> FALSE]

-----------------------------------------------------------------------------
(* The decisions *)

\* Material of instance i that nobody holds.
Fresh(i) ==
  LET held == {disk[i].cert, disk[i].certKey, disk[i].key, mem[i].cert, mem[i].certKey, mem[i].key}
              \cup UNION {{a.cert, a.key} : a \in announced[i]}
  IN  <<i, CHOOSE n \in 1 .. Cardinality(held) + 1 : <<i, n>> \notin held>>

\* Fault: one of the files is taken for the pair.
HasPair_Either(i) == disk[i].cert # Absent \/ disk[i].certKey # Absent

\* existsSync of both files.
HasPair(i) == disk[i].cert # Absent /\ disk[i].certKey # Absent

\* createHttpsServer accepts the pair.
PairLoads(i) == Torn \notin {disk[i].cert, disk[i].certKey} /\ disk[i].cert = disk[i].certKey

\* Fault: the certificate is generated per instance, whatever the deployment.
CertRefused_AnyDeployment(i) ==
  \/ config[i].cert = "missing"
  \/ config[i].cert = "none" /\ HasPair(i) /\ ~PairLoads(i)

\* resolveMtlsCert throws, or the listener cannot use what it returns.
CertRefused(i) ==
  \/ config[i].cert = "missing"
  \/ /\ config[i].cert = "none"
     /\ config[i].multi \/ (HasPair(i) /\ ~PairLoads(i))

\* Fault: a file that does not parse is used.
KeyRefused_Lenient(i) ==
  \/ config[i].key = "missing"
  \/ config[i].key = "none" /\ config[i].multi

\* loadBrokerSigningKey throws.
KeyRefused(i) ==
  \/ config[i].key = "missing"
  \/ config[i].key = "none" /\ (config[i].multi \/ disk[i].key = Torn)

-----------------------------------------------------------------------------
(* startServer *)

Go(i, place) == pc' = [pc EXCEPT ![i] = place]

Start(i) ==
  /\ pc[i] \in Ended
  /\ Go(i, "cert")
  /\ mem' = [mem EXCEPT ![i] = Nothing]
  /\ UNCHANGED <<config, disk, crashes, announced, checked>>

\* resolveMtlsCert, up to the generated pair.
ResolveCert(i) ==
  /\ pc[i] = "cert"
  /\ \/ /\ CertRefused(i)
        /\ Go(i, "failed") /\ UNCHANGED mem
     \/ /\ ~CertRefused(i) /\ config[i].cert = "shared"
        /\ Go(i, "key") /\ mem' = [mem EXCEPT ![i].cert = Shared, ![i].certKey = Shared]
     \/ /\ ~CertRefused(i) /\ config[i].cert = "none" /\ HasPair(i)
        /\ Go(i, "key")
        /\ mem' = [mem EXCEPT ![i].cert = disk[i].cert, ![i].certKey = disk[i].certKey]
     \/ /\ ~CertRefused(i) /\ config[i].cert = "none" /\ ~HasPair(i)
        /\ Go(i, "writeCert")
        /\ mem' = [mem EXCEPT ![i].cert = Fresh(i), ![i].certKey = Fresh(i)]
  /\ UNCHANGED <<config, disk, crashes, announced, checked>>

\* The two writes of the pair: certificate, then key.
WriteCert(i) ==
  /\ pc[i] = "writeCert"
  /\ IF config[i].writable
     THEN Go(i, "writeCertKey") /\ disk' = [disk EXCEPT ![i].cert = mem[i].cert]
     ELSE Go(i, "failed") /\ UNCHANGED disk
  /\ UNCHANGED <<config, mem, crashes, announced, checked>>

WriteCertKey(i) ==
  /\ pc[i] = "writeCertKey"
  /\ Go(i, "key")
  /\ disk' = [disk EXCEPT ![i].certKey = mem[i].certKey]
  /\ UNCHANGED <<config, mem, crashes, announced, checked>>

\* loadBrokerSigningKey, up to the generated key.
LoadKey(i) ==
  /\ pc[i] = "key"
  /\ \/ /\ KeyRefused(i)
        /\ Go(i, "failed") /\ UNCHANGED mem
     \/ /\ ~KeyRefused(i) /\ config[i].key = "shared"
        /\ Go(i, "listen") /\ mem' = [mem EXCEPT ![i].key = Shared]
     \/ /\ ~KeyRefused(i) /\ config[i].key = "none" /\ disk[i].key # Absent
        /\ Go(i, "listen") /\ mem' = [mem EXCEPT ![i].key = disk[i].key]
     \/ /\ ~KeyRefused(i) /\ config[i].key = "none" /\ disk[i].key = Absent
        /\ Go(i, "writeKey") /\ mem' = [mem EXCEPT ![i].key = Fresh(i)]
  /\ UNCHANGED <<config, disk, crashes, announced, checked>>

\* Fault: the key is used and not kept.
WriteKey_Skipped(i) ==
  /\ pc[i] = "writeKey"
  /\ Go(i, "listen")
  /\ UNCHANGED <<config, disk, mem, crashes, announced, checked>>

WriteKey(i) ==
  /\ pc[i] = "writeKey"
  /\ IF config[i].writable
     THEN Go(i, "listen") /\ disk' = [disk EXCEPT ![i].key = mem[i].key]
     ELSE Go(i, "failed") /\ UNCHANGED disk
  /\ UNCHANGED <<config, mem, crashes, announced, checked>>

\* The public listener is bound, or refused.
Listen(i) ==
  /\ pc[i] = "listen"
  /\ Go(i, "listenMtls") \/ Go(i, "portRefused")
  /\ UNCHANGED <<config, disk, mem, crashes, announced, checked>>

\* So is then the mTLS listener, on which daemons connect; with it the process
\* gives up the other one.
ListenMtls(i) ==
  /\ pc[i] = "listenMtls"
  /\ \/ /\ Go(i, "up")
        /\ announced' = [announced EXCEPT ![i] =
                           @ \cup {[cert |-> mem[i].cert, key |-> mem[i].key]}]
     \/ Go(i, "portRefused") /\ UNCHANGED announced
  /\ UNCHANGED <<config, disk, mem, crashes, checked>>

\* The process ends when it is told to, and its directory stays.
Stop(i) ==
  /\ pc[i] = "up"
  /\ Go(i, "down")
  /\ UNCHANGED <<config, disk, mem, crashes, announced, checked>>

\* It ends anywhere; during a write the file may be left torn.
Crash(i) ==
  /\ pc[i] \notin Ended
  /\ crashes < MaxCrashes
  /\ crashes' = crashes + 1
  /\ Go(i, "down")
  /\ checked' = [checked EXCEPT ![i] = FALSE]
  /\ \/ UNCHANGED disk
     \/ /\ config[i].writable
        /\ \/ pc[i] = "writeCert" /\ disk' = [disk EXCEPT ![i].cert = Torn]
           \/ pc[i] = "writeCertKey" /\ disk' = [disk EXCEPT ![i].certKey = Torn]
           \/ pc[i] = "writeKey" /\ disk' = [disk EXCEPT ![i].key = Torn]
  /\ UNCHANGED <<config, mem, announced>>

\* Fault: the check stops after the certificate.
Check_SkipsKey(i) ==
  /\ checked' = [checked EXCEPT ![i] = ~CertRefused(i)]
  /\ UNCHANGED <<config, disk, pc, mem, crashes, announced>>

\* `--check`: the same decisions with generated material that is not written.
\* Its reads are taken together.
Check(i) ==
  /\ checked' = [checked EXCEPT ![i] = ~CertRefused(i) /\ ~KeyRefused(i)]
  /\ UNCHANGED <<config, disk, pc, mem, crashes, announced>>

-----------------------------------------------------------------------------

StartUp(i) ==
  \/ ResolveCert(i) \/ WriteCert(i) \/ WriteCertKey(i)
  \/ LoadKey(i) \/ WriteKey(i) \/ Listen(i) \/ ListenMtls(i)

Next ==
  \E i \in Instances :
    \/ Start(i)
    \/ ResolveCert(i)
    \/ WriteCert(i)
    \/ WriteCertKey(i)
    \/ LoadKey(i)
    \/ WriteKey(i)
    \/ Listen(i)
    \/ ListenMtls(i)
    \/ Stop(i)
    \/ Crash(i)
    \/ Check(i)

Spec == Init /\ [][Next]_vars

\* startServer runs on; that anybody starts it again is not assumed.
FairSpec == Spec /\ \A i \in Instances : WF_vars(StartUp(i))

-----------------------------------------------------------------------------
(* Properties *)

\* The key and the certificate daemons have seen never change by themselves,
\* through any crashes, restarts and checks ("a persistent self-signed dev
\* cert"; a silent rotation "would invalidate delivery signatures").
IdentityIsStable ==
  \A i \in Instances : \A a, b \in announced[i] : a = b

\* Instances that declare a multi-instance deployment present one identity
\* (multi_instance, config.ts), given that the operator hands them the same.
FleetPresentsOneIdentity ==
  \A i, j \in Instances :
    config[i].multi /\ config[j].multi => \A a \in announced[i], b \in announced[j] : a = b

\* Nothing the operator configured is missing, what has to be generated may be
\* generated and kept, and no file in use is torn.
Startable(i) ==
  LET c == config[i] IN
  /\ "missing" \notin {c.cert, c.key}
  /\ c.multi => c.cert = "shared" /\ c.key = "shared"
  /\ "none" \in {c.cert, c.key} => c.writable
  /\ Torn \notin {disk[i].certKey, disk[i].key}
  /\ disk[i].cert = Torn => disk[i].certKey = Absent

\* No crash between the three writes leaves a broker that cannot start, and
\* nor does one inside the first; only a torn private key does.  A start from
\* what they left comes up, unless a port is refused to it or it crashes again.
ComesUp ==
  \A i \in Instances :
    pc[i] = "cert" /\ Startable(i) ~> pc[i] \in {"up", "portRefused", "down"}

\* A check that passed means that until a crash no start fails before it
\* listens, also one that was under way while the check read the files: dryRun
\* wires everything "so config-shape and disk/permission errors surface"
\* (start.ts).  What it cannot surface is a working directory that cannot be
\* written, since it writes nothing, and a port that will be refused, since it
\* returns before it listens.
CheckPredictsStart ==
  \A i \in Instances : checked[i] /\ config[i].writable => pc[i] # "failed"

=============================================================================
