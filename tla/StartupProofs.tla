--------------------------- MODULE StartupProofs ---------------------------
(***************************************************************************)
(* Proofs about Startup for every set of instances and configurations and  *)
(* every number of crashes.                                                *)
(*                                                                         *)
(* The inductive invariant IInv adds to TypeOK                             *)
(*   DiskInv       the order of the two writes of a pair;                  *)
(*   ProcessInv    what a process has loaded is what a restart will load;  *)
(*   AnnouncedInv  what daemons have seen is still there to be loaded;     *)
(*   CheckInv      what passed a check stays usable until a crash.         *)
(***************************************************************************)
EXTENDS Startup, FiniteSetTheorems, TLAPS

Usable(m) == m \notin {Absent, Torn}
Generated(m) == m \in Instances \X Nat

CertReady(i) ==
  \/ config[i].cert = "shared" /\ mem[i].cert = Shared /\ mem[i].certKey = Shared
  \/ /\ config[i].cert = "none" /\ ~config[i].multi
     /\ mem[i].cert = disk[i].cert /\ mem[i].certKey = disk[i].cert
     /\ disk[i].certKey = disk[i].cert
     /\ Usable(disk[i].cert)

KeyReady(i) ==
  \/ config[i].key = "shared" /\ mem[i].key = Shared
  \/ /\ config[i].key = "none" /\ ~config[i].multi
     /\ mem[i].key = disk[i].key
     /\ Usable(disk[i].key)

DiskInv == \A i \in Instances : disk[i].cert = Absent => disk[i].certKey = Absent

ProcessInv ==
  \A i \in Instances :
    /\ pc[i] \in {"key", "writeKey", "listen", "listenMtls", "up"} => CertReady(i)
    /\ pc[i] \in {"listen", "listenMtls", "up"} => KeyReady(i)
    /\ pc[i] \in {"writeCert", "writeCertKey"} =>
         /\ config[i].cert = "none" /\ ~config[i].multi
         /\ mem[i].certKey = mem[i].cert
         /\ Generated(mem[i].cert)
         /\ disk[i].certKey = Absent
    /\ pc[i] = "writeCertKey" => disk[i].cert = mem[i].cert
    /\ pc[i] = "writeKey" =>
         /\ config[i].key = "none" /\ ~config[i].multi
         /\ Generated(mem[i].key)
         /\ disk[i].key = Absent

AnnouncedInv ==
  \A i \in Instances : \A a \in announced[i] :
    /\ \/ config[i].cert = "shared" /\ a.cert = Shared
       \/ /\ config[i].cert = "none" /\ ~config[i].multi
          /\ a.cert = disk[i].cert /\ disk[i].certKey = disk[i].cert
          /\ Usable(disk[i].cert)
    /\ \/ config[i].key = "shared" /\ a.key = Shared
       \/ /\ config[i].key = "none" /\ ~config[i].multi
          /\ a.key = disk[i].key
          /\ Usable(disk[i].key)

\* A start would not be refused now.
Accepted(i) == ~CertRefused(i) /\ ~KeyRefused(i)

CheckInv ==
  \A i \in Instances : config[i].writable =>
    /\ checked[i] => Accepted(i)
    /\ pc[i] = "failed" => ~Accepted(i)

IInv == TypeOK /\ DiskInv /\ ProcessInv /\ AnnouncedInv /\ CheckInv

-----------------------------------------------------------------------------
(* Material *)

\* The origins are told apart.
LEMMA OriginsDiffer ==
  /\ Usable(Shared) /\ Shared \in Material
  /\ \A m : Generated(m) => Usable(m) /\ m \in Material /\ m \in Contents
BY StartupAssumption DEF Usable, Generated, Shared, Absent, Torn, Material, Contents

\* What is generated is n-th material of the instance: one number is free,
\* since an instance holds finitely many.
LEMMA FreshIsMaterial ==
  ASSUME TypeOK, AnnouncedInv, NEW i \in Instances
  PROVE  Generated(Fresh(i))
<1> DEFINE seen == UNION {{a.cert, a.key} : a \in announced[i]}
           held == {disk[i].cert, disk[i].certKey, disk[i].key,
                    mem[i].cert, mem[i].certKey, mem[i].key} \cup seen
           free == {n \in 1 .. Cardinality(held) + 1 : <<i, n>> \notin held}
<1>1. IsFiniteSet(held)
  <2>1. IsFiniteSet(seen)
    <3>1. CASE announced[i] = {}
      BY <3>1, FS_EmptySet
    <3>2. ASSUME NEW b \in announced[i] PROVE IsFiniteSet(seen)
      <4>1. \A a \in announced[i] : a.cert = b.cert /\ a.key = b.key
        BY <3>2 DEF AnnouncedInv
      <4>2. seen \subseteq {b.cert, b.key}
        BY <4>1
      <4>3. IsFiniteSet({b.cert} \cup {b.key})
        BY FS_EmptySet, FS_AddElement, FS_Singleton
      <4> QED
        BY <4>2, <4>3, FS_Subset, {b.cert, b.key} = {b.cert} \cup {b.key}
    <3> QED
      BY <3>1, <3>2
  <2>2. IsFiniteSet({disk[i].cert, disk[i].certKey, disk[i].key,
                     mem[i].cert, mem[i].certKey, mem[i].key})
    <3>1. \A x, y, z : IsFiniteSet({x, y, z})
      <4> SUFFICES ASSUME NEW x, NEW y, NEW z PROVE IsFiniteSet({x, y, z})
        OBVIOUS
      <4>1. IsFiniteSet({x} \cup {y})
        BY FS_Singleton, FS_AddElement
      <4>2. IsFiniteSet(({x} \cup {y}) \cup {z})
        BY <4>1, FS_AddElement
      <4> QED
        BY <4>2, {x, y, z} = ({x} \cup {y}) \cup {z}
    <3>2. IsFiniteSet({disk[i].cert, disk[i].certKey, disk[i].key}
                        \cup {mem[i].cert, mem[i].certKey, mem[i].key})
      BY <3>1, FS_Union
    <3>3. {disk[i].cert, disk[i].certKey, disk[i].key, mem[i].cert, mem[i].certKey, mem[i].key}
            = {disk[i].cert, disk[i].certKey, disk[i].key}
                \cup {mem[i].cert, mem[i].certKey, mem[i].key}
      OBVIOUS
    <3> QED
      BY <3>2, <3>3
  <2> QED
    BY <2>1, <2>2, FS_Union
<1> HIDE DEF seen, held
<1>2. Cardinality(held) \in Nat
  BY <1>1, FS_CardinalityType
<1>3. free # {}
  <2> SUFFICES ASSUME \A n \in 1 .. Cardinality(held) + 1 : <<i, n>> \in held PROVE FALSE
    OBVIOUS
  <2> DEFINE f == [n \in 1 .. Cardinality(held) + 1 |-> <<i, n>>]
  <2>1. /\ IsFiniteSet(1 .. Cardinality(held) + 1)
        /\ Cardinality(1 .. Cardinality(held) + 1) = Cardinality(held) + 1
    BY <1>2, FS_Interval
  <2>2. f \in [1 .. Cardinality(held) + 1 -> held]
    OBVIOUS
  <2>3. \E x, y \in 1 .. Cardinality(held) + 1 : x # y /\ f[x] = f[y]
    <3> HIDE DEF f
    <3> QED
      BY <1>1, <1>2, <2>1, <2>2, FS_PigeonHole
  <2> QED
    BY <2>3
<1>4. Fresh(i) = <<i, CHOOSE n \in 1 .. Cardinality(held) + 1 : <<i, n>> \notin held>>
  BY DEF Fresh, seen, held
<1> QED
  BY <1>2, <1>3, <1>4 DEF Generated

-----------------------------------------------------------------------------
(* Initially, and type correctness *)

LEMMA InitIInv == Init => IInv
<1> SUFFICES ASSUME Init PROVE IInv
  OBVIOUS
<1>1. TypeOK
  BY StartupAssumption
     DEF Init, TypeOK, Nothing, Places, Contents, Material, Absent
<1>2. DiskInv /\ ProcessInv /\ AnnouncedInv /\ CheckInv
  BY DEF Init, DiskInv, ProcessInv, AnnouncedInv, CheckInv, Nothing
<1> QED
  BY <1>1, <1>2 DEF IInv

MemType == [cert : Material \cup {Absent}, certKey : Material \cup {Absent},
            key : Material \cup {Absent}]
DiskType == [cert : Contents, certKey : Contents, key : Contents]

\* A process that is not up any more, or not yet, has nothing to have loaded.
LEMMA MemStays ==
  ASSUME TypeOK, NEW i \in Instances, NEW place \in Places \ {"up"},
         pc' = [pc EXCEPT ![i] = place],
         mem' \in [Instances -> MemType], \A k \in Instances \ {i} : mem'[k] = mem[k]
  PROVE  /\ pc' \in [Instances -> Places]
         /\ \A k \in Instances : pc'[k] = "up" =>
              Absent \notin {mem'[k].cert, mem'[k].certKey, mem'[k].key}
<1>1. \A k \in Instances : pc'[k] = "up" => k # i /\ pc[k] = "up"
  BY DEF TypeOK
<1> QED
  BY <1>1 DEF TypeOK

LEMMA NextTypeOK == IInv /\ [Next]_vars => TypeOK'
<1> SUFFICES ASSUME IInv, [Next]_vars PROVE TypeOK'
  OBVIOUS
<1> USE OriginsDiffer, StartupAssumption DEF Go
<1>0. /\ TypeOK /\ AnnouncedInv /\ ProcessInv
      /\ mem \in [Instances -> MemType] /\ disk \in [Instances -> DiskType]
      /\ Absent \in Contents /\ Torn \in Contents
      /\ \A place \in {"down", "cert", "writeCert", "writeCertKey", "key", "writeKey",
                       "listen", "listenMtls", "failed", "portRefused"} : place \in Places \ {"up"}
  BY DEF IInv, TypeOK, MemType, DiskType, Contents, Places
<1>1. ASSUME NEW i \in Instances, Start(i) PROVE TypeOK'
  <2>1. Nothing \in MemType /\ mem' \in [Instances -> MemType]
    BY <1>0, <1>1 DEF Start, Nothing, MemType
  <2> QED
    BY <1>0, <1>1, <2>1, MemStays DEF Start, TypeOK, MemType
<1>2. ASSUME NEW i \in Instances, ResolveCert(i) PROVE TypeOK'
  <2>1. ASSUME NEW c \in Material, NEW k \in Material, NEW place \in Places \ {"up"},
               mem' = [mem EXCEPT ![i].cert = c, ![i].certKey = k],
               pc' = [pc EXCEPT ![i] = place]
        PROVE  TypeOK'
    <3>1. mem' \in [Instances -> MemType]
      BY <1>0, <2>1 DEF MemType
    <3>2. \A j \in Instances \ {i} : mem'[j] = mem[j]
      BY <1>0, <2>1
    <3> QED
      BY <1>0, <1>2, <2>1, <3>1, <3>2, MemStays DEF ResolveCert, TypeOK, MemType
  <2>2. CASE CertRefused(i)
    BY <1>0, <1>2, <2>2, MemStays DEF ResolveCert, TypeOK, MemType
  <2>3. CASE ~CertRefused(i) /\ config[i].cert = "shared"
    BY <1>0, <1>2, <2>1, <2>3 DEF ResolveCert
  <2>4. CASE ~CertRefused(i) /\ config[i].cert = "none" /\ HasPair(i)
    <3>1. disk[i].cert \in Material /\ disk[i].certKey \in Material
      BY <1>0, <2>4 DEF HasPair, CertRefused, PairLoads, Contents, Material, DiskType
    <3> QED
      BY <1>0, <1>2, <2>1, <2>4, <3>1 DEF ResolveCert
  <2>5. CASE ~CertRefused(i) /\ config[i].cert = "none" /\ ~HasPair(i)
    <3>1. Fresh(i) \in Material
      BY <1>0, FreshIsMaterial
    <3> QED
      BY <1>0, <1>2, <2>1, <2>5, <3>1 DEF ResolveCert
  <2> QED
    BY <1>2, <2>2, <2>3, <2>4, <2>5 DEF ResolveCert
<1>3. ASSUME NEW i \in Instances, WriteCert(i) \/ WriteCertKey(i) \/ WriteKey(i) PROVE TypeOK'
  <2>1. disk' \in [Instances -> DiskType]
    <3>1. CASE WriteCert(i)
      <4>1. mem[i].cert \in Contents
        BY <1>0, <3>1 DEF WriteCert, ProcessInv
      <4> QED
        BY <1>0, <3>1, <4>1 DEF WriteCert, DiskType
    <3>2. CASE WriteCertKey(i)
      <4>1. mem[i].certKey \in Contents
        BY <1>0, <3>2 DEF WriteCertKey, ProcessInv
      <4> QED
        BY <1>0, <3>2, <4>1 DEF WriteCertKey, DiskType
    <3>3. CASE WriteKey(i)
      <4>1. mem[i].key \in Contents
        BY <1>0, <3>3 DEF WriteKey, ProcessInv
      <4> QED
        BY <1>0, <3>3, <4>1 DEF WriteKey, DiskType
    <3> QED
      BY <1>3, <3>1, <3>2, <3>3
  <2>2. PICK place \in Places \ {"up"} : pc' = [pc EXCEPT ![i] = place]
    BY <1>0, <1>3 DEF WriteCert, WriteCertKey, WriteKey
  <2>3. UNCHANGED <<config, mem, crashes, announced, checked>>
    BY <1>3 DEF WriteCert, WriteCertKey, WriteKey
  <2> QED
    BY <1>0, <2>1, <2>2, <2>3, MemStays DEF TypeOK, MemType, DiskType
<1>4. ASSUME NEW i \in Instances, LoadKey(i) PROVE TypeOK'
  <2>1. ASSUME NEW k \in Material, NEW place \in Places \ {"up"},
               mem' = [mem EXCEPT ![i].key = k], pc' = [pc EXCEPT ![i] = place]
        PROVE  TypeOK'
    <3>1. mem' \in [Instances -> MemType]
      BY <1>0, <2>1 DEF MemType
    <3>2. \A j \in Instances \ {i} : mem'[j] = mem[j]
      BY <1>0, <2>1
    <3> QED
      BY <1>0, <1>4, <2>1, <3>1, <3>2, MemStays DEF LoadKey, TypeOK, MemType
  <2>2. CASE KeyRefused(i)
    BY <1>0, <1>4, <2>2, MemStays DEF LoadKey, TypeOK, MemType
  <2>3. CASE ~KeyRefused(i) /\ config[i].key = "shared"
    BY <1>0, <1>4, <2>1, <2>3 DEF LoadKey
  <2>4. CASE ~KeyRefused(i) /\ config[i].key = "none" /\ disk[i].key # Absent
    <3>1. disk[i].key \in Material
      BY <1>0, <2>4 DEF KeyRefused, Contents, Material, DiskType
    <3> QED
      BY <1>0, <1>4, <2>1, <2>4, <3>1 DEF LoadKey
  <2>5. CASE ~KeyRefused(i) /\ config[i].key = "none" /\ disk[i].key = Absent
    <3>1. Fresh(i) \in Material
      BY <1>0, FreshIsMaterial
    <3> QED
      BY <1>0, <1>4, <2>1, <2>5, <3>1 DEF LoadKey
  <2> QED
    BY <1>4, <2>2, <2>3, <2>4, <2>5 DEF LoadKey
<1>6. ASSUME NEW i \in Instances, ListenMtls(i) PROVE TypeOK'
  <2>1. Usable(mem[i].cert) /\ Usable(mem[i].certKey) /\ Usable(mem[i].key)
    BY <1>0, <1>6 DEF ListenMtls, ProcessInv, CertReady, KeyReady
  <2>2. [cert |-> mem[i].cert, key |-> mem[i].key] \in [cert : Material, key : Material]
    BY <1>0, <2>1 DEF Usable, MemType
  <2>3. announced' \in [Instances -> SUBSET [cert : Material, key : Material]]
    BY <1>0, <1>6, <2>2 DEF ListenMtls, TypeOK
  <2> QED
    BY <1>0, <1>6, <2>1, <2>3 DEF ListenMtls, Usable, TypeOK, Places
<1>7. ASSUME NEW i \in Instances, Stop(i) \/ Listen(i) PROVE TypeOK'
  <2>1. PICK place \in Places \ {"up"} : pc' = [pc EXCEPT ![i] = place]
    BY <1>0, <1>7 DEF Stop, Listen
  <2>2. UNCHANGED <<config, disk, mem, crashes, announced, checked>>
    BY <1>7 DEF Stop, Listen
  <2> QED
    BY <1>0, <2>1, <2>2, MemStays DEF TypeOK, MemType
<1>8. ASSUME NEW i \in Instances, Check(i) PROVE TypeOK'
  BY <1>8, <1>0 DEF Check, TypeOK
<1>9. ASSUME NEW i \in Instances, Crash(i) PROVE TypeOK'
  <2>1. crashes' \in 0 .. MaxCrashes
    BY <1>0, <1>9 DEF Crash, TypeOK
  <2>2. disk' \in [Instances -> DiskType]
    BY <1>0, <1>9 DEF Crash, DiskType
  <2> QED
    BY <1>0, <1>9, <2>1, <2>2, MemStays DEF Crash, TypeOK, MemType, DiskType
<1>10. CASE UNCHANGED vars
  BY <1>0, <1>10 DEF vars, TypeOK
<1> QED
  BY <1>1, <1>2, <1>3, <1>4, <1>6, <1>7, <1>8, <1>9, <1>10 DEF Next

-----------------------------------------------------------------------------
(* The other parts: a step of one instance *)

\* The part of the invariant about instance i.
Inv(i) ==
  /\ disk[i].cert = Absent => disk[i].certKey = Absent
  /\ pc[i] \in {"key", "writeKey", "listen", "listenMtls", "up"} => CertReady(i)
  /\ pc[i] \in {"listen", "listenMtls", "up"} => KeyReady(i)
  /\ pc[i] \in {"writeCert", "writeCertKey"} =>
       /\ config[i].cert = "none" /\ ~config[i].multi
       /\ mem[i].certKey = mem[i].cert
       /\ Generated(mem[i].cert)
       /\ disk[i].certKey = Absent
  /\ pc[i] = "writeCertKey" => disk[i].cert = mem[i].cert
  /\ pc[i] = "writeKey" =>
       /\ config[i].key = "none" /\ ~config[i].multi
       /\ Generated(mem[i].key)
       /\ disk[i].key = Absent
  /\ \A a \in announced[i] :
       /\ \/ config[i].cert = "shared" /\ a.cert = Shared
          \/ /\ config[i].cert = "none" /\ ~config[i].multi
             /\ a.cert = disk[i].cert /\ disk[i].certKey = disk[i].cert
             /\ Usable(disk[i].cert)
       /\ \/ config[i].key = "shared" /\ a.key = Shared
          \/ /\ config[i].key = "none" /\ ~config[i].multi
             /\ a.key = disk[i].key
             /\ Usable(disk[i].key)
  /\ config[i].writable =>
       /\ checked[i] => Accepted(i)
       /\ pc[i] = "failed" => ~Accepted(i)

LEMMA InvParts ==
  (\A i \in Instances : Inv(i)) <=> DiskInv /\ ProcessInv /\ AnnouncedInv /\ CheckInv
BY DEF Inv, DiskInv, ProcessInv, AnnouncedInv, CheckInv

\* An instance none of whose variables change keeps its part.
LEMMA InvStays ==
  ASSUME NEW k \in Instances, Inv(k),
         config'[k] = config[k], disk'[k] = disk[k], pc'[k] = pc[k], mem'[k] = mem[k],
         announced'[k] = announced[k], checked'[k] = checked[k]
  PROVE  Inv(k)'
BY DEF Inv, CertReady, KeyReady, Accepted, CertRefused, KeyRefused, HasPair, PairLoads

StepOf(i) ==
  \/ Start(i) \/ ResolveCert(i) \/ WriteCert(i) \/ WriteCertKey(i) \/ LoadKey(i)
  \/ WriteKey(i) \/ Listen(i) \/ ListenMtls(i) \/ Stop(i) \/ Crash(i) \/ Check(i)

\* A step of an instance leaves the others alone.
LEMMA OthersStay ==
  ASSUME TypeOK, NEW i \in Instances, StepOf(i), NEW k \in Instances \ {i}
  PROVE  /\ config'[k] = config[k] /\ disk'[k] = disk[k] /\ pc'[k] = pc[k]
         /\ mem'[k] = mem[k] /\ announced'[k] = announced[k] /\ checked'[k] = checked[k]
<1> USE DEF TypeOK, Go
<1>1. CASE Start(i) \/ Stop(i) \/ Check(i) \/ Listen(i) \/ ListenMtls(i)
  BY <1>1 DEF Start, Stop, Check, Listen, ListenMtls
<1>2. CASE ResolveCert(i) \/ LoadKey(i)
  BY <1>2 DEF ResolveCert, LoadKey
<1>3. CASE WriteCert(i) \/ WriteCertKey(i) \/ WriteKey(i)
  BY <1>3 DEF WriteCert, WriteCertKey, WriteKey
<1>4. CASE Crash(i)
  BY <1>4 DEF Crash
<1> QED
  BY <1>1, <1>2, <1>3, <1>4 DEF StepOf

\* What is accepted depends on the configuration and the files alone.
LEMMA AcceptedStays ==
  ASSUME NEW i \in Instances, config'[i] = config[i], disk'[i] = disk[i]
  PROVE  Accepted(i)' <=> Accepted(i)
BY DEF Accepted, CertRefused, KeyRefused, HasPair, PairLoads

LEMMA StepInv ==
  ASSUME IInv, NEW i \in Instances, StepOf(i) PROVE Inv(i)'
<1> USE OriginsDiffer DEF Go
<1>0. /\ TypeOK /\ AnnouncedInv /\ Inv(i)
      /\ config \in [Instances -> ConfigType]
      /\ mem \in [Instances -> MemType] /\ disk \in [Instances -> DiskType]
      /\ pc \in [Instances -> Places] /\ checked \in [Instances -> BOOLEAN]
      /\ announced \in [Instances -> SUBSET [cert : Material, key : Material]]
  BY InvParts, StartupAssumption DEF IInv, TypeOK, MemType, DiskType
<1>1. CASE Start(i) \/ Stop(i)
  <2>1. /\ UNCHANGED <<config, disk, announced, checked>>
        /\ pc'[i] \in {"cert", "down"}
    BY <1>0, <1>1 DEF Start, Stop
  <2> QED
    BY <1>0, <2>1, AcceptedStays DEF Inv
<1>2. CASE ResolveCert(i)
  <2>1. UNCHANGED <<config, disk, announced, checked>> /\ pc[i] = "cert"
    BY <1>2 DEF ResolveCert
  <2>2. CASE CertRefused(i)
    BY <1>0, <1>2, <2>1, <2>2, AcceptedStays DEF ResolveCert, Inv, Accepted
  <2>3. CASE ~CertRefused(i) /\ config[i].cert = "shared"
    <3>1. pc'[i] = "key" /\ mem'[i].cert = Shared /\ mem'[i].certKey = Shared
      BY <1>0, <1>2, <2>3 DEF ResolveCert, MemType
    <3> QED
      BY <1>0, <2>1, <2>3, <3>1, AcceptedStays DEF Inv, CertReady
  <2>4. CASE ~CertRefused(i) /\ config[i].cert = "none" /\ HasPair(i)
    <3>1. pc'[i] = "key" /\ mem'[i].cert = disk[i].cert /\ mem'[i].certKey = disk[i].certKey
      BY <1>0, <1>2, <2>4 DEF ResolveCert, MemType
    <3>2. /\ disk[i].certKey = disk[i].cert /\ Usable(disk[i].cert) /\ ~config[i].multi
      BY <1>0, <2>4 DEF CertRefused, HasPair, PairLoads, Usable, ConfigType
    <3> QED
      BY <1>0, <2>1, <2>4, <3>1, <3>2, AcceptedStays DEF Inv, CertReady
  <2>5. CASE ~CertRefused(i) /\ config[i].cert = "none" /\ ~HasPair(i)
    <3>1. pc'[i] = "writeCert" /\ mem'[i].cert = Fresh(i) /\ mem'[i].certKey = Fresh(i)
      BY <1>0, <1>2, <2>5 DEF ResolveCert, MemType
    <3>2. ~config[i].multi /\ disk[i].certKey = Absent
      BY <1>0, <2>5 DEF CertRefused, HasPair, Inv, ConfigType
    <3>3. Generated(Fresh(i))
      BY <1>0, FreshIsMaterial
    <3> QED
      BY <1>0, <2>1, <2>5, <3>1, <3>2, <3>3, AcceptedStays DEF Inv
  <2> QED
    BY <1>2, <2>2, <2>3, <2>4, <2>5 DEF ResolveCert
<1>3. CASE WriteCert(i)
  <2>1. UNCHANGED <<config, mem, announced, checked>> /\ pc[i] = "writeCert"
    BY <1>3 DEF WriteCert
  <2>2. /\ config[i].cert = "none" /\ ~config[i].multi /\ disk[i].certKey = Absent
        /\ mem[i].certKey = mem[i].cert /\ Generated(mem[i].cert)
    BY <1>0, <2>1 DEF Inv
  <2>3. announced[i] = {}
    BY <1>0, <2>2 DEF Inv, Usable
  <2>4. CASE config[i].writable
    <3>1. /\ pc'[i] = "writeCertKey" /\ disk'[i].cert = mem[i].cert
          /\ disk'[i].certKey = Absent /\ disk'[i].key = disk[i].key
      BY <1>0, <1>3, <2>2, <2>4 DEF WriteCert, DiskType
    <3>2. Accepted(i)' <=> Accepted(i)
      BY <2>1, <2>2, <3>1 DEF Accepted, CertRefused, KeyRefused, HasPair
    <3>3. mem[i].cert # Absent
      BY <2>2 DEF Usable
    <3> QED
      BY <1>0, <2>1, <2>2, <2>3, <3>1, <3>2, <3>3 DEF Inv
  <2>5. CASE ~config[i].writable
    <3>1. pc'[i] = "failed" /\ UNCHANGED disk
      BY <1>0, <1>3, <2>5 DEF WriteCert
    <3> QED
      BY <1>0, <2>1, <2>3, <2>5, <3>1 DEF Inv
  <2> QED
    BY <2>4, <2>5
<1>4. CASE WriteCertKey(i)
  <2>1. UNCHANGED <<config, mem, announced, checked>> /\ pc[i] = "writeCertKey" /\ pc'[i] = "key"
    BY <1>0, <1>4 DEF WriteCertKey
  <2>2. /\ config[i].cert = "none" /\ ~config[i].multi /\ disk[i].certKey = Absent
        /\ mem[i].certKey = mem[i].cert /\ Generated(mem[i].cert) /\ disk[i].cert = mem[i].cert
    BY <1>0, <2>1 DEF Inv
  <2>3. announced[i] = {}
    BY <1>0, <2>2 DEF Inv, Usable
  <2>4. /\ disk'[i].cert = disk[i].cert /\ disk'[i].certKey = disk[i].cert
        /\ disk'[i].key = disk[i].key
    BY <1>0, <1>4, <2>2 DEF WriteCertKey, DiskType
  <2>5. Usable(disk[i].cert)
    BY <2>2
  <2>6. Accepted(i)' <=> Accepted(i)
    BY <2>1, <2>2, <2>4, <2>5
       DEF Accepted, CertRefused, KeyRefused, HasPair, PairLoads, Usable
  <2>7. CertReady(i)'
    BY <2>1, <2>2, <2>4, <2>5 DEF CertReady
  <2> QED
    BY <1>0, <2>1, <2>2, <2>3, <2>4, <2>5, <2>6, <2>7 DEF Inv, Usable
<1>5. CASE LoadKey(i)
  <2>1. UNCHANGED <<config, disk, announced, checked>> /\ pc[i] = "key" /\ CertReady(i)
    BY <1>0, <1>5 DEF LoadKey, Inv
  <2>2. CASE KeyRefused(i)
    BY <1>0, <1>5, <2>1, <2>2, AcceptedStays DEF LoadKey, Inv, Accepted
  <2>3. ASSUME NEW m, mem' = [mem EXCEPT ![i].key = m] PROVE CertReady(i)' /\ mem'[i].key = m
    BY <1>0, <2>1, <2>3 DEF CertReady, MemType
  <2>4. CASE ~KeyRefused(i) /\ config[i].key = "shared"
    <3>1. pc'[i] = "listen" /\ mem'[i].key = Shared /\ CertReady(i)'
      BY <1>0, <1>5, <2>3, <2>4 DEF LoadKey
    <3> QED
      BY <1>0, <2>1, <2>4, <3>1, AcceptedStays DEF Inv, KeyReady
  <2>5. CASE ~KeyRefused(i) /\ config[i].key = "none" /\ disk[i].key # Absent
    <3>1. pc'[i] = "listen" /\ mem'[i].key = disk[i].key /\ CertReady(i)'
      BY <1>0, <1>5, <2>3, <2>5 DEF LoadKey
    <3>2. Usable(disk[i].key) /\ ~config[i].multi
      BY <1>0, <2>5 DEF KeyRefused, Usable, ConfigType
    <3> QED
      BY <1>0, <2>1, <2>5, <3>1, <3>2, AcceptedStays DEF Inv, KeyReady
  <2>6. CASE ~KeyRefused(i) /\ config[i].key = "none" /\ disk[i].key = Absent
    <3>1. pc'[i] = "writeKey" /\ mem'[i].key = Fresh(i) /\ CertReady(i)'
      BY <1>0, <1>5, <2>3, <2>6 DEF LoadKey
    <3>2. Generated(Fresh(i)) /\ ~config[i].multi
      BY <1>0, <2>6, FreshIsMaterial DEF KeyRefused, ConfigType
    <3> QED
      BY <1>0, <2>1, <2>6, <3>1, <3>2, AcceptedStays DEF Inv
  <2> QED
    BY <1>5, <2>2, <2>4, <2>5, <2>6 DEF LoadKey
<1>6. CASE WriteKey(i)
  <2>1. UNCHANGED <<config, mem, announced, checked>> /\ pc[i] = "writeKey" /\ CertReady(i)
    BY <1>0, <1>6 DEF WriteKey, Inv
  <2>2. config[i].key = "none" /\ ~config[i].multi /\ Generated(mem[i].key) /\ disk[i].key = Absent
    BY <1>0, <2>1 DEF Inv
  <2>3. announced[i] = {}
    BY <1>0, <2>2 DEF Inv, Usable
  <2>4. CASE config[i].writable
    <3>1. /\ pc'[i] = "listen" /\ disk'[i].cert = disk[i].cert
          /\ disk'[i].certKey = disk[i].certKey /\ disk'[i].key = mem[i].key
      BY <1>0, <1>6, <2>4 DEF WriteKey, DiskType
    <3>2. Usable(mem[i].key)
      BY <2>2
    <3>3. Accepted(i) => Accepted(i)'
      BY <2>1, <2>2, <3>1, <3>2
         DEF Accepted, CertRefused, KeyRefused, HasPair, PairLoads, Usable
    <3>4. CertReady(i)' /\ KeyReady(i)'
      BY <2>1, <2>2, <3>1, <3>2 DEF CertReady, KeyReady
    <3> QED
      BY <1>0, <2>1, <2>3, <3>1, <3>3, <3>4 DEF Inv
  <2>5. CASE ~config[i].writable
    <3>1. pc'[i] = "failed" /\ UNCHANGED disk
      BY <1>0, <1>6, <2>5 DEF WriteKey
    <3> QED
      BY <1>0, <2>1, <2>3, <2>5, <3>1 DEF Inv
  <2> QED
    BY <2>4, <2>5
<1>7. CASE Listen(i) \/ ListenMtls(i)
  <2>1. /\ UNCHANGED <<config, disk, mem, checked>>
        /\ pc'[i] \in {"listenMtls", "up", "portRefused"}
        /\ CertReady(i) /\ KeyReady(i)
    BY <1>0, <1>7 DEF Listen, ListenMtls, Inv
  <2>2. announced'[i] \subseteq announced[i] \cup {[cert |-> mem[i].cert, key |-> mem[i].key]}
    BY <1>0, <1>7 DEF Listen, ListenMtls
  <2>3. CertReady(i)' /\ KeyReady(i)'
    BY <2>1 DEF CertReady, KeyReady
  <2> QED
    BY <1>0, <2>1, <2>2, <2>3, AcceptedStays DEF Inv, CertReady, KeyReady
<1>8. CASE Check(i)
  <2>1. /\ UNCHANGED <<config, disk, mem, pc, announced>>
        /\ checked'[i] = Accepted(i)
    BY <1>0, <1>8 DEF Check, Accepted
  <2>2. (CertReady(i)' <=> CertReady(i)) /\ (KeyReady(i)' <=> KeyReady(i))
    BY <2>1 DEF CertReady, KeyReady
  <2> QED
    BY <1>0, <2>1, <2>2, AcceptedStays DEF Inv
<1>9. CASE Crash(i)
  <2>1. /\ UNCHANGED <<config, mem, announced>> /\ pc'[i] = "down" /\ ~checked'[i]
        /\ pc[i] \in Places
    BY <1>0, <1>9 DEF Crash
  <2>2. CASE UNCHANGED disk
    BY <1>0, <2>1, <2>2 DEF Inv
  <2>3. CASE pc[i] = "writeCert" /\ disk' = [disk EXCEPT ![i].cert = Torn]
    <3>1. disk'[i].cert # Absent /\ disk'[i].certKey = Absent /\ announced[i] = {}
      BY <1>0, <2>3 DEF Inv, DiskType, Torn, Absent, Usable
    <3> QED
      BY <2>1, <3>1 DEF Inv
  <2>4. CASE pc[i] = "writeCertKey" /\ disk' = [disk EXCEPT ![i].certKey = Torn]
    <3>1. disk'[i].cert # Absent /\ announced[i] = {}
      BY <1>0, <2>4 DEF Inv, DiskType, Usable
    <3> QED
      BY <2>1, <3>1 DEF Inv
  <2>5. CASE pc[i] = "writeKey" /\ disk' = [disk EXCEPT ![i].key = Torn]
    <3>1. /\ disk'[i].cert = disk[i].cert /\ disk'[i].certKey = disk[i].certKey
          /\ announced[i] = {}
      BY <1>0, <2>5 DEF Inv, DiskType, Usable
    <3> QED
      BY <1>0, <2>1, <3>1 DEF Inv
  <2> QED
    BY <1>9, <2>2, <2>3, <2>4, <2>5 DEF Crash
<1> QED
  BY <1>1, <1>2, <1>3, <1>4, <1>5, <1>6, <1>7, <1>8, <1>9 DEF StepOf

-----------------------------------------------------------------------------
(* What keeps a broker from starting *)

\* A private key on disk is whole and fits its certificate, or is torn; and a
\* start that failed before it listened was not startable.
FailInv(i) ==
  /\ disk[i].certKey \in {Absent, Torn, disk[i].cert}
  /\ pc[i] = "failed" => ~Startable(i)

FailsForAReason == \A i \in Instances : pc[i] = "failed" => ~Startable(i)

LEMMA FailInvStays ==
  ASSUME NEW k \in Instances, FailInv(k),
         config'[k] = config[k], disk'[k] = disk[k], pc'[k] = pc[k] \/ pc'[k] # "failed"
  PROVE  FailInv(k)'
BY DEF FailInv, Startable

LEMMA StepFailInv ==
  ASSUME IInv, NEW i \in Instances, FailInv(i), StepOf(i) PROVE FailInv(i)'
<1> USE DEF Go
<1>0. /\ Inv(i) /\ config \in [Instances -> ConfigType]
      /\ mem \in [Instances -> MemType] /\ disk \in [Instances -> DiskType]
      /\ pc \in [Instances -> Places]
  BY InvParts, StartupAssumption DEF IInv, TypeOK, MemType, DiskType
<1>1. CASE Start(i) \/ Stop(i) \/ Check(i) \/ Listen(i) \/ ListenMtls(i)
  <2>1. UNCHANGED <<config, disk>> /\ (pc'[i] = pc[i] \/ pc'[i] # "failed")
    BY <1>0, <1>1 DEF Start, Stop, Check, Listen, ListenMtls
  <2> QED
    BY <2>1, FailInvStays
<1>2. CASE ResolveCert(i)
  <2>1. UNCHANGED <<config, disk>>
    BY <1>2 DEF ResolveCert
  <2>2. CASE CertRefused(i)
    <3>1. ~Startable(i)
      BY <1>0, <2>2 DEF CertRefused, HasPair, PairLoads, Startable, FailInv
    <3> QED
      BY <2>1, <3>1 DEF FailInv, Startable
  <2>3. CASE ~CertRefused(i)
    BY <1>0, <1>2, <2>1, <2>3, FailInvStays DEF ResolveCert
  <2> QED
    BY <2>2, <2>3
<1>3. CASE LoadKey(i)
  <2>1. UNCHANGED <<config, disk>>
    BY <1>3 DEF LoadKey
  <2>2. CASE KeyRefused(i)
    <3>1. ~Startable(i)
      BY <1>0, <2>2 DEF KeyRefused, Startable
    <3> QED
      BY <2>1, <3>1 DEF FailInv, Startable
  <2>3. CASE ~KeyRefused(i)
    BY <1>0, <1>3, <2>1, <2>3, FailInvStays DEF LoadKey
  <2> QED
    BY <2>2, <2>3
<1>4. CASE WriteCert(i) \/ WriteKey(i)
  <2>1. CASE config[i].writable
    <3>1. pc'[i] # "failed"
      BY <1>0, <1>4, <2>1 DEF WriteCert, WriteKey
    <3>2. disk'[i].certKey = disk[i].certKey
          /\ (disk'[i].cert = disk[i].cert \/ disk[i].certKey = Absent)
      BY <1>0, <1>4, <2>1 DEF WriteCert, WriteKey, DiskType, Inv
    <3> QED
      BY <3>1, <3>2 DEF FailInv
  <2>2. CASE ~config[i].writable
    <3>1. UNCHANGED <<config, disk>> /\ "none" \in {config[i].cert, config[i].key}
      BY <1>0, <1>4, <2>2 DEF WriteCert, WriteKey, Inv
    <3> QED
      BY <2>2, <3>1 DEF FailInv, Startable
  <2> QED
    BY <2>1, <2>2
<1>5. CASE WriteCertKey(i)
  <2>1. /\ pc'[i] = "key" /\ disk'[i].certKey = mem[i].certKey /\ disk'[i].cert = disk[i].cert
        /\ mem[i].certKey = mem[i].cert /\ disk[i].cert = mem[i].cert
    BY <1>0, <1>5 DEF WriteCertKey, Inv, DiskType
  <2> QED
    BY <2>1 DEF FailInv
<1>6. CASE Crash(i)
  <2>1. pc'[i] = "down"
    BY <1>0, <1>6 DEF Crash
  <2>2. disk'[i].certKey \in {Absent, Torn, disk'[i].cert}
    <3>1. CASE UNCHANGED disk
      BY <3>1 DEF FailInv
    <3>2. CASE pc[i] = "writeCert" /\ disk' = [disk EXCEPT ![i].cert = Torn]
      BY <1>0, <3>2 DEF Inv, DiskType
    <3>3. CASE pc[i] = "writeCertKey" /\ disk' = [disk EXCEPT ![i].certKey = Torn]
      BY <1>0, <3>3 DEF DiskType
    <3>4. CASE pc[i] = "writeKey" /\ disk' = [disk EXCEPT ![i].key = Torn]
      BY <1>0, <3>4 DEF DiskType, FailInv
    <3> QED
      BY <1>6, <3>1, <3>2, <3>3, <3>4 DEF Crash
  <2> QED
    BY <2>1, <2>2 DEF FailInv
<1> QED
  BY <1>1, <1>2, <1>3, <1>4, <1>5, <1>6 DEF StepOf

-----------------------------------------------------------------------------
(* The theorems *)

LEMMA NextIInv == IInv /\ [Next]_vars => IInv'
<1> SUFFICES ASSUME IInv, [Next]_vars PROVE IInv'
  OBVIOUS
<1>1. TypeOK'
  BY NextTypeOK
<1>2. \A k \in Instances : Inv(k)
  BY InvParts DEF IInv
<1>3. \A k \in Instances : Inv(k)'
  <2>1. ASSUME NEW i \in Instances, StepOf(i), NEW k \in Instances PROVE Inv(k)'
    <3>1. CASE k = i
      BY <2>1, <3>1, StepInv
    <3>2. CASE k # i
      BY <1>2, <2>1, <3>2, OthersStay, InvStays DEF IInv
    <3> QED
      BY <3>1, <3>2
  <2>2. CASE UNCHANGED vars
    BY <1>2, <2>2, InvStays DEF vars
  <2> QED
    BY <2>1, <2>2 DEF Next, StepOf
<1>4. DiskInv' /\ ProcessInv' /\ AnnouncedInv' /\ CheckInv'
  BY <1>3 DEF Inv, DiskInv, ProcessInv, AnnouncedInv, CheckInv
<1> QED
  BY <1>1, <1>4 DEF IInv

\* What a process has loaded, and what daemons have seen, is what a restart will
\* load; what passed a check stays usable until a crash.
THEOREM IInvHolds == Spec => []IInv
BY InitIInv, NextIInv, PTL DEF Spec

\* The state keeps its types: a process that is up has loaded everything.
THEOREM TypesHold == Spec => []TypeOK
<1>1. IInv => TypeOK
  BY DEF IInv
<1> QED
  BY <1>1, IInvHolds, PTL

\* No crashes, restarts and checks change what daemons hold on to.
THEOREM IdentityStays == Spec => []IdentityIsStable
<1>1. IInv => IdentityIsStable
  <2> SUFFICES ASSUME IInv, NEW i \in Instances, NEW a \in announced[i], NEW b \in announced[i]
               PROVE  a = b
    BY DEF IdentityIsStable
  <2>1. a.cert = b.cert /\ a.key = b.key
    BY DEF IInv, AnnouncedInv
  <2>2. a \in [cert : Material, key : Material] /\ b \in [cert : Material, key : Material]
    BY DEF IInv, TypeOK
  <2> QED
    BY <2>1, <2>2
<1> QED
  BY <1>1, IInvHolds, PTL

\* A fleet presents one identity.
THEOREM FleetIsOne == Spec => []FleetPresentsOneIdentity
<1>1. IInv => FleetPresentsOneIdentity
  <2> SUFFICES ASSUME IInv, NEW i \in Instances, NEW j \in Instances,
                      config[i].multi, config[j].multi,
                      NEW a \in announced[i], NEW b \in announced[j]
               PROVE  a = b
    BY DEF FleetPresentsOneIdentity
  <2>1. a.cert = Shared /\ b.cert = Shared /\ a.key = Shared /\ b.key = Shared
    BY DEF IInv, AnnouncedInv
  <2>2. a \in [cert : Material, key : Material] /\ b \in [cert : Material, key : Material]
    BY DEF IInv, TypeOK
  <2> QED
    BY <2>1, <2>2
<1> QED
  BY <1>1, IInvHolds, PTL

\* After a check that passed a start gets as far as its ports, unless a file
\* cannot be written or a crash intervened.
THEOREM ChecksPredictStarts == Spec => []CheckPredictsStart
<1>1. IInv => CheckPredictsStart
  BY DEF IInv, CheckInv, CheckPredictsStart
<1> QED
  BY <1>1, IInvHolds, PTL

\* The safety half of ComesUp: whatever crashes went before, a start fails before
\* it listens only when something configured is missing, what has to be generated
\* may not be or cannot be kept, or a private key was torn.
THEOREM StartsUnlessRefused == Spec => []FailsForAReason
<1> DEFINE AllFailInv == \A i \in Instances : FailInv(i)
<1>1. Init => AllFailInv
  BY DEF Init, FailInv, Nothing
<1>2. IInv /\ AllFailInv /\ [Next]_vars => AllFailInv'
  <2> SUFFICES ASSUME IInv, AllFailInv, [Next]_vars, NEW k \in Instances PROVE FailInv(k)'
    OBVIOUS
  <2>1. ASSUME NEW i \in Instances, StepOf(i) PROVE FailInv(k)'
    <3>1. CASE k = i
      BY <2>1, <3>1, StepFailInv
    <3>2. CASE k # i
      BY <2>1, <3>2, OthersStay, FailInvStays DEF IInv
    <3> QED
      BY <3>1, <3>2
  <2>2. CASE UNCHANGED vars
    BY <2>2, FailInvStays DEF vars
  <2> QED
    BY <2>1, <2>2 DEF Next, StepOf
<1>3. AllFailInv => FailsForAReason
  BY DEF FailInv, FailsForAReason
<1> HIDE DEF AllFailInv
<1> QED
  BY <1>1, <1>2, <1>3, IInvHolds, PTL DEF Spec

=============================================================================
