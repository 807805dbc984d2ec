--------------------------- MODULE ExtensionProofs ---------------------------
(***************************************************************************)
(* Theorems about what an installation runs beside the agent's process:    *)
(* for any services, ports and callers, what the registry named is not     *)
(* lost from it, and a lost write of it costs one process at most;         *)
(* for any catalogue, with one installation at a time, the executable that *)
(* a plugin's installation leaves on disk starts and is complete; for any  *)
(* codes, sockets and calls, the browser bridge, its sessions and the      *)
(* callers that wait on them agree, no command is carried out twice and no *)
(* lost socket costs the browser its pairing.                              *)
(***************************************************************************)
EXTENDS ServiceManager, PluginSet, BrowserBridge, FiniteSetTheorems,
        WellFoundedInduction, TLAPS

-----------------------------------------------------------------------------
(* Services.                                                                *)

\* What a restart has read is what a start can be asked for.
RestartsSound ==
  \A k \in Callers :
    restarting[k] = NotRestarting
      \/ restarting[k] \in [at : {"stop", "start"}, ask : StartArgs]

\* A process whose record was written and whose shell is there is the one its
\* service's record names, with the port it was recorded with.
ShellsRecorded ==
  \A p \in Pids : process[p] = "up" =>
    /\ owner[p] \in Owners
    /\ owner[p].noted => /\ Recorded(owner[p].name)
                         /\ registry[owner[p].name].pid = p
                         /\ registry[owner[p].name].port = owner[p].port

TablesOK ==
  /\ registry \in [Names -> Records \cup {NoRecord}]
  /\ process \in [Pids -> ProcessStates]
  /\ owner \in [Pids -> Owners \cup {Nobody}]
  /\ serving \in [Ports -> Pids \cup {0}]
  /\ lostWrites \in 0 .. MaxLostWrites

ShellsSound == ShellsRecorded /\ OnePerPort /\ OrphansAreFew

ServiceInv == ServiceTypeOK /\ RestartsSound /\ ShellsSound

\* There are finitely many processes, those nothing names among them.
LEMMA FewPids == IsFiniteSet(Pids) /\ IsFiniteSet(Orphans) /\ IsFiniteSet(Orphans')
<1>1. IsFiniteSet(Pids)
  BY ServiceAssumption, FS_Interval DEF Pids
<1>2. Orphans \subseteq Pids /\ Orphans' \subseteq Pids
  BY DEF Orphans
<1> QED
  BY <1>1, <1>2, FS_Subset

\* No process is lost from the registry.
LEMMA NoOrphanMore ==
  ASSUME ServiceInv, Orphans' \subseteq Orphans,
         \/ lostWrites' = lostWrites
         \/ LosesWrite
  PROVE  OrphansAreFew' /\ lostWrites' \in 0 .. MaxLostWrites
<1>1. /\ Cardinality(Orphans) <= lostWrites /\ lostWrites \in 0 .. MaxLostWrites
      /\ MaxLostWrites \in Nat
  BY ServiceAssumption DEF ServiceInv, ShellsSound, OrphansAreFew, ServiceTypeOK
<1>2. lostWrites <= lostWrites' /\ lostWrites' \in 0 .. MaxLostWrites
  BY <1>1 DEF LosesWrite
<1>3. Cardinality(Orphans') <= Cardinality(Orphans)
  BY FewPids, FS_Subset
<1>4. Cardinality(Orphans') \in Nat /\ Cardinality(Orphans) \in Nat
  BY FewPids, FS_CardinalityType
<1>5. Cardinality(Orphans') <= lostWrites'
  BY <1>1, <1>2, <1>3, <1>4
<1> QED
  BY <1>2, <1>5 DEF OrphansAreFew

\* One is, and a write with it.
LEMMA OneOrphanMore ==
  ASSUME ServiceInv, NEW x, Orphans' \subseteq Orphans \cup {x}, LosesWrite
  PROVE  OrphansAreFew' /\ lostWrites' \in 0 .. MaxLostWrites
<1>1. /\ Cardinality(Orphans) <= lostWrites /\ lostWrites \in 0 .. MaxLostWrites
      /\ MaxLostWrites \in Nat
  BY ServiceAssumption DEF ServiceInv, ShellsSound, OrphansAreFew, ServiceTypeOK
<1>2. lostWrites' = lostWrites + 1 /\ lostWrites' \in 0 .. MaxLostWrites
  BY <1>1 DEF LosesWrite
<1>3. /\ IsFiniteSet(Orphans \cup {x})
      /\ \/ Cardinality(Orphans \cup {x}) = Cardinality(Orphans)
         \/ Cardinality(Orphans \cup {x}) = Cardinality(Orphans) + 1
  BY FewPids, FS_AddElement
<1>4. Cardinality(Orphans') <= Cardinality(Orphans \cup {x})
  BY <1>3, FS_Subset
<1>5. Cardinality(Orphans') \in Nat /\ Cardinality(Orphans) \in Nat
  BY FewPids, FS_CardinalityType
<1>6. Cardinality(Orphans') <= lostWrites'
  BY <1>1, <1>2, <1>3, <1>4, <1>5
<1> QED
  BY <1>2, <1>6 DEF OrphansAreFew

\* There is a least pid among those not in use.
LEMMA NewPidUnused ==
  ASSUME Unused # {}
  PROVE  NewPid \in Unused
<1>1. Unused \in SUBSET Nat
  BY ServiceAssumption DEF Unused, Pids
<1>2. PICK x \in Unused : \A y \in Unused : <<y, x>> \notin OpToRel(<, Nat)
  BY <1>1, WFMin, NatLessThanWellFounded
<1>3. \A y \in Unused : x <= y
  <2> SUFFICES ASSUME NEW y \in Unused PROVE x <= y
    OBVIOUS
  <2>1. <<y, x>> \in Nat \X Nat
    BY <1>1
  <2>2. ~(y < x)
    BY <1>2, <2>1 DEF OpToRel
  <2> QED
    BY <1>1, <2>2
<1> QED
  BY <1>3 DEF NewPid

\* What a record holds.
LEMMA RecordedType ==
  ASSUME ServiceTypeOK, NEW n \in Names, Recorded(n)
  PROVE  registry[n] \in Records
BY DEF ServiceTypeOK, Recorded

\* Killing trees keeps the types.
LEMMA KilledTypes ==
  ASSUME ServiceTypeOK, NEW gone
  PROVE  /\ ProcWithout(gone) \in [Pids -> ProcessStates]
         /\ OwnerWithout(gone) \in [Pids -> Owners \cup {Nobody}]
         /\ ServingWithout(gone) \in [Ports -> Pids \cup {0}]
BY DEF ServiceTypeOK, ProcWithout, OwnerWithout, ServingWithout, ProcessStates

\* Shells that run on, as their records do.
LEMMA SameShells ==
  ASSUME ServiceInv, TablesOK',
         \A p \in Pids : process'[p] = "up" =>
           /\ process[p] = "up" /\ owner'[p] = owner[p]
           /\ owner[p].noted /\ Recorded(owner[p].name) =>
                LET r == registry'[owner[p].name]
                IN r # NoRecord /\ r.pid = registry[owner[p].name].pid
                   /\ r.port = registry[owner[p].name].port,
         \/ lostWrites' = lostWrites
         \/ LosesWrite
  PROVE  ShellsSound'
<1>1. ShellsRecorded /\ OnePerPort
  BY DEF ServiceInv, ShellsSound
<1>2. ShellsRecorded'
  BY <1>1 DEF ShellsRecorded, Recorded
<1>3. OnePerPort'
  BY <1>1 DEF OnePerPort, Noted
<1>4. Orphans' \subseteq Orphans
  BY DEF Orphans
<1>5. OrphansAreFew'
  BY <1>4, NoOrphanMore
<1> QED
  BY <1>2, <1>3, <1>5 DEF ShellsSound

\* Trees that are killed, and records that keep their pid and port.
LEMMA KilledKeeps ==
  ASSUME ServiceInv, NEW gone, Killed(gone),
         registry' \in [Names -> Records \cup {NoRecord}],
         \A n \in Names :
           \/ Recorded(n) =>
                registry'[n] # NoRecord /\ registry'[n].pid = registry[n].pid
                  /\ registry'[n].port = registry[n].port
           \/ \A p \in Pids : process[p] = "up" /\ owner[p].noted /\ owner[p].name = n => p \in gone,
         \/ lostWrites' = lostWrites
         \/ LosesWrite
  PROVE  TablesOK' /\ ShellsSound'
<1>1. ServiceTypeOK /\ ShellsRecorded
  BY DEF ServiceInv, ShellsSound
<1>2. ASSUME NEW p \in Pids, process'[p] = "up"
      PROVE  process[p] = "up" /\ owner'[p] = owner[p] /\ p \notin gone
  BY <1>2 DEF Killed, ProcWithout, OwnerWithout
<1>3. ASSUME NEW p \in Pids, process'[p] = "up"
      PROVE  owner[p].name \in Names
  BY <1>1, <1>2, <1>3 DEF Owners, ShellsRecorded
<1>4. Orphans' \subseteq Orphans
  BY <1>2 DEF Orphans
<1>5. lostWrites' \in 0 .. MaxLostWrites
  BY <1>4, NoOrphanMore
<1>6. TablesOK'
  BY <1>1, <1>5, KilledTypes DEF Killed, TablesOK
<1> QED
  BY <1>2, <1>3, <1>6, SameShells

\* A start, of a service or of one that was found dead.
LEMMA StartsKeeps ==
  ASSUME ServiceInv, NEW n \in Names, NEW c \in Commands, NEW q \in Ports \cup {NoPort},
         NEW a \in BOOLEAN, Starts(n, c, q, a)
  PROVE  TablesOK' /\ ShellsSound'
<1>1. ServiceTypeOK /\ ShellsRecorded /\ OnePerPort
  BY DEF ServiceInv, ShellsSound
<1>0. registry \in [Names -> Records \cup {NoRecord}]
  BY <1>1 DEF ServiceTypeOK
<1>2. CASE AlreadyRuns(n, c)
  <2>1. UNCHANGED <<registry, process, owner, serving, lostWrites>>
    BY <1>2 DEF Starts
  <2>2. TablesOK'
    BY <1>1, <2>1 DEF TablesOK, ServiceTypeOK
  <2> QED
    BY <2>1, <2>2, SameShells DEF Recorded
<1> DEFINE freed == Replaced(n) \cup OnPortOf(n, q)
\* Whatever the registry names of the service is in what a start frees.
<1>3. ASSUME NEW p \in Pids, process[p] = "up", owner[p].noted, owner[p].name = n
      PROVE  p \in Replaced(n)
  BY <1>1, <1>3 DEF ShellsRecorded, Replaced, Alive, IsAlive
<1>4. ASSUME NEW p \in Pids, process[p] = "up", owner[p].noted, owner[p].port = q, q # NoPort
      PROVE  p \in freed
  <2>1. CASE owner[p].name = n
    BY <1>3, <1>4, <2>1
  <2>2. CASE owner[p].name # n
    <3>1. owner[p].name \in Names
      BY <1>1, <1>4 DEF Owners, ShellsRecorded
    <3>2. p \in OnPortOf(n, q)
      BY <1>1, <1>4, <2>2, <3>1 DEF ShellsRecorded, OnPortOf
    <3> QED
      BY <3>2
  <2> QED
    BY <2>1, <2>2
<1>5. ASSUME NEW p \in Pids, process[p] = "up", p \notin freed, owner[p].noted,
             registry' = registry
               \/ \E r : registry' = [registry EXCEPT ![n] = r]
      PROVE  /\ owner[p].name # n
             /\ registry'[owner[p].name] = registry[owner[p].name]
  <2>1. owner[p].name # n
    BY <1>3, <1>5
  <2>2. owner[p].name \in Names
    BY <1>1, <1>5 DEF Owners, ShellsRecorded
  <2> QED
    BY <1>0, <1>5, <2>1, <2>2
<1>6. ASSUME NEW gone, Replaced(n) \subseteq gone, FailsToSpawn(n, gone)
      PROVE  TablesOK' /\ ShellsSound'
  <2>1. /\ registry' = registry \/ registry' = [registry EXCEPT ![n] = NoRecord]
        /\ lostWrites' = lostWrites \/ LosesWrite
        /\ Killed(gone)
    BY <1>6 DEF FailsToSpawn, Without
  <2>2. registry' \in [Names -> Records \cup {NoRecord}]
    BY <1>0, <2>1
  <2>3. ASSUME NEW m \in Names
        PROVE  \/ registry'[m] = registry[m]
               \/ \A p \in Pids : process[p] = "up" /\ owner[p].noted /\ owner[p].name = m => p \in gone
    <3>1. CASE m = n
      BY <1>3, <1>6, <3>1
    <3>2. CASE m # n
      BY <1>0, <2>1, <3>2
    <3> QED
      BY <3>1, <3>2
  <2> QED
    BY <2>1, <2>2, <2>3, KilledKeeps DEF Recorded
<1> DEFINE new == NewPid
<1>7. ASSUME NEW noted \in BOOLEAN, ComesUp(n, q, freed, noted)
      PROVE  /\ new \in Pids
             /\ process' \in [Pids -> ProcessStates]
             /\ owner' \in [Pids -> Owners \cup {Nobody}]
             /\ serving' \in [Ports -> Pids \cup {0}]
             /\ process'[new] = "up"
             /\ owner'[new] = [name |-> n, port |-> q, noted |-> noted]
             /\ \A p \in Pids \ {new} : process'[p] = "up" =>
                  process[p] = "up" /\ owner'[p] = owner[p] /\ p \notin freed
  <2>1. new \in Pids
    BY <1>7, NewPidUnused DEF ComesUp, Unused
  <2> HIDE DEF new, freed
  <2>2. /\ process' = [ProcWithout(freed) EXCEPT ![new] = "up"]
        /\ owner' = [OwnerWithout(freed) EXCEPT ![new] = [name |-> n, port |-> q, noted |-> noted]]
        /\ serving' = ServingWithout(freed)
    BY <1>7 DEF ComesUp, new
  <2>3. [name |-> n, port |-> q, noted |-> noted] \in Owners
    BY DEF Owners
  <2>4. /\ process' \in [Pids -> ProcessStates] /\ process'[new] = "up"
        /\ owner' \in [Pids -> Owners \cup {Nobody}]
        /\ owner'[new] = [name |-> n, port |-> q, noted |-> noted]
        /\ serving' \in [Ports -> Pids \cup {0}]
    BY <1>1, <2>1, <2>2, <2>3, KilledTypes DEF ProcessStates
  <2>5. ASSUME NEW p \in Pids \ {new}, process'[p] = "up"
        PROVE  process[p] = "up" /\ owner'[p] = owner[p] /\ p \notin freed
    BY <2>2, <2>5 DEF ProcWithout, OwnerWithout
  <2> QED
    BY <2>1, <2>4, <2>5
<1>8. CASE SpawnsUnrecorded(n, q, freed)
  <2>1. /\ LosesWrite /\ ComesUp(n, q, freed, FALSE)
        /\ registry' = registry \/ registry' = [registry EXCEPT ![n] = NoRecord]
    BY <1>8 DEF SpawnsUnrecorded, Without
  <2> HIDE DEF new, freed
  <2>2. /\ process' \in [Pids -> ProcessStates]
        /\ owner' \in [Pids -> Owners \cup {Nobody}]
        /\ serving' \in [Ports -> Pids \cup {0}]
        /\ new \in Pids /\ owner'[new] \in Owners /\ owner'[new].noted = FALSE
    <3>1. /\ process' \in [Pids -> ProcessStates]
          /\ owner' \in [Pids -> Owners \cup {Nobody}]
          /\ serving' \in [Ports -> Pids \cup {0}]
          /\ new \in Pids /\ owner'[new] = [name |-> n, port |-> q, noted |-> FALSE]
      BY <1>7, <2>1
    <3>2. [name |-> n, port |-> q, noted |-> FALSE] \in Owners
      BY DEF Owners
    <3> QED
      BY <3>1, <3>2
  <2>3. ASSUME NEW p \in Pids \ {new}, process'[p] = "up"
        PROVE  process[p] = "up" /\ owner'[p] = owner[p] /\ p \notin freed
    BY <1>7, <2>1, <2>3
  <2>4. Orphans' \subseteq Orphans \cup {new}
    BY <2>3 DEF Orphans
  <2>5. OrphansAreFew' /\ lostWrites' \in 0 .. MaxLostWrites
    BY <2>1, <2>4, OneOrphanMore
  <2>6. ShellsRecorded'
    <3> SUFFICES ASSUME NEW p \in Pids, process'[p] = "up"
                 PROVE  /\ owner'[p] \in Owners
                        /\ owner'[p].noted =>
                             /\ registry'[owner'[p].name] # NoRecord
                             /\ registry'[owner'[p].name].pid = p
                             /\ registry'[owner'[p].name].port = owner'[p].port
      BY DEF ShellsRecorded, Recorded
    <3>1. CASE p = new
      BY <2>2, <3>1
    <3>2. CASE p # new
      <4>1. process[p] = "up" /\ owner'[p] = owner[p] /\ p \notin freed
        BY <2>3, <3>2
      <4>2. owner[p].noted => registry'[owner[p].name] = registry[owner[p].name]
        BY <1>5, <2>1, <4>1
      <4> QED
        BY <1>1, <4>1, <4>2 DEF ShellsRecorded, Recorded
    <3> QED
      BY <3>1, <3>2
  <2>7. OnePerPort'
    <3>1. \A p \in Noted' : p \in Noted /\ owner'[p] = owner[p]
      BY <2>2, <2>3 DEF Noted
    <3> QED
      BY <1>1, <3>1 DEF OnePerPort
  <2>8. registry' \in [Names -> Records \cup {NoRecord}]
    BY <1>0, <2>1
  <2> QED
    BY <2>2, <2>5, <2>6, <2>7, <2>8 DEF TablesOK, ShellsSound
<1>9. CASE Spawns(n, c, q, a, freed)
  <2> DEFINE rec == [status |-> "running", pid |-> new, command |-> c, port |-> q, auto |-> a,
                     young |-> a]
  <2>1. /\ registry' = [registry EXCEPT ![n] = rec]
        /\ ComesUp(n, q, freed, TRUE) /\ lostWrites' = lostWrites
    BY <1>9 DEF Spawns
  <2>2. /\ process' \in [Pids -> ProcessStates]
        /\ owner' \in [Pids -> Owners \cup {Nobody}]
        /\ serving' \in [Ports -> Pids \cup {0}]
        /\ new \in Pids /\ process'[new] = "up"
        /\ owner'[new] = [name |-> n, port |-> q, noted |-> TRUE]
    BY <1>7, <2>1
  <2>3. ASSUME NEW p \in Pids \ {new}, process'[p] = "up"
        PROVE  process[p] = "up" /\ owner'[p] = owner[p] /\ p \notin freed
    BY <1>7, <2>1, <2>3
  <2>4. rec \in Records /\ rec.pid = new /\ rec.port = q /\ rec # NoRecord
    <3>1. rec \in Records
      BY <2>2 DEF Records
    <3>2. rec.status # NoRecord.status
      BY DEF NoRecord
    <3> QED
      BY <3>1, <3>2
  <2> HIDE DEF new, rec, freed
  <2>5. registry' \in [Names -> Records \cup {NoRecord}] /\ registry'[n] = rec
    BY <1>0, <2>1, <2>4
  <2>6. owner'[new].name = n /\ owner'[new].port = q /\ owner'[new].noted /\ owner'[new] \in Owners
    BY <2>2 DEF Owners
  <2>7. ShellsRecorded'
    <3> SUFFICES ASSUME NEW p \in Pids, process'[p] = "up"
                 PROVE  /\ owner'[p] \in Owners
                        /\ owner'[p].noted =>
                             /\ registry'[owner'[p].name] # NoRecord
                             /\ registry'[owner'[p].name].pid = p
                             /\ registry'[owner'[p].name].port = owner'[p].port
      BY DEF ShellsRecorded, Recorded
    <3>1. CASE p = new
      BY <2>4, <2>5, <2>6, <3>1
    <3>2. CASE p # new
      <4>1. process[p] = "up" /\ owner'[p] = owner[p] /\ p \notin freed
        BY <2>3, <3>2
      <4>2. owner[p].noted => registry'[owner[p].name] = registry[owner[p].name]
        BY <1>5, <2>1, <4>1
      <4> QED
        BY <1>1, <4>1, <4>2 DEF ShellsRecorded, Recorded
    <3> QED
      BY <3>1, <3>2
  <2>8. OnePerPort'
    <3> SUFFICES ASSUME NEW p \in Noted', NEW o \in Noted', p # o,
                        owner'[p].port = owner'[o].port
                 PROVE  owner'[p].port = NoPort
      BY DEF OnePerPort
    <3>1. \A z \in Noted' \ {new} : z \in Noted /\ owner'[z] = owner[z] /\ z \notin freed
      BY <2>3 DEF Noted
    <3>2. \A z \in Noted : z \notin freed /\ owner[z].port = q => q = NoPort
      BY <1>4 DEF Noted
    <3>3. CASE p # new /\ o # new
      BY <1>1, <3>1, <3>3 DEF OnePerPort
    <3>4. CASE p = new
      BY <2>6, <3>1, <3>2, <3>4
    <3>5. CASE o = new
      BY <2>6, <3>1, <3>2, <3>5
    <3> QED
      BY <3>3, <3>4, <3>5
  <2>9. Orphans' \subseteq Orphans
    BY <2>2, <2>3 DEF Orphans
  <2>10. OrphansAreFew' /\ lostWrites' \in 0 .. MaxLostWrites
    BY <2>1, <2>9, NoOrphanMore
  <2> QED
    BY <2>2, <2>5, <2>7, <2>8, <2>10 DEF TablesOK, ShellsSound
<1> QED
  BY <1>2, <1>6, <1>8, <1>9 DEF Starts

\* Whatever leaves owners, records and writes alone and brings no shell up.
LEMMA FewerShells ==
  ASSUME ServiceInv, UNCHANGED <<registry, owner, lostWrites>>,
         process' \in [Pids -> ProcessStates], serving' \in [Ports -> Pids \cup {0}],
         \A p \in Pids : process'[p] = "up" => process[p] = "up"
  PROVE  TablesOK' /\ ShellsSound'
<1>1. TablesOK'
  BY DEF TablesOK, ServiceInv, ServiceTypeOK
<1> QED
  BY <1>1, SameShells DEF Recorded

\* A stop marks the record and kills the process it names.
LEMMA StopsKeeps ==
  ASSUME ServiceInv, NEW n, Stops(n)
  PROVE  TablesOK' /\ ShellsSound'
<1> DEFINE gone == IF Alive(n) THEN {registry[n].pid} ELSE {}
<1>1. Killed(gone)
  BY DEF Stops
<1> HIDE DEF gone
<1>2. registry \in [Names -> Records \cup {NoRecord}]
  BY DEF ServiceInv, ServiceTypeOK
<1>3. /\ \/ registry' = registry
         \/ Recorded(n) /\ registry' = [registry EXCEPT ![n].status = "stopped"]
      /\ lostWrites' = lostWrites \/ LosesWrite
  BY DEF Stops
<1>4. ASSUME NEW m \in Names
      PROVE  /\ registry'[m] \in Records \cup {NoRecord}
             /\ Recorded(m) => registry'[m] # NoRecord /\ registry'[m].pid = registry[m].pid
                                 /\ registry'[m].port = registry[m].port
  <2>1. CASE registry'[m] = registry[m]
    BY <1>2, <2>1 DEF Recorded
  <2>2. CASE registry'[m] # registry[m]
    <3>1. m = n /\ Recorded(m) /\ registry'[m] = [registry[m] EXCEPT !.status = "stopped"]
      BY <1>2, <1>3, <2>2
    <3>2. registry[m] \in Records
      BY <1>2, <3>1 DEF Recorded
    <3>3. /\ registry'[m] \in Records /\ registry'[m].pid = registry[m].pid
          /\ registry'[m].port = registry[m].port /\ registry'[m].status = "stopped"
      BY <3>1, <3>2 DEF Records
    <3>4. registry'[m] # NoRecord
      BY <3>3 DEF NoRecord
    <3> QED
      BY <3>3, <3>4
  <2> QED
    BY <2>1, <2>2
<1>5. registry' \in [Names -> Records \cup {NoRecord}]
  <2>1. registry' = [m \in Names |-> registry'[m]]
    BY <1>2, <1>3
  <2> QED
    BY <1>4, <2>1
<1> QED
  BY <1>1, <1>3, <1>4, <1>5, KilledKeeps

\* What is asked for a record is something a start can be asked for.
LEMMA AskedSound ==
  ASSUME ServiceTypeOK, NEW n \in Names, Recorded(n)
  PROVE  Asked(n, registry[n]) \in StartArgs
<1>1. registry[n] \in Records
  BY RecordedType
<1> QED
  BY <1>1 DEF Records, Asked, StartArgs

\* The calls of the tool.
LEMMA CallsKeep ==
  ASSUME ServiceInv,
         \/ \E s \in Startable : Start(s.name, s.command, s.port, s.auto)
         \/ \E n \in Names : Stop(n) \/ Remove(n) \/ GrowsOld(n)
         \/ \E k \in Callers : \E n \in Names : RestartReads(k, n)
         \/ \E k \in Callers : RestartStops(k) \/ RestartStarts(k)
  PROVE  ServiceInv'
<1>1. ServiceTypeOK /\ RestartsSound /\ ShellsRecorded
  BY DEF ServiceInv, ShellsSound
<1>0. /\ registry \in [Names -> Records \cup {NoRecord}]
      /\ process \in [Pids -> ProcessStates] /\ serving \in [Ports -> Pids \cup {0}]
  BY <1>1 DEF ServiceTypeOK
<1>2. ASSUME NEW s \in Startable, Start(s.name, s.command, s.port, s.auto) PROVE ServiceInv'
  <2>1. /\ s.name \in Names /\ s.command \in Commands
        /\ s.port \in Ports \cup {NoPort} /\ s.auto \in BOOLEAN
    BY ServiceAssumption
  <2>2. Starts(s.name, s.command, s.port, s.auto)
        /\ UNCHANGED <<fastCrashes, revive, restarting>>
    BY <1>2 DEF Start
  <2>3. TablesOK' /\ ShellsSound'
    <3> DEFINE n == s.name c == s.command q == s.port a == s.auto
    <3>1. n \in Names /\ c \in Commands /\ q \in Ports \cup {NoPort} /\ a \in BOOLEAN
      BY <2>1
    <3>2. Starts(n, c, q, a)
      BY <2>2
    <3> HIDE DEF n, c, q, a
    <3> QED
      BY <3>1, <3>2, StartsKeeps
  <2> QED
    BY <1>1, <2>2, <2>3 DEF ServiceInv, ServiceTypeOK, TablesOK, RestartsSound
<1>3. ASSUME NEW n \in Names, Stop(n) PROVE ServiceInv'
  <2>1. TablesOK' /\ ShellsSound'
    BY <1>3, StopsKeeps DEF Stop
  <2> QED
    BY <1>1, <1>3, <2>1 DEF Stop, ServiceInv, ServiceTypeOK, TablesOK, RestartsSound
<1>4. ASSUME NEW n \in Names, Remove(n) PROVE ServiceInv'
  <2>1. /\ registry' = [registry EXCEPT ![n] = NoRecord] /\ Recorded(n) /\ ~Alive(n)
        /\ UNCHANGED <<process, owner, serving, fastCrashes, revive, restarting, lostWrites>>
    BY <1>4 DEF Remove, Without
  <2>2. TablesOK'
    BY <1>1, <2>1 DEF ServiceTypeOK, TablesOK
  <2>3. ASSUME NEW p \in Pids, process[p] = "up", owner[p].noted
        PROVE  registry'[owner[p].name] = registry[owner[p].name]
    <3>1. owner[p].name # n
      BY <1>1, <2>1, <2>3 DEF ShellsRecorded, Alive, IsAlive
    <3>2. owner[p].name \in Names
      BY <1>1, <2>3 DEF Owners, ShellsRecorded
    <3> QED
      BY <1>0, <2>1, <3>1, <3>2
  <2>4. ShellsSound'
    BY <2>1, <2>2, <2>3, SameShells DEF Recorded
  <2> QED
    BY <1>1, <2>1, <2>2, <2>4 DEF ServiceInv, ServiceTypeOK, TablesOK, RestartsSound
<1>5. ASSUME NEW n \in Names, GrowsOld(n) PROVE ServiceInv'
  <2>1. /\ registry' = [registry EXCEPT ![n].young = FALSE] /\ Recorded(n)
        /\ UNCHANGED <<process, owner, serving, fastCrashes, revive, restarting, lostWrites>>
    BY <1>5 DEF GrowsOld
  <2>2. registry[n] \in Records
    BY <1>1, <2>1, RecordedType
  <2>3. /\ registry' = [registry EXCEPT ![n] = [registry[n] EXCEPT !.young = FALSE]]
        /\ registry'[n] = [registry[n] EXCEPT !.young = FALSE]
    BY <1>0, <2>1
  <2>4. /\ registry'[n] \in Records /\ registry'[n].pid = registry[n].pid
        /\ registry'[n].port = registry[n].port /\ registry'[n].status = registry[n].status
    <3>1. registry'[n] = [registry[n] EXCEPT !.young = FALSE]
      BY <2>3
    <3> QED
      BY <2>2, <3>1 DEF Records
  <2>5. registry'[n] # NoRecord
    BY <2>2, <2>4 DEF Records, NoRecord
  <2>6. \A m \in Names : m # n => registry'[m] = registry[m]
    BY <1>0, <2>3
  <2>7. TablesOK'
    BY <1>1, <2>1, <2>3, <2>4 DEF ServiceTypeOK, TablesOK
  <2>8. ASSUME NEW p \in Pids, process[p] = "up", owner[p].noted, Recorded(owner[p].name)
        PROVE  /\ registry'[owner[p].name] # NoRecord
               /\ registry'[owner[p].name].pid = registry[owner[p].name].pid
               /\ registry'[owner[p].name].port = registry[owner[p].name].port
    <3>1. owner[p].name \in Names
      BY <1>1, <2>8 DEF Owners, ShellsRecorded
    <3> QED
      BY <2>4, <2>5, <2>6, <2>8, <3>1 DEF Recorded
  <2>9. ShellsSound'
    BY <2>1, <2>7, <2>8, SameShells
  <2> QED
    BY <1>1, <2>1, <2>7, <2>9 DEF ServiceInv, ServiceTypeOK, TablesOK, RestartsSound
<1>6. ASSUME NEW k \in Callers, NEW n \in Names, RestartReads(k, n) PROVE ServiceInv'
  <2>1. /\ restarting' = [restarting EXCEPT ![k] = [at |-> "stop", ask |-> Asked(n, registry[n])]]
        /\ UNCHANGED <<registry, process, owner, serving, fastCrashes, revive, lostWrites>>
        /\ Recorded(n)
    BY <1>6 DEF RestartReads
  <2>2. Asked(n, registry[n]) \in StartArgs
    BY <1>1, <2>1, AskedSound
  <2>3. RestartsSound' /\ DOMAIN restarting' = Callers
    BY <1>1, <2>1, <2>2 DEF RestartsSound, ServiceTypeOK
  <2>4. TablesOK' /\ ShellsSound'
    BY <1>0, <2>1, FewerShells
  <2> QED
    BY <1>1, <2>1, <2>3, <2>4 DEF ServiceInv, ServiceTypeOK, TablesOK
<1>7. ASSUME NEW k \in Callers, RestartStops(k) PROVE ServiceInv'
  <2>1. /\ Stops(restarting[k].ask.name) /\ restarting[k].at = "stop"
        /\ \/ restarting' = [restarting EXCEPT ![k] = NotRestarting]
           \/ restarting' = [restarting EXCEPT ![k].at = "start"]
        /\ UNCHANGED <<fastCrashes, revive>>
    BY <1>7 DEF RestartStops
  <2>2. restarting[k] \in [at : {"stop", "start"}, ask : StartArgs]
    BY <1>1, <2>1 DEF RestartsSound, NotRestarting
  <2>3. RestartsSound' /\ DOMAIN restarting' = Callers
    <3>1. CASE restarting' = [restarting EXCEPT ![k] = NotRestarting]
      BY <1>1, <3>1 DEF RestartsSound, ServiceTypeOK
    <3>2. CASE restarting' = [restarting EXCEPT ![k].at = "start"]
      BY <1>1, <2>2, <3>2 DEF RestartsSound, ServiceTypeOK
    <3> QED
      BY <2>1, <3>1, <3>2
  <2>4. TablesOK' /\ ShellsSound'
    BY <2>1, StopsKeeps
  <2> QED
    BY <1>1, <2>1, <2>3, <2>4 DEF ServiceInv, ServiceTypeOK, TablesOK
<1>8. ASSUME NEW k \in Callers, RestartStarts(k) PROVE ServiceInv'
  <2> DEFINE ask == restarting[k].ask
  <2>1. /\ Starts(ask.name, ask.command, ask.port, FALSE) /\ restarting[k].at = "start"
        /\ restarting' = [restarting EXCEPT ![k] = NotRestarting]
        /\ UNCHANGED <<fastCrashes, revive>>
    BY <1>8 DEF RestartStarts
  <2>2. ask \in StartArgs
    BY <1>1, <2>1 DEF RestartsSound, NotRestarting
  <2>3. ask.name \in Names /\ ask.command \in Commands /\ ask.port \in Ports \cup {NoPort}
    BY <2>2 DEF StartArgs
  <2>4. RestartsSound' /\ DOMAIN restarting' = Callers
    BY <1>1, <2>1 DEF RestartsSound, ServiceTypeOK
  <2>5. TablesOK' /\ ShellsSound'
    <3> DEFINE n == ask.name c == ask.command q == ask.port
    <3>1. n \in Names /\ c \in Commands /\ q \in Ports \cup {NoPort} /\ Starts(n, c, q, FALSE)
      BY <2>1, <2>3
    <3> HIDE DEF n, c, q
    <3> QED
      BY <3>1, StartsKeeps
  <2> QED
    BY <1>1, <2>1, <2>4, <2>5 DEF ServiceInv, ServiceTypeOK, TablesOK
<1> QED
  BY <1>2, <1>3, <1>4, <1>5, <1>6, <1>7, <1>8

\* One pass of the health loop: counters, and records marked crashed.
LEMMA ReapKeeps ==
  ASSUME ServiceInv, ReapDead
  PROVE  ServiceInv'
<1>1. ServiceTypeOK /\ RestartsSound /\ ShellsRecorded
  BY DEF ServiceInv, ShellsSound
<1>2. ASSUME NEW n \in Names PROVE CrashesNow(n) \in 0 .. MaxFastCrashes
  <2>1. fastCrashes[n] \in 0 .. MaxFastCrashes /\ MaxFastCrashes \in Nat
    BY <1>1, ServiceAssumption DEF ServiceTypeOK
  <2> QED
    BY <2>1 DEF CrashesNow
<1>3. fastCrashes' \in [Names -> 0 .. MaxFastCrashes]
  BY <1>2 DEF ReapDead
<1>4. ASSUME NEW n \in Names
      PROVE  /\ Reaped[n] \in Records \cup {NoRecord}
             /\ Recorded(n) => Reaped[n] # NoRecord /\ Reaped[n].pid = registry[n].pid
                                 /\ Reaped[n].port = registry[n].port
  <2>1. \/ Reaped[n] = registry[n]
        \/ /\ Recorded(n)
           /\ \/ Reaped[n] = [registry[n] EXCEPT !.status = "crashed", !.auto = FALSE]
              \/ Reaped[n] = [registry[n] EXCEPT !.status = "crashed"]
    BY DEF Reaped, GivenUp, Candidate, Down
  <2>2. CASE Reaped[n] = registry[n]
    BY <1>1, <2>2 DEF ServiceTypeOK, Recorded
  <2>3. CASE Reaped[n] # registry[n]
    <3>1. registry[n] \in Records
      BY <1>1, <2>1, <2>3, RecordedType
    <3>2. /\ Reaped[n] \in Records /\ Reaped[n].pid = registry[n].pid
          /\ Reaped[n].port = registry[n].port /\ Reaped[n].status = "crashed"
      BY <2>1, <2>3, <3>1 DEF Records
    <3>3. Reaped[n] # NoRecord
      BY <3>2 DEF NoRecord
    <3> QED
      BY <3>2, <3>3
  <2> QED
    BY <2>2, <2>3
<1>5. Reaped \in [Names -> Records \cup {NoRecord}]
  <2> DEFINE After(m) ==
         CASE GivenUp(m) -> [registry[m] EXCEPT !.status = "crashed", !.auto = FALSE]
           [] Down(m) /\ ~registry[m].auto -> [registry[m] EXCEPT !.status = "crashed"]
           [] OTHER -> registry[m]
  <2>1. Reaped = [m \in Names |-> After(m)]
    BY DEF Reaped
  <2> HIDE DEF After
  <2> QED
    BY <1>4, <2>1
<1>6. revive' \subseteq StartArgs
  <2>1. \A m \in Names : Candidate(m) => Asked(m, registry[m]) \in StartArgs
    BY <1>1, AskedSound DEF Candidate, Down
  <2> QED
    BY <2>1 DEF ReapDead
<1>7. /\ UNCHANGED <<process, owner, serving, restarting>>
      /\ registry' = Reaped \/ registry' = registry
      /\ lostWrites' = lostWrites \/ LosesWrite
  BY DEF ReapDead
<1>8. Orphans' \subseteq Orphans
  BY <1>7 DEF Orphans
<1>9. TablesOK'
  BY <1>1, <1>5, <1>7, <1>8, NoOrphanMore DEF ServiceTypeOK, TablesOK
<1>10. ASSUME NEW p \in Pids, process[p] = "up", owner[p].noted, Recorded(owner[p].name)
       PROVE  /\ registry'[owner[p].name] # NoRecord
              /\ registry'[owner[p].name].pid = registry[owner[p].name].pid
              /\ registry'[owner[p].name].port = registry[owner[p].name].port
  <2>1. owner[p].name \in Names
    BY <1>1, <1>10 DEF Owners, ShellsRecorded
  <2> QED
    BY <1>4, <1>7, <1>10, <2>1 DEF Recorded
<1>11. ShellsSound'
  BY <1>7, <1>9, <1>10, SameShells
<1> QED
  BY <1>1, <1>3, <1>6, <1>7, <1>9, <1>11 DEF ServiceInv, ServiceTypeOK, TablesOK, RestartsSound

\* What the health loop starts, after it has let the mutex go.
LEMMA ReviveKeeps ==
  ASSUME ServiceInv, ReviveNext
  PROVE  ServiceInv'
<1>1. ServiceTypeOK /\ RestartsSound
  BY DEF ServiceInv
<1>2. PICK r \in revive : /\ Starts(r.name, r.command, r.port, TRUE)
                          /\ revive' = revive \ {r}
                          /\ UNCHANGED <<fastCrashes, restarting>>
  BY DEF ReviveNext
<1>3. r.name \in Names /\ r.command \in Commands /\ r.port \in Ports \cup {NoPort}
  BY <1>1, <1>2 DEF ServiceTypeOK, StartArgs
<1>4. TablesOK' /\ ShellsSound'
  BY <1>2, <1>3, StartsKeeps
<1> QED
  BY <1>1, <1>2, <1>4 DEF ServiceInv, ServiceTypeOK, TablesOK, RestartsSound

\* Processes come and go, and the agent and the machine with them.
LEMMA WorldKeeps ==
  ASSUME ServiceInv,
         \/ \E p \in Pids : Listens(p) \/ TreeDies(p) \/ ShellDies(p)
         \/ AgentRestarts \/ Reboot
  PROVE  ServiceInv'
<1>1. ServiceTypeOK /\ RestartsSound
  BY DEF ServiceInv
<1>0. MaxFastCrashes \in Nat
  BY ServiceAssumption
<1>2. ASSUME NEW p \in Pids, Listens(p) PROVE ServiceInv'
  <2>1. serving' \in [Ports -> Pids \cup {0}] /\ process' \in [Pids -> ProcessStates]
    BY <1>1, <1>2 DEF Listens, ServiceTypeOK
  <2>2. TablesOK' /\ ShellsSound'
    BY <1>2, <2>1, FewerShells DEF Listens
  <2> QED
    BY <1>1, <1>2, <2>2 DEF Listens, ServiceInv, ServiceTypeOK, TablesOK, RestartsSound
<1>3. ASSUME NEW p \in Pids, TreeDies(p) PROVE ServiceInv'
  <2>1. Killed({p}) /\ UNCHANGED <<registry, fastCrashes, revive, restarting, lostWrites>>
    BY <1>3 DEF TreeDies
  <2>2. registry' \in [Names -> Records \cup {NoRecord}]
    BY <1>1, <2>1 DEF ServiceTypeOK
  <2>3. TablesOK' /\ ShellsSound'
    BY <2>1, <2>2, KilledKeeps DEF Recorded
  <2> QED
    BY <1>1, <2>1, <2>3 DEF ServiceInv, ServiceTypeOK, TablesOK, RestartsSound
<1>4. ASSUME NEW p \in Pids, ShellDies(p) PROVE ServiceInv'
  <2>1. /\ process' = [process EXCEPT ![p] = "adrift"]
        /\ UNCHANGED <<registry, owner, serving, fastCrashes, revive, restarting, lostWrites>>
    BY <1>4 DEF ShellDies
  <2>2. \A o \in Pids : process'[o] = "up" => process[o] = "up"
    BY <1>1, <2>1 DEF ServiceTypeOK
  <2>3. process' \in [Pids -> ProcessStates] /\ serving' \in [Ports -> Pids \cup {0}]
    BY <1>1, <2>1 DEF ServiceTypeOK, ProcessStates
  <2>4. TablesOK' /\ ShellsSound'
    BY <2>1, <2>2, <2>3, FewerShells
  <2> QED
    BY <1>1, <2>1, <2>4 DEF ServiceInv, ServiceTypeOK, TablesOK, RestartsSound
<1>5. CASE AgentRestarts
  <2>1. process' \in [Pids -> ProcessStates] /\ serving' \in [Ports -> Pids \cup {0}]
    BY <1>1, <1>5 DEF AgentRestarts, ServiceTypeOK
  <2>2. TablesOK' /\ ShellsSound'
    BY <1>5, <2>1, FewerShells DEF AgentRestarts
  <2>3. fastCrashes' \in [Names -> 0 .. MaxFastCrashes]
    BY <1>0, <1>5 DEF AgentRestarts
  <2> QED
    BY <1>1, <1>5, <2>2, <2>3
       DEF AgentRestarts, ServiceInv, ServiceTypeOK, TablesOK, RestartsSound
<1>6. CASE Reboot
  <2>1. PICK taken \in SUBSET {registry[n].pid : n \in {m \in Names : Recorded(m)}} :
          process' = [p \in Pids |-> IF p \in taken THEN "stranger" ELSE "free"]
    BY <1>6 DEF Reboot
  <2>2. process' \in [Pids -> ProcessStates] /\ \A p \in Pids : process'[p] # "up"
    BY <2>1 DEF ProcessStates
  <2>3. TablesOK'
    BY <1>1, <1>6, <2>2 DEF Reboot, ServiceTypeOK, TablesOK
  <2>4. lostWrites' = lostWrites
    BY <1>6 DEF Reboot
  <2>5. ShellsSound'
    BY <2>2, <2>3, <2>4, SameShells
  <2>6. fastCrashes' \in [Names -> 0 .. MaxFastCrashes]
    BY <1>0, <1>6 DEF Reboot
  <2> QED
    BY <1>1, <1>6, <2>3, <2>5, <2>6
       DEF Reboot, ServiceInv, ServiceTypeOK, TablesOK, RestartsSound
<1> QED
  BY <1>2, <1>3, <1>4, <1>5, <1>6

LEMMA ServiceInvHolds ==
  ServiceInit /\ [][ServiceNext]_serviceVars => []ServiceInv
<1>1. ServiceInit => ServiceInv
  <2> SUFFICES ASSUME ServiceInit PROVE ServiceInv
    OBVIOUS
  <2>1. ServiceTypeOK
    BY ServiceAssumption DEF ServiceInit, ServiceTypeOK, ProcessStates
  <2>2. ShellsRecorded /\ OnePerPort /\ Orphans = {}
    BY DEF ServiceInit, ShellsRecorded, OnePerPort, Noted, Orphans
  <2>3. OrphansAreFew
    BY <2>2, FS_EmptySet DEF ServiceInit, OrphansAreFew
  <2> QED
    BY <2>1, <2>2, <2>3 DEF ServiceInit, ServiceInv, ShellsSound, RestartsSound
<1>2. ServiceInv /\ [ServiceNext]_serviceVars => ServiceInv'
  <2> SUFFICES ASSUME ServiceInv, [ServiceNext]_serviceVars PROVE ServiceInv'
    OBVIOUS
  <2>1. CASE UNCHANGED serviceVars
    <3>1. UNCHANGED <<registry, process, owner, serving, fastCrashes, revive, restarting,
                      lostWrites>>
      BY <2>1 DEF serviceVars
    <3>2. process' \in [Pids -> ProcessStates] /\ serving' \in [Ports -> Pids \cup {0}]
      BY <3>1 DEF ServiceInv, ServiceTypeOK
    <3>3. ShellsSound'
      BY <3>1, <3>2, FewerShells
    <3> QED
      BY <3>1, <3>3 DEF ServiceInv, ServiceTypeOK, RestartsSound
  <2>2. CASE ServiceNext
    BY <2>2, CallsKeep, ReapKeeps, ReviveKeeps, WorldKeeps DEF ServiceNext
  <2> QED
    BY <2>1, <2>2
<1> QED
  BY <1>1, <1>2, PTL

\* Registry, processes, owners, ports and counters keep their types: nothing a
\* call, the health loop, a lost write, a crash or a reboot does leaves a record
\* that a later start could not be asked for (src/tools/service.go, start and
\* reapDead).
THEOREM ServiceTypeCorrect ==
  ServiceInit /\ [][ServiceNext]_serviceVars => []ServiceTypeOK
<1>1. ServiceInv => ServiceTypeOK
  BY DEF ServiceInv
<1> QED
  BY <1>1, ServiceInvHolds, PTL

\* For any services, ports, callers and numbers of processes and of writes of
\* the registry that fail or that the agent dies before: of the processes that
\* were recorded, each whose shell runs is still the one its service's record
\* names, and no two of them were given one port; and there are at most as many
\* running processes that the registry never named as writes were lost.  What
\* is replaced, or holds the port, is killed before anything is spawned, and
\* killed before its record is changed, all under the mutex (service.go, start
\* and stop), so calls, late revivals, failed spawns and reboots add none.
THEOREM OneCopyAlwaysRuns ==
  ServiceInit /\ [][ServiceNext]_serviceVars => []OneCopyRuns
<1>1. ServiceInv => OneCopyRuns
  BY DEF ServiceInv, ShellsSound, OneCopyRuns, OneRecordedCopy, ShellsRecorded, Noted
<1> QED
  BY <1>1, ServiceInvHolds, PTL
-----------------------------------------------------------------------------
(* Plugins.                                                                 *)

\* The types of what a step may have changed.
BinariesTypeOK == exe \in Binary /\ next \in Binary
NamesTypeOK ==
  /\ args \subseteq Catalogue \cup {Bridge} /\ cfgFile \subseteq Catalogue \cup {Bridge}
  /\ cfgMem \subseteq Catalogue \cup {Bridge} /\ wanted \subseteq Catalogue \cup {Bridge}
  /\ recorded \subseteq Catalogue
JobsTypeOK ==
  job \in [Builders -> [pc : {"idle", "building", "built", "checked", "swapped"},
                        want : SUBSET (Catalogue \cup {Bridge})]]
ProcessTypeOK ==
  /\ proc \in {"undeployed", "down", "converging", "rebuilding", "starting", "serving",
               "draining"}
  /\ compiled \subseteq GoPlugins \cup {Bridge} /\ live \subseteq Catalogue
  /\ host \in [up : BOOLEAN, loads : SUBSET PyPlugins]
  /\ marked \in BOOLEAN /\ armed \in BOOLEAN
CountsTypeOK == installsMade \in 0 .. MaxInstalls /\ crashes \in 0 .. MaxCrashes

LEMMA PluginTypeParts ==
  PluginTypeOK <=> BinariesTypeOK /\ NamesTypeOK /\ JobsTypeOK /\ ProcessTypeOK /\ CountsTypeOK
BY DEF PluginTypeOK, BinariesTypeOK, NamesTypeOK, JobsTypeOK, ProcessTypeOK, CountsTypeOK

\* Who has a build in progress.
Busy(b) == job[b].pc # "idle"

\* What is recorded is configured, and wanted by every build.
RecordIsWanted ==
  /\ recorded \subseteq cfgFile /\ recorded \subseteq cfgMem
  /\ proc = "converging" => recorded \subseteq wanted
  /\ proc = "undeployed" => recorded = {}
  /\ \A b \in Builders : Busy(b) => recorded \subseteq job[b].want

\* A build is Converge's before the process serves, an installer's afterwards.
BuildersInTurn ==
  /\ Busy(Boot) => proc = "rebuilding"
  /\ \A i \in Installers : Busy(i) => proc \in {"serving", "draining"}

\* What a build has checked lies there until it is swapped in, and what it has
\* swapped in is the executable until it is recorded.
BuildsAreSound ==
  \A b \in Builders :
    /\ At(b, "checked") => PassesCheck(b)
    /\ At(b, "swapped") => MissingFrom(exe.carries, job[b].want) = {}

DiskInv == PluginTypeOK /\ RecordIsWanted /\ BuildersInTurn /\ BuildsAreSound /\ DiskIsSound

\* One call of plugin_install at a time: two would write one .next file.
OneInstaller == \A i, j \in Installers : i = j

LEMMA FewerMissing ==
  ASSUME NEW carries, NEW names, NEW some \in SUBSET names, MissingFrom(carries, names) = {}
  PROVE  MissingFrom(carries, some) = {}
BY DEF MissingFrom

LEMMA BuildersAre == Boot \in Builders /\ (\A i \in Installers : i \in Builders /\ i # Boot)
BY PluginAssumption DEF Builders

\* Builds do not overlap.
LEMMA OneBuilds ==
  ASSUME BuildersInTurn, OneInstaller, NEW b \in Builders, NEW o \in Builders, Busy(b), Busy(o)
  PROVE  b = o
BY DEF BuildersInTurn, OneInstaller, Builders

-----------------------------------------------------------------------------
\* Types, with any number of installers.
LEMMA RunsTypes ==
  ASSUME PluginTypeOK, NEW mark \in BOOLEAN, Runs(mark)
  PROVE  /\ cfgMem' \subseteq Catalogue \cup {Bridge} /\ wanted' \subseteq Catalogue \cup {Bridge}
         /\ JobsTypeOK' /\ compiled' \subseteq GoPlugins \cup {Bridge} /\ live' = {}
         /\ marked' \in BOOLEAN /\ armed' = FALSE /\ proc' \in {"converging", "down"}
<1>1. BinariesTypeOK /\ NamesTypeOK
  BY PluginTypeParts
<1>2. wanted' \subseteq Catalogue \cup {Bridge}
  BY <1>1 DEF Runs, NamesTypeOK, Normalise, Catalogue
<1>3. JobsTypeOK'
  BY DEF Runs, JobsTypeOK, Idle
<1> QED
  BY <1>1, <1>2, <1>3 DEF Runs, BinariesTypeOK, Binary, NamesTypeOK

LEMMA GivesUpTypes ==
  ASSUME PluginTypeOK, NEW b \in Builders, GivesUpBuilding(b)
  PROVE  JobsTypeOK' /\ proc' \in {proc, "starting"}
<1>1. JobsTypeOK
  BY PluginTypeParts
<1> QED
  BY <1>1 DEF GivesUpBuilding, JobsTypeOK, Idle

LEMMA MovesTypes ==
  ASSUME PluginTypeOK, NEW b \in Builders,
         NEW pc \in {"idle", "building", "built", "checked", "swapped"}, Moves(b, pc)
  PROVE  JobsTypeOK'
<1>1. JobsTypeOK
  BY PluginTypeParts
<1>2. /\ job' = [job EXCEPT ![b] = [job[b] EXCEPT !.pc = pc]]
      /\ job[b] \in [pc : {"idle", "building", "built", "checked", "swapped"},
                     want : SUBSET (Catalogue \cup {Bridge})]
  BY <1>1 DEF Moves, JobsTypeOK
<1> QED
  BY <1>1, <1>2 DEF JobsTypeOK

LEMMA PluginBuildTypes ==
  ASSUME PluginTypeOK, NEW b \in Builders, RebuildSteps(b)
  PROVE  PluginTypeOK'
<1>1. BinariesTypeOK /\ NamesTypeOK /\ JobsTypeOK /\ ProcessTypeOK /\ CountsTypeOK
  BY PluginTypeParts
<1>2. NoBinary \in Binary
  BY DEF NoBinary, Binary
<1>3. TagsOf(job[b].want) \in SUBSET (GoPlugins \cup {Bridge})
  BY DEF TagsOf
<1>4. /\ UNCHANGED <<args, cfgFile, cfgMem, compiled, marked, wanted, live, host, armed,
                     toolVars, crashes>>
      /\ JobsTypeOK' /\ BinariesTypeOK' /\ proc' \in {proc, "starting"}
  <2>1. CASE CannotBuild(b)
    BY <1>1, <2>1, GivesUpTypes DEF CannotBuild, BinariesTypeOK
  <2>2. CASE BuildFails(b)
    BY <1>1, <1>2, <2>2, GivesUpTypes DEF BuildFails, BinariesTypeOK
  <2>3. CASE Builds(b)
    <3>1. PICK boots \in BOOLEAN : next' = [carries |-> TagsOf(job[b].want), boots |-> boots]
      BY <2>3 DEF Builds
    <3>2. next' \in Binary
      BY <1>3, <3>1 DEF Binary
    <3> QED
      BY <1>1, <2>3, <3>2, MovesTypes DEF Builds, BinariesTypeOK, procVars
  <2>4. CASE SelfChecks(b)
    BY <1>1, <1>2, <2>4, GivesUpTypes, MovesTypes DEF SelfChecks, BinariesTypeOK
  <2>5. CASE Swaps(b)
    BY <1>1, <1>2, <2>5, GivesUpTypes, MovesTypes DEF Swaps, BinariesTypeOK
  <2> QED
    BY <2>1, <2>2, <2>3, <2>4, <2>5 DEF RebuildSteps
<1> QED
  BY <1>1, <1>4, PluginTypeParts
     DEF PluginTypeOK, BinariesTypeOK, NamesTypeOK, JobsTypeOK, ProcessTypeOK, CountsTypeOK,
         toolVars

LEMMA ProcessTypes ==
  ASSUME PluginTypeOK, ProcessSteps
  PROVE  PluginTypeOK'
<1>1. BinariesTypeOK /\ NamesTypeOK /\ JobsTypeOK /\ ProcessTypeOK /\ CountsTypeOK
  BY PluginTypeParts
<1>2. UNCHANGED <<exe, next, args, cfgFile, toolVars, crashes>>
  BY DEF ProcessSteps, SupervisorStarts, Converges, ReExecs, Activates, DrainsForHandover,
         HandsOver
<1>3. /\ cfgMem' \subseteq Catalogue \cup {Bridge} /\ wanted' \subseteq Catalogue \cup {Bridge}
      /\ JobsTypeOK' /\ ProcessTypeOK'
  <2>1. CASE SupervisorStarts
    BY <1>1, <2>1, RunsTypes DEF SupervisorStarts, ProcessTypeOK
  <2>2. CASE Converges
    <3>1. JobsTypeOK'
      BY <1>1, <2>2, BuildersAre DEF Converges, JobsTypeOK, NamesTypeOK
    <3> QED
      BY <1>1, <2>2, <3>1 DEF Converges, ProcessTypeOK, NamesTypeOK
  <2>3. CASE ReExecs
    <3>1. CASE Runs(TRUE)
      BY <1>1, <2>3, <3>1, RunsTypes DEF ReExecs, ProcessTypeOK
    <3>2. CASE GivesUpBuilding(Boot) /\ UNCHANGED <<cfgMem, compiled, marked, wanted, live, armed>>
      BY <1>1, <2>3, <3>2, GivesUpTypes, BuildersAre DEF ReExecs, ProcessTypeOK, NamesTypeOK
    <3> QED
      BY <2>3, <3>1, <3>2 DEF ReExecs
  <2>4. CASE Activates
    <3> DEFINE py == wanted \cap PyPlugins
    <3>1. host' \in {host, [up |-> TRUE, loads |-> py]}
      BY <2>4 DEF Activates
    <3>2. host' \in [up : BOOLEAN, loads : SUBSET PyPlugins]
      <4>1. [up |-> TRUE, loads |-> py] \in [up : BOOLEAN, loads : SUBSET PyPlugins]
        OBVIOUS
      <4>2. host \in [up : BOOLEAN, loads : SUBSET PyPlugins]
        BY <1>1 DEF ProcessTypeOK
      <4> QED
        BY <3>1, <4>1, <4>2
    <3>3. live' \subseteq (wanted \cap GoPlugins \cap compiled) \cup host'.loads
      BY <2>4 DEF Activates
    <3>4. live' \subseteq Catalogue
      BY <3>2, <3>3 DEF Catalogue
    <3> QED
      BY <1>1, <2>4, <3>2, <3>4 DEF Activates, ProcessTypeOK, NamesTypeOK, JobsTypeOK
  <2>5. CASE DrainsForHandover
    BY <1>1, <2>5 DEF DrainsForHandover, ProcessTypeOK, NamesTypeOK, JobsTypeOK
  <2>6. CASE HandsOver
    <3>1. CASE Runs(TRUE)
      BY <1>1, <2>6, <3>1, RunsTypes DEF HandsOver, ProcessTypeOK
    <3>2. CASE ~Runs(TRUE)
      <4>1. JobsTypeOK'
        <5>1. job' = [b \in Builders |-> Idle]
          BY <2>6, <3>2 DEF HandsOver
        <5> QED
          BY <5>1 DEF JobsTypeOK, Idle
      <4> QED
        BY <1>1, <2>6, <3>2, <4>1 DEF HandsOver, ProcessTypeOK, NamesTypeOK
    <3> QED
      BY <3>1, <3>2
  <2> QED
    BY <2>1, <2>2, <2>3, <2>4, <2>5, <2>6 DEF ProcessSteps
<1> QED
  BY <1>1, <1>2, <1>3 DEF PluginTypeOK, BinariesTypeOK, NamesTypeOK, JobsTypeOK, ProcessTypeOK,
                          CountsTypeOK, toolVars
LEMMA InstallTypes ==
  ASSUME PluginTypeOK, NEW i \in Installers, RecordsAndArms(i) \/ \E p \in Catalogue : Installs(i, p)
  PROVE  PluginTypeOK'
<1>1. BinariesTypeOK /\ NamesTypeOK /\ JobsTypeOK /\ ProcessTypeOK /\ CountsTypeOK
  BY PluginTypeParts
<1>2. CASE RecordsAndArms(i)
  <2>1. /\ cfgMem' = job[i].want /\ job' = [job EXCEPT ![i] = Idle] /\ armed' = TRUE
        /\ UNCHANGED <<exe, next, args, procVars, live, host, installsMade, crashes>>
        /\ \/ cfgFile' = job[i].want /\ recorded' = recorded \cup (job[i].want \ {Bridge})
           \/ UNCHANGED <<cfgFile, recorded>>
    BY <1>2 DEF RecordsAndArms
  <2>2. job[i].want \subseteq Catalogue \cup {Bridge}
    BY <1>1, BuildersAre DEF JobsTypeOK
  <2>3. NamesTypeOK'
    BY <1>1, <2>1, <2>2 DEF NamesTypeOK, procVars
  <2>4. JobsTypeOK'
    BY <1>1, <2>1 DEF JobsTypeOK, Idle
  <2> QED
    BY <1>1, <2>1, <2>3, <2>4 DEF PluginTypeOK, BinariesTypeOK, NamesTypeOK, JobsTypeOK,
                                  ProcessTypeOK, CountsTypeOK, procVars
<1>3. CASE \E p \in Catalogue : Installs(i, p)
  <2>1. PICK p \in Catalogue : Installs(i, p)
    BY <1>3
  <2>2. WantWith(p) \subseteq Catalogue \cup {Bridge}
    BY <1>1 DEF WantWith, NamesTypeOK
  <2>3. JobsTypeOK'
    <3>1. job' = [job EXCEPT ![i] = [pc |-> "building", want |-> WantWith(p)]]
      BY <2>1 DEF Installs
    <3> QED
      BY <1>1, <2>2, <3>1 DEF JobsTypeOK
  <2>4. CountsTypeOK'
    <3>1. MaxInstalls \in Nat
      BY PluginAssumption
    <3> QED
      BY <1>1, <2>1, <3>1 DEF Installs, CountsTypeOK
  <2>5. /\ UNCHANGED <<exe, next, args, cfgFile, cfgMem, procVars, live, host, armed, recorded>>
    BY <2>1 DEF Installs
  <2> QED
    BY <1>1, <2>3, <2>4, <2>5 DEF PluginTypeOK, BinariesTypeOK, NamesTypeOK, JobsTypeOK,
                                  ProcessTypeOK, CountsTypeOK, procVars
<1> QED
  BY <1>2, <1>3

LEMMA OtherTypes ==
  ASSUME PluginTypeOK,
         \/ \E hostToo \in BOOLEAN : Crashes(hostToo)
         \/ \E c \in SUBSET (GoPlugins \cup {Bridge}), n, f \in SUBSET (Catalogue \cup {Bridge}) :
              Deploys(c, n, f)
  PROVE  PluginTypeOK'
<1>1. BinariesTypeOK /\ NamesTypeOK /\ JobsTypeOK /\ ProcessTypeOK /\ CountsTypeOK
  BY PluginTypeParts
<1>2. ASSUME NEW hostToo \in BOOLEAN, Crashes(hostToo) PROVE PluginTypeOK'
  <2>1. /\ crashes' = crashes + 1 /\ crashes < MaxCrashes /\ proc' = "down"
        /\ job' = [b \in Builders |-> Idle] /\ live' = {} /\ armed' = FALSE
        /\ host' = IF hostToo THEN [up |-> FALSE, loads |-> {}] ELSE host
        /\ UNCHANGED <<exe, next, args, cfgFile, cfgMem, compiled, marked, wanted, toolVars>>
    BY <1>2 DEF Crashes
  <2>2. JobsTypeOK'
    BY <2>1 DEF JobsTypeOK, Idle
  <2>3. CountsTypeOK'
    <3>1. MaxCrashes \in Nat
      BY PluginAssumption
    <3> QED
      BY <1>1, <2>1, <3>1 DEF CountsTypeOK, toolVars
  <2>4. ProcessTypeOK'
    <3>1. [up |-> FALSE, loads |-> {}] \in [up : BOOLEAN, loads : SUBSET PyPlugins]
      OBVIOUS
    <3> QED
      BY <1>1, <2>1, <3>1 DEF ProcessTypeOK
  <2> QED
    BY <1>1, <2>1, <2>2, <2>3, <2>4 DEF PluginTypeOK, BinariesTypeOK, NamesTypeOK, JobsTypeOK,
                                        ProcessTypeOK, CountsTypeOK, toolVars
<1>3. ASSUME NEW c \in SUBSET (GoPlugins \cup {Bridge}),
             NEW n \in SUBSET (Catalogue \cup {Bridge}), NEW f \in SUBSET (Catalogue \cup {Bridge}),
             Deploys(c, n, f)
      PROVE  PluginTypeOK'
  <2>1. /\ exe' = [carries |-> c, boots |-> TRUE] /\ cfgFile' = n /\ args' = f /\ proc' = "down"
        /\ UNCHANGED <<next, cfgMem, compiled, marked, wanted, live, host, job, armed, toolVars,
                       crashes>>
    BY <1>3 DEF Deploys
  <2>2. exe' \in Binary
    BY <2>1 DEF Binary
  <2> QED
    BY <1>1, <2>1, <2>2 DEF PluginTypeOK, BinariesTypeOK, NamesTypeOK, JobsTypeOK,
                            ProcessTypeOK, CountsTypeOK, toolVars
<1> QED
  BY <1>2, <1>3

LEMMA PluginTypesStart ==
  ASSUME PluginInit
  PROVE  PluginTypeOK
<1>1. NoBinary \in Binary
  BY DEF NoBinary, Binary
<1>2. job = [b \in Builders |-> Idle]
  BY DEF PluginInit
<1>3. JobsTypeOK
  BY <1>2 DEF JobsTypeOK, Idle
<1>4. MaxInstalls \in Nat /\ MaxCrashes \in Nat
  BY PluginAssumption
<1>5. BinariesTypeOK /\ NamesTypeOK /\ CountsTypeOK
  BY <1>1, <1>4 DEF PluginInit, BinariesTypeOK, NamesTypeOK, CountsTypeOK
<1>6. ProcessTypeOK
  <2>1. [up |-> FALSE, loads |-> {}] \in [up : BOOLEAN, loads : SUBSET PyPlugins]
    OBVIOUS
  <2> QED
    BY <2>1 DEF PluginInit, ProcessTypeOK
<1> QED
  BY <1>3, <1>5, <1>6, PluginTypeParts

LEMMA PluginTypesKept ==
  ASSUME PluginTypeOK, [PluginNext]_pluginVars
  PROVE  PluginTypeOK'
<1>1. CASE UNCHANGED pluginVars
  BY <1>1 DEF pluginVars, PluginTypeOK
<1>2. CASE PluginNext
  BY <1>2, PluginBuildTypes, ProcessTypes, InstallTypes, OtherTypes DEF PluginNext
<1> QED
  BY <1>1, <1>2

\* Whatever is deployed, built, installed or interrupted, by any number of
\* installers: executables carry compiled plugins, configuration and installs
\* name the catalogue's, and the old name of the bridge is never recorded as an
\* installed plugin (internal/plugins/catalogue.go, tools/plugin_manage.go).
THEOREM PluginTypeCorrect ==
  PluginInit /\ [][PluginNext]_pluginVars => []PluginTypeOK
BY PluginTypesStart, PluginTypesKept, PTL
-----------------------------------------------------------------------------
\* What is on disk, with one installer.

\* A handover or a start: no build survives it, and what is recorded is wanted.
LEMMA RunsKeeps ==
  ASSUME DiskInv, NEW mark, Runs(mark), UNCHANGED <<exe, next, cfgFile, recorded>>,
         proc # "undeployed"
  PROVE  RecordIsWanted' /\ BuildersInTurn' /\ BuildsAreSound' /\ DiskIsSound'
<1>1. RecordIsWanted /\ DiskIsSound /\ NamesTypeOK
  BY PluginTypeParts DEF DiskInv
<1>2. /\ cfgMem' = cfgFile /\ wanted' = Normalise(cfgFile \cup args)
      /\ job' = [b \in Builders |-> Idle] /\ proc' = "converging"
  BY <1>1 DEF Runs, DiskIsSound, ExecutableBoots
<1>3. \A b \in Builders : job'[b].pc = "idle"
  BY <1>2 DEF Idle
<1>4. recorded \subseteq wanted'
  BY <1>1, <1>2, PluginAssumption DEF RecordIsWanted, NamesTypeOK, Normalise
<1>5. RecordIsWanted'
  BY <1>1, <1>2, <1>3, <1>4 DEF RecordIsWanted, Busy
<1>6. BuildersInTurn' /\ BuildsAreSound'
  BY <1>3, BuildersAre DEF BuildersInTurn, BuildsAreSound, Busy, At
<1> QED
  BY <1>1, <1>2, <1>5, <1>6 DEF DiskIsSound, ExecutableBoots, InstalledStaysBuilt

\* A build that is given up leaves the executable that was there.
LEMMA GivesUpKeeps ==
  ASSUME DiskInv, OneInstaller, NEW b \in Builders, Busy(b), GivesUpBuilding(b),
         UNCHANGED <<exe, cfgFile, cfgMem, wanted, recorded>>
  PROVE  RecordIsWanted' /\ BuildersInTurn' /\ BuildsAreSound' /\ DiskIsSound'
<1>1. RecordIsWanted /\ DiskIsSound /\ JobsTypeOK /\ BuildersInTurn
  BY PluginTypeParts DEF DiskInv
<1>2. \A o \in Builders : o # b => ~Busy(o)
  BY <1>1, OneBuilds
<1>3. \A o \in Builders : job'[o].pc = "idle"
  BY <1>1, <1>2 DEF GivesUpBuilding, JobsTypeOK, Busy, Idle
<1>4. proc # "undeployed" /\ (proc' = proc \/ proc' = "starting")
  BY <1>1 DEF GivesUpBuilding, BuildersInTurn, Builders
<1>5. RecordIsWanted'
  BY <1>1, <1>3, <1>4 DEF RecordIsWanted, Busy
<1>6. BuildersInTurn' /\ BuildsAreSound'
  BY <1>3, BuildersAre DEF BuildersInTurn, BuildsAreSound, Busy, At
<1> QED
  BY <1>1, <1>4, <1>5, <1>6 DEF DiskIsSound, ExecutableBoots, InstalledStaysBuilt

\* A build that goes on.
LEMMA MovesKeeps ==
  ASSUME DiskInv, OneInstaller, NEW b \in Builders, Busy(b), NEW pc, pc # "idle", Moves(b, pc),
         UNCHANGED <<proc, cfgFile, cfgMem, wanted, recorded>>,
         pc = "checked" => next'.boots /\ MissingFrom(next'.carries, job[b].want) = {},
         pc = "swapped" => MissingFrom(exe'.carries, job[b].want) = {},
         DiskIsSound'
  PROVE  RecordIsWanted' /\ BuildersInTurn' /\ BuildsAreSound' /\ DiskIsSound'
<1>1. RecordIsWanted /\ JobsTypeOK /\ BuildersInTurn
  BY PluginTypeParts DEF DiskInv
<1>2. \A o \in Builders : o # b => ~Busy(o)
  BY <1>1, OneBuilds
<1>3. job'[b].pc = pc /\ job'[b].want = job[b].want
  BY <1>1 DEF Moves, JobsTypeOK
<1>4. \A o \in Builders : o # b => job'[o] = job[o] /\ job'[o].pc = "idle"
  BY <1>1, <1>2 DEF Moves, JobsTypeOK, Busy
<1>5. RecordIsWanted'
  BY <1>1, <1>3, <1>4 DEF RecordIsWanted, Busy
<1>6. BuildersInTurn'
  BY <1>1, <1>4, BuildersAre DEF BuildersInTurn, Busy
<1>7. BuildsAreSound'
  <2> SUFFICES ASSUME NEW o \in Builders
               PROVE  /\ job'[o].pc = "checked" =>
                           next'.boots /\ MissingFrom(next'.carries, job'[o].want) = {}
                      /\ job'[o].pc = "swapped" => MissingFrom(exe'.carries, job'[o].want) = {}
    BY DEF BuildsAreSound, At, PassesCheck, MissingFrom
  <2> QED
    BY <1>3, <1>4
<1> QED
  BY <1>5, <1>6, <1>7

LEMMA BuildKeeps ==
  ASSUME DiskInv, OneInstaller, NEW b \in Builders, RebuildSteps(b)
  PROVE  RecordIsWanted' /\ BuildersInTurn' /\ BuildsAreSound' /\ DiskIsSound'
<1>1. DiskIsSound /\ RecordIsWanted /\ BuildsAreSound /\ BuildersInTurn
  BY DEF DiskInv
<1>2. Busy(b)
  BY DEF Busy, At, RebuildSteps, CannotBuild, BuildFails, Builds, SelfChecks, Swaps
<1>3. UNCHANGED <<cfgFile, cfgMem, wanted, recorded>>
  BY DEF RebuildSteps, CannotBuild, BuildFails, Builds, SelfChecks, Swaps, procVars, toolVars
<1>4. CASE UNCHANGED exe /\ GivesUpBuilding(b)
  BY <1>2, <1>3, <1>4, GivesUpKeeps
<1>5. CASE Builds(b)
  <2>1. UNCHANGED <<exe, proc>> /\ Moves(b, "built")
    BY <1>5 DEF Builds, procVars
  <2>2. DiskIsSound'
    BY <1>1, <1>3, <2>1 DEF DiskIsSound, ExecutableBoots, InstalledStaysBuilt
  <2> QED
    BY <1>2, <1>3, <2>1, <2>2, MovesKeeps
<1>6. CASE SelfChecks(b) /\ PassesCheck(b)
  <2>1. UNCHANGED <<exe, next, proc>> /\ Moves(b, "checked")
    BY <1>6 DEF SelfChecks
  <2>2. DiskIsSound'
    BY <1>1, <1>3, <2>1 DEF DiskIsSound, ExecutableBoots, InstalledStaysBuilt
  <2>3. next'.boots /\ MissingFrom(next'.carries, job[b].want) = {}
    BY <1>6, <2>1 DEF PassesCheck
  <2> QED
    BY <1>2, <1>3, <2>1, <2>2, <2>3, MovesKeeps
<1>7. CASE Swaps(b) /\ next # NoBinary
  <2>1. exe' = next /\ UNCHANGED proc /\ Moves(b, "swapped")
    BY <1>7 DEF Swaps
  <2>2. next.boots /\ MissingFrom(next.carries, job[b].want) = {}
    BY <1>1, <1>7 DEF Swaps, BuildsAreSound, PassesCheck
  <2>3. recorded \subseteq job[b].want
    BY <1>1, <1>2 DEF RecordIsWanted
  <2>4. MissingFrom(next.carries, recorded) = {}
    BY <2>2, <2>3, FewerMissing
  <2>5. DiskIsSound'
    BY <1>3, <2>1, <2>2, <2>4 DEF DiskIsSound, ExecutableBoots, InstalledStaysBuilt
  <2> QED
    BY <1>2, <1>3, <2>1, <2>2, <2>5, MovesKeeps
<1> QED
  BY <1>4, <1>5, <1>6, <1>7 DEF RebuildSteps, CannotBuild, BuildFails, SelfChecks, Swaps

LEMMA ProcessKeeps ==
  ASSUME DiskInv, OneInstaller, ProcessSteps
  PROVE  RecordIsWanted' /\ BuildersInTurn' /\ BuildsAreSound' /\ DiskIsSound'
<1>1. /\ DiskIsSound /\ RecordIsWanted /\ BuildsAreSound /\ BuildersInTurn
      /\ JobsTypeOK /\ PluginTypeOK
  BY PluginTypeParts DEF DiskInv
<1>2. UNCHANGED <<exe, next, cfgFile, recorded>>
  BY DEF ProcessSteps, SupervisorStarts, Converges, ReExecs, Activates, DrainsForHandover,
         HandsOver, toolVars
<1>3. CASE SupervisorStarts
  BY <1>2, <1>3, RunsKeeps DEF SupervisorStarts
<1>4. CASE Converges
  <2>1. \A b \in Builders : ~Busy(b)
    BY <1>1, <1>4 DEF Converges, BuildersInTurn, Builders
  <2>2. CASE proc' = "starting" /\ UNCHANGED job
    BY <1>1, <1>2, <1>4, <2>1, <2>2
       DEF Converges, RecordIsWanted, BuildersInTurn, BuildsAreSound, DiskIsSound,
           ExecutableBoots, InstalledStaysBuilt, Busy, At, PassesCheck, MissingFrom
  <2>3. CASE /\ proc' = "rebuilding"
             /\ job' = [job EXCEPT ![Boot] = [pc |-> "building", want |-> wanted]]
    <3>1. /\ job'[Boot] = [pc |-> "building", want |-> wanted]
          /\ \A i \in Builders : i # Boot => job'[i] = job[i] /\ job'[i].pc = "idle"
      BY <1>1, <2>1, <2>3, BuildersAre DEF JobsTypeOK, Busy
    <3>2. recorded \subseteq wanted /\ cfgMem' = cfgMem
      BY <1>1, <1>4 DEF Converges, RecordIsWanted
    <3>3. RecordIsWanted'
      BY <1>1, <1>2, <2>3, <3>1, <3>2 DEF RecordIsWanted, Busy
    <3>4. BuildersInTurn'
      BY <2>3, <3>1, BuildersAre DEF BuildersInTurn, Busy
    <3>5. \A b \in Builders : job'[b].pc # "checked" /\ job'[b].pc # "swapped"
      BY <3>1
    <3>6. BuildsAreSound'
      BY <3>5 DEF BuildsAreSound, At
    <3> QED
      BY <1>1, <1>2, <1>4, <3>3, <3>4, <3>6
         DEF Converges, DiskIsSound, ExecutableBoots, InstalledStaysBuilt
  <2> QED
    BY <1>4, <2>2, <2>3 DEF Converges
<1>5. CASE ReExecs
  <2>1. Busy(Boot) /\ Boot \in Builders /\ proc # "undeployed"
    BY <1>1, <1>5, BuildersAre DEF ReExecs, At, Busy, BuildersInTurn
  <2>2. CASE Runs(TRUE)
    BY <1>2, <2>1, <2>2, RunsKeeps
  <2>3. CASE GivesUpBuilding(Boot) /\ UNCHANGED <<cfgMem, compiled, marked, wanted, live, armed>>
    BY <1>2, <2>1, <2>3, GivesUpKeeps
  <2> QED
    BY <1>5, <2>2, <2>3 DEF ReExecs
<1>6. CASE Activates \/ DrainsForHandover
  <2>1. /\ UNCHANGED <<exe, next, cfgFile, cfgMem, wanted, job, recorded>>
        /\ \/ proc = "starting" /\ proc' = "serving"
           \/ proc = "serving" /\ proc' = "draining"
    BY <1>6 DEF Activates, DrainsForHandover, toolVars
  <2>2. RecordIsWanted' /\ BuildersInTurn' /\ DiskIsSound'
    BY <1>1, <2>1 DEF RecordIsWanted, BuildersInTurn, DiskIsSound, ExecutableBoots,
                      InstalledStaysBuilt, Busy
  <2>3. BuildsAreSound'
    BY <1>1, <2>1 DEF BuildsAreSound, At, PassesCheck, MissingFrom
  <2> QED
    BY <2>2, <2>3
<1>7. CASE HandsOver
  <2>1. CASE Runs(TRUE)
    BY <1>2, <1>7, <2>1, RunsKeeps DEF HandsOver
  <2>2. CASE /\ proc' = "down" /\ job' = [b \in Builders |-> Idle]
             /\ UNCHANGED <<cfgMem, compiled, marked, wanted>>
    <3>1. \A b \in Builders : job'[b].pc = "idle"
      BY <2>2 DEF Idle
    <3>2. BuildersInTurn' /\ BuildsAreSound'
      BY <3>1, BuildersAre DEF BuildersInTurn, BuildsAreSound, Busy, At
    <3> QED
      BY <1>1, <1>2, <1>7, <2>2, <3>1, <3>2
         DEF HandsOver, RecordIsWanted, Busy, DiskIsSound, ExecutableBoots, InstalledStaysBuilt
  <2> QED
    BY <1>7, <2>1, <2>2 DEF HandsOver
<1> QED
  BY <1>3, <1>4, <1>5, <1>6, <1>7 DEF ProcessSteps

LEMMA InstallKeeps ==
  ASSUME DiskInv, OneInstaller, NEW i \in Installers,
         RecordsAndArms(i) \/ \E p \in Catalogue : Installs(i, p)
  PROVE  RecordIsWanted' /\ BuildersInTurn' /\ BuildsAreSound' /\ DiskIsSound'
<1>1. DiskIsSound /\ RecordIsWanted /\ BuildsAreSound /\ BuildersInTurn /\ JobsTypeOK
  BY PluginTypeParts DEF DiskInv
<1>2. i \in Builders /\ i # Boot /\ Boot \in Builders
  BY BuildersAre
<1>3. CASE RecordsAndArms(i)
  <2>1. /\ job[i].pc = "swapped" /\ cfgMem' = job[i].want /\ job' = [job EXCEPT ![i] = Idle]
        /\ UNCHANGED <<exe, proc, wanted>>
        /\ \/ cfgFile' = job[i].want /\ recorded' = recorded \cup (job[i].want \ {Bridge})
           \/ UNCHANGED <<cfgFile, recorded>>
    BY <1>3 DEF RecordsAndArms, At, procVars
  <2>2. Busy(i) /\ proc \in {"serving", "draining"}
    BY <1>1, <2>1 DEF Busy, BuildersInTurn
  <2>3. recorded \subseteq job[i].want /\ MissingFrom(exe.carries, job[i].want) = {}
    BY <1>1, <1>2, <2>1, <2>2 DEF RecordIsWanted, BuildsAreSound, At
  <2>4. \A o \in Builders : job'[o].pc = "idle"
    <3>1. \A o \in Builders : o # i => ~Busy(o)
      BY <1>1, <1>2, <2>2, OneBuilds
    <3> QED
      BY <1>1, <2>1, <3>1 DEF JobsTypeOK, Busy, Idle
  <2>5. recorded' \subseteq job[i].want /\ recorded' \subseteq cfgFile'
    BY <1>1, <2>1, <2>3 DEF RecordIsWanted
  <2>6. MissingFrom(exe.carries, recorded') = {}
    BY <2>3, <2>5, FewerMissing
  <2>7. RecordIsWanted'
    BY <2>1, <2>2, <2>4, <2>5 DEF RecordIsWanted, Busy
  <2>8. BuildersInTurn' /\ BuildsAreSound'
    BY <2>4, BuildersAre DEF BuildersInTurn, BuildsAreSound, Busy, At
  <2> QED
    BY <1>1, <2>1, <2>6, <2>7, <2>8 DEF DiskIsSound, ExecutableBoots, InstalledStaysBuilt
<1>4. ASSUME NEW p \in Catalogue, Installs(i, p)
      PROVE  RecordIsWanted' /\ BuildersInTurn' /\ BuildsAreSound' /\ DiskIsSound'
  <2>1. /\ proc = "serving" /\ job[i].pc = "idle"
        /\ job' = [job EXCEPT ![i] = [pc |-> "building", want |-> WantWith(p)]]
        /\ UNCHANGED <<exe, next, cfgFile, cfgMem, proc, wanted, recorded>>
    BY <1>4 DEF Installs, At, procVars
  <2>2. /\ job'[i] = [pc |-> "building", want |-> WantWith(p)]
        /\ \A o \in Builders : o # i => job'[o] = job[o]
    BY <1>1, <1>2, <2>1 DEF JobsTypeOK
  <2>3. recorded \subseteq WantWith(p)
    BY <1>1 DEF RecordIsWanted, WantWith
  <2>4. RecordIsWanted'
    BY <1>1, <2>1, <2>2, <2>3 DEF RecordIsWanted, Busy
  <2>5. BuildersInTurn'
    BY <1>1, <1>2, <2>1, <2>2, BuildersAre DEF BuildersInTurn, Busy
  <2>6. BuildsAreSound'
    <3> SUFFICES ASSUME NEW o \in Builders
                 PROVE  /\ job'[o].pc = "checked" =>
                             next.boots /\ MissingFrom(next.carries, job'[o].want) = {}
                        /\ job'[o].pc = "swapped" => MissingFrom(exe.carries, job'[o].want) = {}
      BY <2>1 DEF BuildsAreSound, At, PassesCheck, MissingFrom
    <3> QED
      BY <1>1, <2>2 DEF BuildsAreSound, At, PassesCheck
  <2> QED
    BY <1>1, <2>1, <2>4, <2>5, <2>6 DEF DiskIsSound, ExecutableBoots, InstalledStaysBuilt
<1> QED
  BY <1>3, <1>4

LEMMA OtherKeeps ==
  ASSUME DiskInv,
         \/ \E hostToo \in BOOLEAN : Crashes(hostToo)
         \/ \E c \in SUBSET (GoPlugins \cup {Bridge}), n, f \in SUBSET (Catalogue \cup {Bridge}) :
              Deploys(c, n, f)
  PROVE  RecordIsWanted' /\ BuildersInTurn' /\ BuildsAreSound' /\ DiskIsSound'
<1>1. DiskIsSound /\ RecordIsWanted /\ BuildersInTurn
  BY DEF DiskInv
<1>2. ASSUME NEW hostToo \in BOOLEAN, Crashes(hostToo)
      PROVE  RecordIsWanted' /\ BuildersInTurn' /\ BuildsAreSound' /\ DiskIsSound'
  <2>1. /\ proc # "undeployed" /\ proc' = "down" /\ job' = [b \in Builders |-> Idle]
        /\ UNCHANGED <<exe, cfgFile, cfgMem, wanted, recorded>>
    BY <1>2 DEF Crashes, toolVars
  <2>2. \A b \in Builders : job'[b].pc = "idle"
    BY <2>1 DEF Idle
  <2>3. BuildersInTurn' /\ BuildsAreSound'
    BY <2>2, BuildersAre DEF BuildersInTurn, BuildsAreSound, Busy, At
  <2> QED
    BY <1>1, <2>1, <2>2, <2>3
       DEF RecordIsWanted, Busy, DiskIsSound, ExecutableBoots, InstalledStaysBuilt
<1>3. ASSUME NEW c, NEW n, NEW f, Deploys(c, n, f)
      PROVE  RecordIsWanted' /\ BuildersInTurn' /\ BuildsAreSound' /\ DiskIsSound'
  <2>1. /\ proc = "undeployed" /\ proc' = "down" /\ exe'.boots
        /\ UNCHANGED <<cfgMem, wanted, job, recorded>>
    BY <1>3 DEF Deploys, toolVars
  <2>2. recorded = {} /\ \A b \in Builders : job'[b].pc = "idle"
    BY <1>1, <2>1 DEF RecordIsWanted, BuildersInTurn, Busy, Builders
  <2>3. BuildersInTurn' /\ BuildsAreSound'
    BY <2>2, BuildersAre DEF BuildersInTurn, BuildsAreSound, Busy, At
  <2>4. RecordIsWanted'
    BY <2>1, <2>2 DEF RecordIsWanted, Busy
  <2>5. DiskIsSound'
    BY <2>1, <2>2 DEF DiskIsSound, ExecutableBoots, InstalledStaysBuilt, MissingFrom
  <2> QED
    BY <2>3, <2>4, <2>5
<1> QED
  BY <1>2, <1>3

\* With one installation at a time, whatever the catalogue, the plugins and the
\* moment the process dies: the executable on disk starts, and carries every
\* plugin whose install was answered as done and written (Rebuild replaces it
\* only by a binary whose selfcheck named everything wanted, and what is wanted
\* starts from the recorded set; internal/plugins/converge.go).
THEOREM DiskStaysSound ==
  ASSUME OneInstaller
  PROVE  PluginInit /\ [][PluginNext]_pluginVars => []DiskIsSound
<1>1. PluginInit => DiskInv
  <2> SUFFICES ASSUME PluginInit PROVE DiskInv
    OBVIOUS
  <2>1. \A b \in Builders : job[b].pc = "idle"
    BY DEF PluginInit, Idle
  <2>2. BuildersInTurn /\ BuildsAreSound
    BY <2>1, BuildersAre DEF BuildersInTurn, BuildsAreSound, Busy, At
  <2>3. RecordIsWanted /\ DiskIsSound
    BY <2>1 DEF PluginInit, RecordIsWanted, Busy, DiskIsSound, ExecutableBoots,
                InstalledStaysBuilt, MissingFrom
  <2> QED
    BY <2>2, <2>3, PluginTypesStart DEF DiskInv
<1>2. DiskInv /\ [PluginNext]_pluginVars => DiskInv'
  <2> SUFFICES ASSUME DiskInv, [PluginNext]_pluginVars PROVE DiskInv'
    OBVIOUS
  <2>1. PluginTypeOK'
    BY PluginTypesKept DEF DiskInv
  <2>2. CASE UNCHANGED pluginVars
    BY <2>1, <2>2 DEF pluginVars, DiskInv, RecordIsWanted, BuildersInTurn, BuildsAreSound,
                      DiskIsSound, ExecutableBoots, InstalledStaysBuilt, Busy, At, PassesCheck,
                      MissingFrom
  <2>3. CASE PluginNext
    BY <2>1, <2>3, BuildKeeps, ProcessKeeps, InstallKeeps, OtherKeeps DEF PluginNext, DiskInv
  <2> QED
    BY <2>2, <2>3
<1>3. DiskInv => DiskIsSound
  BY DEF DiskInv
<1> QED
  BY <1>1, <1>2, <1>3, PTL
-----------------------------------------------------------------------------
(* The browser bridge.                                                      *)

CloseCodes == {"none", "auth", "revoked", "replaced", "timeout"}
LinkRecords ==
  [stage : LinkStages, cred : Creds \cup {<<"none", NoCode>>}, old : Links \cup {NoLink},
   closeErr : BOOLEAN, srvOpen : BOOLEAN, extOpen : BOOLEAN, code : CloseCodes,
   pending : SUBSET Attempts, welcome : BOOLEAN, toExt : SUBSET Attempts,
   toServer : SUBSET Attempts]

CallStages == {"idle", "picked", "added", "waiting", "rejoin", "judging", "blocked", "done"}
BridgeCallRecords ==
  [pc : CallStages, idempotent : BOOLEAN, on : Links \cup {NoLink}, try : 1 .. 2, gen : Nat,
   chan : {"empty", "answer", "closed"},
   outcome : {"none", "ok", "nobrowser", "disconnected", "timeout"}]

StoreTypes ==
  /\ pairCode \in [Codes -> {"unmade", "fresh", "used", "expired"}]
  /\ device \in [Codes -> {"none", "live", "revoked"}]
  /\ revoking \subseteq Codes
LinkTypes == link \in [Links -> LinkRecords]
SessionTypes == sessionOf \in [Codes -> Links \cup {NoLink}] /\ joinedGen \in Nat
CallTypes == call \in [BridgeCalls -> BridgeCallRecords]
ExtensionTypes ==
  /\ storage \in [code : Codes \cup {NoCode}, secret : Codes \cup {NoCode}]
  /\ loads \subseteq Creds /\ changed \in BOOLEAN /\ ws \in Links \cup {NoLink}
  /\ doing \subseteq Links \X Attempts
  /\ executed \in [BridgeCalls -> Nat]

BridgeTypes == StoreTypes /\ LinkTypes /\ SessionTypes /\ CallTypes /\ ExtensionTypes

LEMMA LinksAre == NoLink \notin Links /\ Links \subseteq Nat /\ MaxLinks \in Nat
BY BridgeAssumption DEF Links, NoLink

\* What shut does to a session.
LEMMA ShutFacts ==
  ASSUME NEW l \in LinkRecords, NEW code \in CloseCodes
  PROVE  /\ Shut(l, code) \in LinkRecords
         /\ Shut(l, code).stage = l.stage /\ Shut(l, code).cred = l.cred
         /\ Shut(l, code).old = l.old /\ Shut(l, code).pending = l.pending
         /\ Shut(l, code).extOpen = l.extOpen /\ Shut(l, code).welcome = l.welcome
         /\ Shut(l, code).toExt = l.toExt /\ Shut(l, code).toServer = l.toServer
         /\ l.closeErr => Shut(l, code).closeErr
         /\ l.srvOpen => Shut(l, code).closeErr /\ Shut(l, code).code = code
         /\ ~l.srvOpen => Shut(l, code) = l
         /\ ~Shut(l, code).srvOpen
BY DEF Shut, LinkRecords

-----------------------------------------------------------------------------
\* How one link may change: what it was dialled with stays, what was closed
\* stays closed, and its stages come in their order.
SameFrame(l, m) ==
  /\ m.cred = l.cred /\ (l.closeErr => m.closeErr) /\ (l.srvOpen /\ ~m.srvOpen => m.closeErr)

LinkMove(k, l, m) ==
  \/ m.stage = l.stage /\ m.old = l.old /\ SameFrame(l, m)
  \/ /\ l.stage = "unused" /\ m.stage = "hello"
     /\ m.cred \in loads /\ m.srvOpen /\ m.old = l.old
  \/ /\ <<l.stage, m.stage>> \in {<<"hello", "authed">>, <<"authed", "welcomed">>}
     /\ m.old = l.old /\ SameFrame(l, m)
  \/ l.stage \in {"hello", "authed"} /\ m.stage = "drained" /\ m.cred = l.cred
  \/ /\ l.stage = "welcomed" /\ m.stage = "replacing"
     /\ m.old = sessionOf[l.cred[2]] /\ SameFrame(l, m)
     /\ sessionOf' = [sessionOf EXCEPT ![l.cred[2]] = k] /\ joinedGen' = joinedGen + 1
  \/ /\ l.stage = "replacing" /\ m.stage = "running" /\ SameFrame(l, m)
     /\ \A j \in Links : j = l.old /\ j # k /\ link[j].srvOpen => link'[j].closeErr
  \/ l.stage = "running" /\ m.stage = "ended" /\ m.closeErr /\ SameFrame(l, m)
  \/ /\ l.stage = "ended" /\ m.stage = "unregistered" /\ SameFrame(l, m)
     /\ sessionOf' = WithoutSession(k)
  \/ /\ l.stage = "unregistered" /\ m.stage = "drained" /\ SameFrame(l, m)
     /\ \A c \in BridgeCalls : <<c, call[c].try>> \in l.pending /\ call[c].on = k
                                 => call'[c].chan = "closed"

\* Steps that leave the links alone.
LEMMA LinksRest ==
  ASSUME \/ \E c \in Codes : Pair(c) \/ CodeExpires(c) \/ RevokeStores(c) \/ Pastes(c)
         \/ \E c \in BridgeCalls : \/ Picks(c) \/ PicksNone(c) \/ Receives(c) \/ LooksForRejoin(c)
                                   \/ JudgesSession(c) \/ Rejoined(c) \/ RejoinEnds(c)
         \/ OpensSocket \/ \E cred \in loads : DialDropped(cred)
  PROVE  UNCHANGED link
BY DEF Pair, CodeExpires, RevokeStores, Pastes, Picks, PicksNone, Receives, LooksForRejoin,
       JudgesSession, Rejoined, RejoinEnds, OpensSocket, DialDropped

LinksMove == LinkTypes' /\ \A j \in Links : LinkMove(j, link[j], link'[j])

\* What holds of each link by itself.
LinkSound ==
  \A k \in Links :
    /\ link[k].stage # "unused" => link[k].cred \in Creds
    /\ link[k].stage \notin {"unused", "drained"} /\ ~link[k].srvOpen => link[k].closeErr
    /\ link[k].stage \in {"ended", "unregistered"} => link[k].closeErr
    /\ link[k].stage = "replacing" => link[k].old # k

LEMMA CredParts ==
  ASSUME NEW cred \in Creds
  PROVE  cred[1] \in {"code", "secret"} /\ cred[2] \in Codes
BY DEF Creds

LEMMA OneMoves ==
  ASSUME LinkTypes, NEW k \in Links, NEW m \in LinkRecords, link' = [link EXCEPT ![k] = m],
         LinkMove(k, link[k], m)
  PROVE  LinksMove
<1>1. LinkTypes'
  BY DEF LinkTypes
<1>2. link'[k] = m /\ \A j \in Links : j # k => link'[j] = link[j]
  BY DEF LinkTypes
<1>3. \A j \in Links : j # k => LinkMove(j, link[j], link'[j])
  BY <1>2 DEF LinkMove, SameFrame
<1> QED
  BY <1>1, <1>2, <1>3 DEF LinksMove

LEMMA NoneMoves ==
  ASSUME LinkTypes, UNCHANGED link
  PROVE  LinksMove
BY DEF LinksMove, LinkTypes, LinkMove, SameFrame

\* A link whose session may be shut, with something else of it changed.
LEMMA StaysPut ==
  ASSUME NEW k, NEW l, NEW m, m.stage = l.stage, m.old = l.old, m.cred = l.cred,
         l.closeErr => m.closeErr, l.srvOpen /\ ~m.srvOpen => m.closeErr
  PROVE  LinkMove(k, l, m)
BY DEF LinkMove, SameFrame

LEMMA HandshakeMoves ==
  ASSUME BridgeTypes, LinkSound, NEW k \in Links,
         Authenticates(k) \/ Refuses(k) \/ HandshakeFails(k) \/ Welcomes(k) \/ Registers(k)
  PROVE  LinksMove
<1>0. LinkTypes /\ SessionTypes
  BY DEF BridgeTypes
<1>1. link[k] \in LinkRecords
  BY <1>0 DEF LinkTypes
<1>2. CASE Authenticates(k)
  <2> DEFINE m == [link[k] EXCEPT !.stage = "authed"]
  <2>1. m \in LinkRecords /\ LinkMove(k, link[k], m)
    BY <1>1, <1>2 DEF Authenticates, LinkRecords, LinkMove, SameFrame, LinkStages
  <2>2. link' = [link EXCEPT ![k] = m]
    BY <1>0, <1>2 DEF Authenticates, LinkTypes
  <2> QED
    BY <1>0, <2>1, <2>2, OneMoves
<1>3. CASE Refuses(k)
  <2> DEFINE l == Shut(link[k], "auth")
             m == [l EXCEPT !.stage = "drained"]
  <2>1. l \in LinkRecords /\ l.cred = link[k].cred
    BY <1>1, ShutFacts DEF CloseCodes
  <2>2. link' = [link EXCEPT ![k] = m] /\ link[k].stage = "hello"
    BY <1>3 DEF Refuses
  <2> HIDE DEF l
  <2>3. m \in LinkRecords /\ m.stage = "drained" /\ m.cred = l.cred
    BY <2>1 DEF LinkRecords, LinkStages
  <2>4. LinkMove(k, link[k], m)
    BY <2>1, <2>2, <2>3 DEF LinkMove
  <2> HIDE DEF m
  <2> QED
    BY <1>0, <2>2, <2>3, <2>4, OneMoves
<1>4. CASE HandshakeFails(k)
  <2> DEFINE m == [link[k] EXCEPT !.stage = "drained", !.srvOpen = FALSE]
  <2>1. link' = [link EXCEPT ![k] = m] /\ link[k].stage \in {"hello", "authed"}
    BY <1>0, <1>4 DEF HandshakeFails, LinkTypes
  <2>2. m \in LinkRecords /\ m.stage = "drained" /\ m.cred = link[k].cred
    BY <1>1 DEF LinkRecords, LinkStages
  <2>3. LinkMove(k, link[k], m)
    BY <2>1, <2>2 DEF LinkMove
  <2> HIDE DEF m
  <2> QED
    BY <1>0, <2>1, <2>2, <2>3, OneMoves
<1>5. CASE Welcomes(k)
  <2> DEFINE m == [link[k] EXCEPT !.stage = "welcomed", !.welcome = TRUE]
  <2>1. m \in LinkRecords /\ LinkMove(k, link[k], m)
    BY <1>1, <1>5 DEF Welcomes, LinkRecords, LinkMove, SameFrame, LinkStages
  <2>2. link' = [link EXCEPT ![k] = m]
    BY <1>0, <1>5 DEF Welcomes, LinkTypes
  <2> QED
    BY <1>0, <2>1, <2>2, OneMoves
<1>6. CASE Registers(k)
  <2> DEFINE s == sessionOf[DeviceOf(k)]
             m == [link[k] EXCEPT !.stage = "replacing", !.old = s]
  <2>1. link' = [link EXCEPT ![k] = m] /\ link[k].stage = "welcomed"
    BY <1>0, <1>6 DEF Registers, LinkTypes
  <2>2. DeviceOf(k) \in Codes
    BY <2>1, CredParts DEF LinkSound, DeviceOf
  <2>3. /\ s \in Links \cup {NoLink} /\ s = sessionOf[link[k].cred[2]]
        /\ sessionOf' = [sessionOf EXCEPT ![link[k].cred[2]] = k] /\ joinedGen' = joinedGen + 1
    BY <1>0, <1>6, <2>2 DEF SessionTypes, DeviceOf, Registers
  <2> HIDE DEF s
  <2>4. m \in LinkRecords /\ LinkMove(k, link[k], m)
    BY <1>1, <2>1, <2>3 DEF LinkRecords, LinkMove, SameFrame, LinkStages
  <2> HIDE DEF m
  <2> QED
    BY <1>0, <2>1, <2>4, OneMoves
<1> QED
  BY <1>2, <1>3, <1>4, <1>5, <1>6

LEMMA SessionMoves ==
  ASSUME BridgeTypes, NEW k \in Links,
         \/ ReadFails(k) \/ Silence(k) \/ Unregisters(k) \/ Drains(k)
         \/ \E a \in Attempts : ReadsAnswer(k, a)
  PROVE  LinksMove
<1>0. LinkTypes
  BY DEF BridgeTypes
<1>1. link[k] \in LinkRecords
  BY <1>0 DEF LinkTypes
<1> DEFINE l == Shut(link[k], "timeout")
<1>l. /\ l \in LinkRecords /\ l.cred = link[k].cred /\ l.stage = link[k].stage
      /\ link[k].srvOpen => l.closeErr
  BY <1>1, ShutFacts DEF CloseCodes
<1>2. CASE ReadFails(k)
  <2> DEFINE m == [l EXCEPT !.stage = "ended", !.closeErr = TRUE]
  <2>1. link' = [link EXCEPT ![k] = m] /\ link[k].stage = "running"
    BY <1>2 DEF ReadFails
  <2> HIDE DEF l
  <2>2. m \in LinkRecords /\ m.stage = "ended" /\ m.closeErr /\ m.cred = link[k].cred
    BY <1>l DEF LinkRecords, LinkStages
  <2> HIDE DEF m
  <2>3. LinkMove(k, link[k], m)
    BY <2>1, <2>2 DEF LinkMove, SameFrame
  <2> QED
    BY <1>0, <2>1, <2>2, <2>3, OneMoves
<1>3. CASE Silence(k)
  <2> DEFINE m == [l EXCEPT !.stage = "ended"]
  <2>1. link' = [link EXCEPT ![k] = m] /\ link[k].stage = "running" /\ link[k].srvOpen
    BY <1>3 DEF Silence
  <2>l. l.closeErr
    BY <1>l, <2>1
  <2> HIDE DEF l
  <2>2. m \in LinkRecords /\ m.stage = "ended" /\ m.closeErr /\ m.cred = link[k].cred
    BY <1>l, <2>l DEF LinkRecords, LinkStages
  <2> HIDE DEF m
  <2>3. LinkMove(k, link[k], m)
    BY <2>1, <2>2 DEF LinkMove, SameFrame
  <2> QED
    BY <1>0, <2>1, <2>2, <2>3, OneMoves
<1>4. CASE Unregisters(k)
  <2> DEFINE m == [link[k] EXCEPT !.stage = "unregistered"]
  <2>0. /\ m \in LinkRecords /\ link[k].stage = "ended" /\ m.stage = "unregistered"
        /\ SameFrame(link[k], m) /\ sessionOf' = WithoutSession(k)
    BY <1>1, <1>4 DEF Unregisters, LinkRecords, SameFrame, LinkStages
  <2>1. m \in LinkRecords /\ LinkMove(k, link[k], m)
    BY <2>0 DEF LinkMove
  <2>2. link' = [link EXCEPT ![k] = m]
    BY <1>0, <1>4 DEF Unregisters, LinkTypes
  <2> QED
    BY <1>0, <2>1, <2>2, OneMoves
<1>5. CASE Drains(k)
  <2> DEFINE m == [link[k] EXCEPT !.stage = "drained", !.pending = {}]
  <2>0. /\ m \in LinkRecords /\ link[k].stage = "unregistered" /\ m.stage = "drained"
        /\ SameFrame(link[k], m)
    BY <1>1, <1>5 DEF Drains, LinkRecords, SameFrame, LinkStages
  <2>c. \A c \in BridgeCalls :
          <<c, call[c].try>> \in link[k].pending /\ call[c].on = k => call'[c].chan = "closed"
    <3>1. call \in [BridgeCalls -> BridgeCallRecords]
      BY DEF BridgeTypes, CallTypes
    <3> SUFFICES ASSUME NEW c \in BridgeCalls, <<c, call[c].try>> \in link[k].pending,
                        call[c].on = k
                 PROVE  call'[c].chan = "closed"
      OBVIOUS
    <3>2. call'[c] = [call[c] EXCEPT !.chan = "closed"]
      BY <1>5 DEF Drains
    <3> QED
      BY <3>1, <3>2 DEF BridgeCallRecords
  <2>1. m \in LinkRecords /\ LinkMove(k, link[k], m)
    BY <2>0, <2>c DEF LinkMove
  <2>2. link' = [link EXCEPT ![k] = m]
    BY <1>0, <1>5 DEF Drains, LinkTypes
  <2> QED
    BY <1>0, <2>1, <2>2, OneMoves
<1>6. ASSUME NEW a \in Attempts, ReadsAnswer(k, a) PROVE LinksMove
  <2> DEFINE m == [link[k] EXCEPT !.toServer = @ \ {a}, !.pending = @ \ {a}]
  <2>1. m \in LinkRecords /\ LinkMove(k, link[k], m)
    BY <1>1 DEF LinkRecords, LinkMove, SameFrame
  <2>2. link' = [link EXCEPT ![k] = m]
    BY <1>0, <1>6 DEF ReadsAnswer, LinkTypes
  <2> QED
    BY <1>0, <2>1, <2>2, OneMoves
<1> QED
  BY <1>2, <1>3, <1>4, <1>5, <1>6

LEMMA ShutsOldMoves ==
  ASSUME BridgeTypes, NEW k \in Links, ShutsOld(k)
  PROVE  LinksMove
<1>0. LinkTypes
  BY DEF BridgeTypes
<1>1. /\ link[k].stage = "replacing"
      /\ link' = [m \in Links |->
                    IF m = k THEN [link[k] EXCEPT !.stage = "running", !.old = NoLink]
                    ELSE IF m = link[k].old THEN Shut(link[m], "replaced") ELSE link[m]]
  BY DEF ShutsOld
<1>2. ASSUME NEW j \in Links PROVE link'[j] \in LinkRecords /\ LinkMove(j, link[j], link'[j])
  <2>0. link[j] \in LinkRecords
    BY <1>0 DEF LinkTypes
  <2>1. CASE j = k
    <3>1. link'[j] = [link[j] EXCEPT !.stage = "running", !.old = NoLink]
      BY <1>1, <2>1
    <3>2. /\ link'[j] \in LinkRecords /\ link[j].stage = "replacing"
          /\ link'[j].stage = "running" /\ SameFrame(link[j], link'[j])
      BY <1>1, <2>0, <2>1, <3>1 DEF LinkRecords, LinkStages, SameFrame
    <3>3. ASSUME NEW i \in Links, i = link[j].old, i # j, link[i].srvOpen PROVE link'[i].closeErr
      <4>1. link'[i] = Shut(link[i], "replaced")
        BY <1>1, <2>1, <3>3
      <4>2. link[i] \in LinkRecords
        BY <1>0 DEF LinkTypes
      <4> QED
        BY <3>3, <4>1, <4>2, ShutFacts DEF CloseCodes
    <3> QED
      BY <3>2, <3>3 DEF LinkMove
  <2>2. CASE j # k /\ link'[j] = Shut(link[j], "replaced")
    BY <2>0, <2>2, ShutFacts, StaysPut DEF CloseCodes
  <2>3. CASE link'[j] = link[j]
    BY <2>0, <2>3, StaysPut
  <2> QED
    BY <1>1, <2>1, <2>2, <2>3
<1>3. LinkTypes'
  <2>1. link' = [j \in Links |-> link'[j]]
    BY <1>1
  <2> QED
    BY <1>2, <2>1 DEF LinkTypes
<1> QED
  BY <1>2, <1>3 DEF LinksMove
\* A session that was registered, and knows it when it is over.
Served(k) ==
  \/ link[k].stage \in {"replacing", "running"}
  \/ link[k].stage \in {"ended", "unregistered", "drained"} /\ link[k].closeErr

\* A call that is past its choice has chosen such a session.
CallsServed ==
  \A c \in BridgeCalls :
    call[c].pc \in {"picked", "added", "waiting", "rejoin", "judging", "blocked"}
    => call[c].on \in Links /\ Served(call[c].on)

LEMMA CallMoves ==
  ASSUME BridgeTypes, CallsServed, NEW c \in BridgeCalls,
         Adds(c) \/ SendsRequest(c) \/ SendFails(c) \/ GivesUp(c)
  PROVE  LinksMove
<1>0. LinkTypes /\ CallTypes
  BY DEF BridgeTypes
<1> DEFINE k == call[c].on
           a == <<c, call[c].try>>
<1>1. call[c].pc \in {"picked", "added", "waiting"}
  BY DEF Adds, SendsRequest, SendFails, GivesUp
<1>2. k \in Links /\ a \in Attempts
  BY <1>0, <1>1 DEF CallsServed, CallTypes, BridgeCallRecords, Attempts
<1>3. link[k] \in LinkRecords
  BY <1>0, <1>2 DEF LinkTypes
<1>4. \/ UNCHANGED link
      \/ link' = [link EXCEPT ![k].pending = @ \cup {a}]
      \/ link' = [link EXCEPT ![k].toExt = @ \cup {a}]
      \/ link' = [link EXCEPT ![k] = [Shut(link[k], "timeout") EXCEPT !.pending = @ \ {a}]]
      \/ link' = [link EXCEPT ![k].pending = @ \ {a}]
  BY DEF Adds, SendsRequest, SendFails, GivesUp
<1> HIDE DEF k, a
<1>5. CASE UNCHANGED link
  BY <1>0, <1>5, NoneMoves
<1>6. CASE link' = [link EXCEPT ![k].pending = @ \cup {a}]
  <2> DEFINE m == [link[k] EXCEPT !.pending = @ \cup {a}]
  <2>1. m \in LinkRecords /\ LinkMove(k, link[k], m) /\ link' = [link EXCEPT ![k] = m]
    BY <1>0, <1>2, <1>3, <1>6 DEF LinkRecords, LinkMove, SameFrame, LinkTypes
  <2> QED
    BY <1>0, <1>2, <2>1, OneMoves
<1>7. CASE link' = [link EXCEPT ![k].toExt = @ \cup {a}]
  <2> DEFINE m == [link[k] EXCEPT !.toExt = @ \cup {a}]
  <2>1. m \in LinkRecords /\ LinkMove(k, link[k], m) /\ link' = [link EXCEPT ![k] = m]
    BY <1>0, <1>2, <1>3, <1>7 DEF LinkRecords, LinkMove, SameFrame, LinkTypes
  <2> QED
    BY <1>0, <1>2, <2>1, OneMoves
<1>8. CASE link' = [link EXCEPT ![k] = [Shut(link[k], "timeout") EXCEPT !.pending = @ \ {a}]]
  <2> DEFINE l == Shut(link[k], "timeout")
             m == [l EXCEPT !.pending = @ \ {a}]
  <2>1. /\ l \in LinkRecords /\ l.stage = link[k].stage /\ l.cred = link[k].cred
        /\ l.old = link[k].old /\ (link[k].closeErr => l.closeErr)
        /\ (link[k].srvOpen => l.closeErr)
    BY <1>3, ShutFacts DEF CloseCodes
  <2>2. link' = [link EXCEPT ![k] = m]
    BY <1>8
  <2> HIDE DEF l
  <2>3. /\ m \in LinkRecords /\ m.stage = l.stage /\ m.cred = l.cred /\ m.old = l.old
        /\ m.closeErr = l.closeErr
    BY <2>1 DEF LinkRecords
  <2> HIDE DEF m
  <2>4. LinkMove(k, link[k], m)
    BY <2>1, <2>3, StaysPut
  <2> QED
    BY <1>0, <1>2, <2>2, <2>3, <2>4, OneMoves
<1>9. CASE link' = [link EXCEPT ![k].pending = @ \ {a}]
  <2> DEFINE m == [link[k] EXCEPT !.pending = @ \ {a}]
  <2>1. m \in LinkRecords /\ LinkMove(k, link[k], m) /\ link' = [link EXCEPT ![k] = m]
    BY <1>0, <1>2, <1>3, <1>9 DEF LinkRecords, LinkMove, SameFrame, LinkTypes
  <2> QED
    BY <1>0, <1>2, <2>1, OneMoves
<1> QED
  BY <1>4, <1>5, <1>6, <1>7, <1>8, <1>9

LEMMA RevokeMoves ==
  ASSUME BridgeTypes, NEW d \in Codes, RevokeShuts(d)
  PROVE  LinksMove
<1>0. LinkTypes /\ SessionTypes
  BY DEF BridgeTypes
<1>1. CASE UNCHANGED link
  BY <1>0, <1>1, NoneMoves
<1>2. CASE ~UNCHANGED link
  <2> DEFINE k == sessionOf[d]
             m == Shut(link[k], "revoked")
  <2>1. k \in Links /\ link' = [link EXCEPT ![k] = m]
    BY <1>0, <1>2 DEF RevokeShuts, SessionTypes
  <2>2. link[k] \in LinkRecords
    BY <1>0, <2>1 DEF LinkTypes
  <2>3. m \in LinkRecords /\ LinkMove(k, link[k], m)
    BY <2>2, ShutFacts, StaysPut DEF CloseCodes
  <2> HIDE DEF k, m
  <2> QED
    BY <1>0, <2>1, <2>3, OneMoves
<1> QED
  BY <1>1, <1>2

LEMMA ExtensionMoves ==
  ASSUME BridgeTypes,
         \/ NoticesChange
         \/ \E cred \in loads : \E k \in Links : Dials(cred, k)
         \/ \E k \in Links : \/ TakesWelcome(k) \/ SeesClose(k) \/ ConnectionLost(k)
                             \/ \E a \in Attempts : Executes(k, a) \/ Answers(k, a)
  PROVE  LinksMove
<1>0. LinkTypes /\ ExtensionTypes
  BY DEF BridgeTypes
<1>1. ASSUME NEW k \in Links, link' = [link EXCEPT ![k].extOpen = FALSE] PROVE LinksMove
  <2> DEFINE m == [link[k] EXCEPT !.extOpen = FALSE]
  <2>1. m \in LinkRecords /\ LinkMove(k, link[k], m) /\ link' = [link EXCEPT ![k] = m]
    BY <1>0, <1>1 DEF LinkRecords, LinkMove, SameFrame, LinkTypes
  <2> QED
    BY <1>0, <2>1, OneMoves
<1>2. CASE NoticesChange
  <2>1. \/ UNCHANGED link
        \/ ws \in Links /\ link' = [link EXCEPT ![ws].extOpen = FALSE]
    BY <1>0, <1>2 DEF NoticesChange, ExtensionTypes
  <2> QED
    BY <1>0, <1>1, <2>1, NoneMoves
<1>3. ASSUME NEW cred \in loads, NEW k \in Links, Dials(cred, k) PROVE LinksMove
  <2> DEFINE m == [link[k] EXCEPT !.stage = "hello", !.cred = cred, !.srvOpen = TRUE,
                                  !.extOpen = TRUE]
  <2>1. cred \in Creds
    BY <1>0 DEF ExtensionTypes
  <2>2. link[k] \in LinkRecords /\ link[k].stage = "unused"
    BY <1>0, <1>3 DEF LinkTypes, Dials
  <2>3. m \in LinkRecords /\ LinkMove(k, link[k], m)
    BY <2>1, <2>2 DEF LinkRecords, LinkMove, LinkStages
  <2>4. link' = [link EXCEPT ![k] = m]
    BY <1>0, <1>3 DEF Dials, LinkTypes
  <2> HIDE DEF m
  <2> QED
    BY <1>0, <2>3, <2>4, OneMoves
<1>4. ASSUME NEW k \in Links, TakesWelcome(k) PROVE LinksMove
  <2> DEFINE m == [link[k] EXCEPT !.welcome = FALSE]
  <2>1. m \in LinkRecords /\ LinkMove(k, link[k], m) /\ link' = [link EXCEPT ![k] = m]
    BY <1>0, <1>4 DEF LinkRecords, LinkMove, SameFrame, LinkTypes, TakesWelcome
  <2> QED
    BY <1>0, <2>1, OneMoves
<1>5. ASSUME NEW k \in Links, NEW a \in Attempts, Executes(k, a) PROVE LinksMove
  <2> DEFINE m == [link[k] EXCEPT !.toExt = @ \ {a}]
  <2>1. m \in LinkRecords /\ LinkMove(k, link[k], m) /\ link' = [link EXCEPT ![k] = m]
    BY <1>0, <1>5 DEF LinkRecords, LinkMove, SameFrame, LinkTypes, Executes
  <2> QED
    BY <1>0, <2>1, OneMoves
<1>6. ASSUME NEW k \in Links, NEW a \in Attempts, Answers(k, a) PROVE LinksMove
  <2>1. CASE UNCHANGED link
    BY <1>0, <2>1, NoneMoves
  <2>2. CASE ~UNCHANGED link
    <3> DEFINE m == [link[k] EXCEPT !.toServer = @ \cup {a}]
    <3>1. m \in LinkRecords /\ LinkMove(k, link[k], m) /\ link' = [link EXCEPT ![k] = m]
      BY <1>0, <1>6, <2>2 DEF LinkRecords, LinkMove, SameFrame, LinkTypes, Answers
    <3> QED
      BY <1>0, <3>1, OneMoves
  <2> QED
    BY <2>1, <2>2
<1> QED
  BY <1>1, <1>2, <1>3, <1>4, <1>5, <1>6 DEF SeesClose, ConnectionLost

LEMMA LinksDoMove ==
  ASSUME BridgeTypes, LinkSound, CallsServed, [BridgeNext]_bridgeVars
  PROVE  LinksMove
<1>1. LinkTypes
  BY DEF BridgeTypes
<1>2. CASE UNCHANGED link
  BY <1>1, <1>2, NoneMoves
<1>3. CASE ~UNCHANGED link
  <2>1. BridgeNext
    BY <1>3 DEF bridgeVars
  <2> QED
    BY <1>3, <2>1, LinksRest, HandshakeMoves, SessionMoves, ShutsOldMoves, CallMoves, RevokeMoves,
       ExtensionMoves DEF BridgeNext, BridgeServer, CallSteps, Extension
<1> QED
  BY <1>2, <1>3

\* What a link was stays true of it.
LEMMA LinkSoundKept ==
  ASSUME BridgeTypes, LinkSound, SessionTypes, LinksMove,
         \A d \in Codes : sessionOf[d] # NoLink => link[sessionOf[d]].stage # "welcomed"
  PROVE  LinkSound'
<1> SUFFICES ASSUME NEW k \in Links
             PROVE  /\ link'[k].stage # "unused" => link'[k].cred \in Creds
                    /\ link'[k].stage \notin {"unused", "drained"} /\ ~link'[k].srvOpen
                         => link'[k].closeErr
                    /\ link'[k].stage \in {"ended", "unregistered"} => link'[k].closeErr
                    /\ link'[k].stage = "replacing" => link'[k].old # k
  BY DEF LinkSound
<1> DEFINE l == link[k] m == link'[k]
<1>1. /\ l.stage # "unused" => l.cred \in Creds
      /\ l.stage \notin {"unused", "drained"} /\ ~l.srvOpen => l.closeErr
      /\ l.stage \in {"ended", "unregistered"} => l.closeErr
      /\ l.stage = "replacing" => l.old # k
  BY DEF LinkSound
<1>2. LinkMove(k, l, m) /\ l \in LinkRecords /\ m \in LinkRecords
  BY DEF LinksMove, BridgeTypes, LinkTypes
<1>3. loads \subseteq Creds
  BY DEF BridgeTypes, ExtensionTypes
<1>4. l.stage = "welcomed" => sessionOf[l.cred[2]] # k
  <2> SUFFICES ASSUME l.stage = "welcomed" PROVE sessionOf[l.cred[2]] # k
    OBVIOUS
  <2>1. l.cred[2] \in Codes
    BY <1>1, CredParts
  <2> QED
    BY <2>1, LinksAre
<1>5. l.srvOpen \in BOOLEAN /\ m.srvOpen \in BOOLEAN
  BY <1>2 DEF LinkRecords
<1> HIDE DEF l, m
<1>6. /\ m.stage # "unused" => m.cred \in Creds
      /\ m.stage \notin {"unused", "drained"} /\ ~m.srvOpen => m.closeErr
      /\ m.stage \in {"ended", "unregistered"} => m.closeErr
      /\ m.stage = "replacing" => m.old # k
  BY <1>1, <1>2, <1>3, <1>4, <1>5 DEF LinkMove, SameFrame
<1> QED
  BY <1>6 DEF m

LEMMA ServedStays ==
  ASSUME LinksMove, NEW k \in Links, Served(k)
  PROVE  Served(k)' /\ link'[k].cred = link[k].cred /\ (link[k].closeErr => link'[k].closeErr)
<1> DEFINE l == link[k] m == link'[k]
<1>1. LinkMove(k, l, m)
  BY DEF LinksMove
<1>2. \/ l.stage \in {"replacing", "running"}
      \/ l.stage \in {"ended", "unregistered", "drained"} /\ l.closeErr
  BY DEF Served
<1> HIDE DEF l, m
<1>3. /\ m.cred = l.cred /\ (l.closeErr => m.closeErr)
      /\ \/ m.stage \in {"replacing", "running"}
         \/ m.stage \in {"ended", "unregistered", "drained"} /\ m.closeErr
  BY <1>1, <1>2 DEF LinkMove, SameFrame
<1> QED
  BY <1>3 DEF l, m, Served

-----------------------------------------------------------------------------
\* Who changes what.
LEMMA SessionFrame ==
  ASSUME [BridgeNext]_bridgeVars
  PROVE  \/ UNCHANGED <<sessionOf, joinedGen>>
         \/ \E k \in Links : Registers(k) \/ Unregisters(k)
<1>1. ASSUME NEW c \in Codes,
             Pair(c) \/ CodeExpires(c) \/ RevokeStores(c) \/ RevokeShuts(c) \/ Pastes(c)
      PROVE  UNCHANGED <<sessionOf, joinedGen>>
  BY <1>1 DEF Pair, CodeExpires, RevokeStores, RevokeShuts, Pastes, storeVars, extVars
<1>2. ASSUME NEW k \in Links,
             Authenticates(k) \/ Refuses(k) \/ HandshakeFails(k) \/ Welcomes(k) \/ ShutsOld(k) \/
             ReadFails(k) \/ Silence(k) \/ Drains(k)
      PROVE  UNCHANGED <<sessionOf, joinedGen>>
  BY <1>2 DEF Authenticates, Refuses, HandshakeFails, Welcomes, ShutsOld, ReadFails, Silence,
         Drains, storeVars, extVars
<1>3. ASSUME NEW k \in Links, NEW a \in Attempts,
             ReadsAnswer(k, a)
      PROVE  UNCHANGED <<sessionOf, joinedGen>>
  BY <1>3 DEF ReadsAnswer, storeVars, extVars
<1>4. ASSUME NEW c \in BridgeCalls,
             Picks(c) \/ PicksNone(c) \/ Adds(c) \/ SendsRequest(c) \/ SendFails(c) \/
             Receives(c) \/ GivesUp(c) \/ LooksForRejoin(c) \/ JudgesSession(c) \/ Rejoined(c) \/
             RejoinEnds(c)
      PROVE  UNCHANGED <<sessionOf, joinedGen>>
  BY <1>4 DEF Picks, PicksNone, Adds, SendsRequest, SendFails, Receives, GivesUp, LooksForRejoin,
         JudgesSession, Rejoined, RejoinEnds, storeVars, extVars
<1>5. ASSUME OpensSocket \/ NoticesChange PROVE UNCHANGED <<sessionOf, joinedGen>>
  BY <1>5 DEF OpensSocket, NoticesChange, storeVars, extVars
<1>6. ASSUME NEW cred \in loads, DialDropped(cred) PROVE UNCHANGED <<sessionOf, joinedGen>>
  BY <1>6 DEF DialDropped, storeVars, extVars
<1>7. ASSUME NEW cred \in loads, NEW k \in Links, Dials(cred, k)
      PROVE  UNCHANGED <<sessionOf, joinedGen>>
  BY <1>7 DEF Dials, storeVars, extVars
<1>8. ASSUME NEW k \in Links,
             TakesWelcome(k) \/ SeesClose(k) \/ ConnectionLost(k)
      PROVE  UNCHANGED <<sessionOf, joinedGen>>
  BY <1>8 DEF TakesWelcome, SeesClose, ConnectionLost, storeVars, extVars
<1>9. ASSUME NEW k \in Links, NEW a \in Attempts,
             Executes(k, a) \/ Answers(k, a)
      PROVE  UNCHANGED <<sessionOf, joinedGen>>
  BY <1>9 DEF Executes, Answers, storeVars, extVars
<1>10. CASE UNCHANGED bridgeVars
  BY <1>10 DEF bridgeVars
<1> QED
  BY <1>1, <1>2, <1>3, <1>4, <1>5, <1>6, <1>7, <1>8, <1>9, <1>10
  DEF BridgeNext, BridgeServer, CallSteps, Extension

LEMMA StoreFrame ==
  ASSUME [BridgeNext]_bridgeVars
  PROVE  \/ UNCHANGED <<pairCode, device, revoking>>
         \/ \E c \in Codes : Pair(c) \/ CodeExpires(c) \/ RevokeStores(c) \/ RevokeShuts(c)
         \/ \E k \in Links : Authenticates(k)
<1>1. ASSUME NEW c \in Codes,
             Pastes(c)
      PROVE  UNCHANGED <<pairCode, device, revoking>>
  BY <1>1 DEF Pastes, storeVars, extVars
<1>2. ASSUME NEW k \in Links,
             Refuses(k) \/ HandshakeFails(k) \/ Welcomes(k) \/ Registers(k) \/ ShutsOld(k) \/
             ReadFails(k) \/ Silence(k) \/ Unregisters(k) \/ Drains(k)
      PROVE  UNCHANGED <<pairCode, device, revoking>>
  BY <1>2 DEF Refuses, HandshakeFails, Welcomes, Registers, ShutsOld, ReadFails, Silence,
         Unregisters, Drains, storeVars, extVars
<1>3. ASSUME NEW k \in Links, NEW a \in Attempts,
             ReadsAnswer(k, a)
      PROVE  UNCHANGED <<pairCode, device, revoking>>
  BY <1>3 DEF ReadsAnswer, storeVars, extVars
<1>4. ASSUME NEW c \in BridgeCalls,
             Picks(c) \/ PicksNone(c) \/ Adds(c) \/ SendsRequest(c) \/ SendFails(c) \/
             Receives(c) \/ GivesUp(c) \/ LooksForRejoin(c) \/ JudgesSession(c) \/ Rejoined(c) \/
             RejoinEnds(c)
      PROVE  UNCHANGED <<pairCode, device, revoking>>
  BY <1>4 DEF Picks, PicksNone, Adds, SendsRequest, SendFails, Receives, GivesUp, LooksForRejoin,
         JudgesSession, Rejoined, RejoinEnds, storeVars, extVars
<1>5. ASSUME OpensSocket \/ NoticesChange PROVE UNCHANGED <<pairCode, device, revoking>>
  BY <1>5 DEF OpensSocket, NoticesChange, storeVars, extVars
<1>6. ASSUME NEW cred \in loads, DialDropped(cred) PROVE UNCHANGED <<pairCode, device, revoking>>
  BY <1>6 DEF DialDropped, storeVars, extVars
<1>7. ASSUME NEW cred \in loads, NEW k \in Links, Dials(cred, k)
      PROVE  UNCHANGED <<pairCode, device, revoking>>
  BY <1>7 DEF Dials, storeVars, extVars
<1>8. ASSUME NEW k \in Links,
             TakesWelcome(k) \/ SeesClose(k) \/ ConnectionLost(k)
      PROVE  UNCHANGED <<pairCode, device, revoking>>
  BY <1>8 DEF TakesWelcome, SeesClose, ConnectionLost, storeVars, extVars
<1>9. ASSUME NEW k \in Links, NEW a \in Attempts,
             Executes(k, a) \/ Answers(k, a)
      PROVE  UNCHANGED <<pairCode, device, revoking>>
  BY <1>9 DEF Executes, Answers, storeVars, extVars
<1>10. CASE UNCHANGED bridgeVars
  BY <1>10 DEF bridgeVars
<1> QED
  BY <1>1, <1>2, <1>3, <1>4, <1>5, <1>6, <1>7, <1>8, <1>9, <1>10
  DEF BridgeNext, BridgeServer, CallSteps, Extension

LEMMA CallFrame ==
  ASSUME [BridgeNext]_bridgeVars
  PROVE  \/ UNCHANGED call
         \/ \E k \in Links : Drains(k) \/ \E a \in Attempts : ReadsAnswer(k, a)
         \/ \E c \in BridgeCalls : Picks(c) \/ PicksNone(c) \/ CallSteps(c)
<1>1. ASSUME NEW c \in Codes,
             Pair(c) \/ CodeExpires(c) \/ RevokeStores(c) \/ RevokeShuts(c) \/ Pastes(c)
      PROVE  UNCHANGED call
  BY <1>1 DEF Pair, CodeExpires, RevokeStores, RevokeShuts, Pastes, storeVars, extVars
<1>2. ASSUME NEW k \in Links,
             Authenticates(k) \/ Refuses(k) \/ HandshakeFails(k) \/ Welcomes(k) \/ Registers(k) \/
             ShutsOld(k) \/ ReadFails(k) \/ Silence(k) \/ Unregisters(k)
      PROVE  UNCHANGED call
  BY <1>2 DEF Authenticates, Refuses, HandshakeFails, Welcomes, Registers, ShutsOld, ReadFails,
         Silence, Unregisters, storeVars, extVars
<1>3. ASSUME OpensSocket \/ NoticesChange PROVE UNCHANGED call
  BY <1>3 DEF OpensSocket, NoticesChange, storeVars, extVars
<1>4. ASSUME NEW cred \in loads, DialDropped(cred) PROVE UNCHANGED call
  BY <1>4 DEF DialDropped, storeVars, extVars
<1>5. ASSUME NEW cred \in loads, NEW k \in Links, Dials(cred, k)
      PROVE  UNCHANGED call
  BY <1>5 DEF Dials, storeVars, extVars
<1>6. ASSUME NEW k \in Links,
             TakesWelcome(k) \/ SeesClose(k) \/ ConnectionLost(k)
      PROVE  UNCHANGED call
  BY <1>6 DEF TakesWelcome, SeesClose, ConnectionLost, storeVars, extVars
<1>7. ASSUME NEW k \in Links, NEW a \in Attempts,
             Executes(k, a) \/ Answers(k, a)
      PROVE  UNCHANGED call
  BY <1>7 DEF Executes, Answers, storeVars, extVars
<1>8. CASE UNCHANGED bridgeVars
  BY <1>8 DEF bridgeVars
<1> QED
  BY <1>1, <1>2, <1>3, <1>4, <1>5, <1>6, <1>7, <1>8
  DEF BridgeNext, BridgeServer, CallSteps, Extension

LEMMA ExtensionFrame ==
  ASSUME [BridgeNext]_bridgeVars
  PROVE  \/ UNCHANGED <<storage, loads, changed, ws, doing, executed>>
         \/ Extension \/ \E c \in Codes : Pastes(c)
<1>1. ASSUME NEW c \in Codes,
             Pair(c) \/ CodeExpires(c) \/ RevokeStores(c) \/ RevokeShuts(c)
      PROVE  UNCHANGED <<storage, loads, changed, ws, doing, executed>>
  BY <1>1 DEF Pair, CodeExpires, RevokeStores, RevokeShuts, storeVars, extVars
<1>2. ASSUME NEW k \in Links,
             Authenticates(k) \/ Refuses(k) \/ HandshakeFails(k) \/ Welcomes(k) \/ Registers(k) \/
             ShutsOld(k) \/ ReadFails(k) \/ Silence(k) \/ Unregisters(k) \/ Drains(k)
      PROVE  UNCHANGED <<storage, loads, changed, ws, doing, executed>>
  BY <1>2 DEF Authenticates, Refuses, HandshakeFails, Welcomes, Registers, ShutsOld, ReadFails,
         Silence, Unregisters, Drains, storeVars, extVars
<1>3. ASSUME NEW k \in Links, NEW a \in Attempts,
             ReadsAnswer(k, a)
      PROVE  UNCHANGED <<storage, loads, changed, ws, doing, executed>>
  BY <1>3 DEF ReadsAnswer, storeVars, extVars
<1>4. ASSUME NEW c \in BridgeCalls,
             Picks(c) \/ PicksNone(c) \/ Adds(c) \/ SendsRequest(c) \/ SendFails(c) \/
             Receives(c) \/ GivesUp(c) \/ LooksForRejoin(c) \/ JudgesSession(c) \/ Rejoined(c) \/
             RejoinEnds(c)
      PROVE  UNCHANGED <<storage, loads, changed, ws, doing, executed>>
  BY <1>4 DEF Picks, PicksNone, Adds, SendsRequest, SendFails, Receives, GivesUp, LooksForRejoin,
         JudgesSession, Rejoined, RejoinEnds, storeVars, extVars
<1>5. CASE UNCHANGED bridgeVars
  BY <1>5 DEF bridgeVars
<1> QED
  BY <1>1, <1>2, <1>3, <1>4, <1>5
  DEF BridgeNext, BridgeServer, CallSteps, Extension

LEMMA ExtensionTypesStay ==
  ASSUME UNCHANGED <<storage, loads, changed, ws, doing, executed>>
  PROVE  ExtensionTypes => ExtensionTypes'
BY DEF ExtensionTypes

LEMMA StoreTypesKept ==
  ASSUME BridgeTypes, LinkSound, [BridgeNext]_bridgeVars
  PROVE  StoreTypes'
<1>0. StoreTypes
  BY DEF BridgeTypes
<1>1. CASE UNCHANGED <<pairCode, device, revoking>>
  BY <1>0, <1>1 DEF StoreTypes
<1>2. ASSUME NEW c \in Codes, Pair(c) \/ CodeExpires(c) \/ RevokeStores(c) \/ RevokeShuts(c)
      PROVE  StoreTypes'
  BY <1>0, <1>2 DEF StoreTypes, Pair, CodeExpires, RevokeStores, RevokeShuts, storeVars
<1>3. ASSUME NEW k \in Links, Authenticates(k) PROVE StoreTypes'
  <2>1. DeviceOf(k) \in Codes
    BY <1>3, CredParts DEF LinkSound, Authenticates, DeviceOf
  <2> QED
    BY <1>0, <1>3, <2>1 DEF StoreTypes, Authenticates, storeVars
<1> QED
  BY <1>1, <1>2, <1>3, StoreFrame

LEMMA SessionTypesKept ==
  ASSUME BridgeTypes, LinkSound, [BridgeNext]_bridgeVars
  PROVE  SessionTypes'
<1>0. SessionTypes
  BY DEF BridgeTypes
<1>1. CASE UNCHANGED <<sessionOf, joinedGen>>
  BY <1>0, <1>1 DEF SessionTypes
<1>2. ASSUME NEW k \in Links, Registers(k) PROVE SessionTypes'
  <2>1. sessionOf' = [sessionOf EXCEPT ![DeviceOf(k)] = k] /\ joinedGen' = joinedGen + 1
    BY <1>2 DEF Registers
  <2>2. DeviceOf(k) \in Codes
    BY <1>2, CredParts DEF Registers, LinkSound, DeviceOf
  <2>3. joinedGen' \in Nat
    BY <1>0, <2>1 DEF SessionTypes
  <2>4. sessionOf' \in [Codes -> Links \cup {NoLink}]
    BY <1>0, <2>1, <2>2 DEF SessionTypes
  <2> QED
    BY <2>3, <2>4 DEF SessionTypes
<1>3. ASSUME NEW k \in Links, Unregisters(k) PROVE SessionTypes'
  BY <1>0, <1>3 DEF SessionTypes, Unregisters, WithoutSession
<1> QED
  BY <1>1, <1>2, <1>3, SessionFrame

LEMMA ExtensionTypesKept ==
  ASSUME BridgeTypes, LinkSound, [BridgeNext]_bridgeVars
  PROVE  ExtensionTypes'
<1>0. ExtensionTypes /\ LinkTypes
  BY DEF BridgeTypes
<1>1. StoredCred \subseteq Creds
  <2>1. \A c \in Codes : <<"secret", c>> \in Creds /\ <<"code", c>> \in Creds
    BY DEF Creds
  <2> QED
    BY <1>0, <2>1 DEF StoredCred, ExtensionTypes
<1>2. ASSUME NEW c \in Codes, Pastes(c) PROVE ExtensionTypes'
  BY <1>0, <1>2 DEF ExtensionTypes, Pastes
<1>3. CASE OpensSocket \/ NoticesChange
  BY <1>0, <1>1, <1>3 DEF ExtensionTypes, OpensSocket, NoticesChange
<1>4. ASSUME NEW cred \in loads, DialDropped(cred) PROVE ExtensionTypes'
  BY <1>0, <1>4 DEF ExtensionTypes, DialDropped
<1>5. ASSUME NEW cred \in loads, NEW k \in Links, Dials(cred, k) PROVE ExtensionTypes'
  BY <1>0, <1>5 DEF ExtensionTypes, Dials
<1>6. ASSUME NEW k \in Links, TakesWelcome(k) PROVE ExtensionTypes'
  <2>1. CASE link[k].cred[1] = "code"
    <3>1. DeviceOf(k) \in Codes
      <4>1. link[k].cred \in Creds \cup {<<"none", NoCode>>}
        BY <1>0 DEF LinkTypes, LinkRecords
      <4> QED
        BY <2>1, <4>1, CredParts DEF DeviceOf
    <3> QED
      BY <1>0, <1>6, <2>1, <3>1 DEF ExtensionTypes, TakesWelcome
  <2>2. CASE link[k].cred[1] # "code"
    BY <1>0, <1>6, <2>2 DEF ExtensionTypes, TakesWelcome
  <2> QED
    BY <2>1, <2>2
<1>7. ASSUME NEW k \in Links, SeesClose(k) PROVE ExtensionTypes'
  BY <1>0, <1>7 DEF ExtensionTypes, SeesClose, Forgotten
<1>8. ASSUME NEW k \in Links, ConnectionLost(k) PROVE ExtensionTypes'
  BY <1>0, <1>8 DEF ExtensionTypes, ConnectionLost
<1>9. ASSUME NEW k \in Links, NEW a \in Attempts, Executes(k, a) \/ Answers(k, a)
      PROVE  ExtensionTypes'
  BY <1>0, <1>9 DEF ExtensionTypes, Executes, Answers, extVars, Attempts
<1> QED
  BY <1>0, <1>2, <1>3, <1>4, <1>5, <1>6, <1>7, <1>8, <1>9, ExtensionFrame, ExtensionTypesStay
  DEF Extension

-----------------------------------------------------------------------------
\* The registered session of a device is a session of it that has not been
\* taken out of the map.
SessionSound ==
  \A d \in Codes : sessionOf[d] # NoLink => Registered(sessionOf[d]) /\ DeviceOf(sessionOf[d]) = d

\* Of two sessions of a device the newer is the registered one.
NewestServes ==
  \A k \in Links :
    Registered(k) /\ ~link[k].closeErr
    => \/ sessionOf[DeviceOf(k)] = k
       \/ \E m \in Links : link[m].stage = "replacing" /\ link[m].old = k

LEMMA RegisteredStays ==
  ASSUME LinksMove, NEW k \in Links, Registered(k)
  PROVE  /\ link'[k].cred = link[k].cred
         /\ link[k].closeErr => link'[k].closeErr
         /\ Registered(k)' \/ sessionOf' = WithoutSession(k)
<1> DEFINE l == link[k] m == link'[k]
<1>1. LinkMove(k, l, m)
  BY DEF LinksMove
<1>2. l.stage \in {"replacing", "running", "ended"}
  BY DEF Registered
<1> HIDE DEF l, m
<1>3. /\ m.cred = l.cred /\ (l.closeErr => m.closeErr)
      /\ m.stage \in {"replacing", "running", "ended"} \/ sessionOf' = WithoutSession(k)
  BY <1>1, <1>2 DEF LinkMove, SameFrame
<1> QED
  BY <1>3 DEF l, m, Registered

LEMMA SessionSoundKept ==
  ASSUME BridgeTypes, LinkSound, SessionSound, LinksMove, [BridgeNext]_bridgeVars
  PROVE  SessionSound'
<1>0. SessionTypes /\ LinkTypes
  BY DEF BridgeTypes
<1>1. ASSUME NEW d \in Codes, sessionOf'[d] # NoLink, sessionOf'[d] = sessionOf[d]
      PROVE  /\ link'[sessionOf'[d]].stage \in {"replacing", "running", "ended"}
             /\ link'[sessionOf'[d]].cred[2] = d
  <2>1. PICK s \in Links : s = sessionOf[d] /\ Registered(s) /\ link[s].cred[2] = d
    BY <1>0, <1>1 DEF SessionTypes, SessionSound, DeviceOf
  <2>2. sessionOf' # WithoutSession(s)
    BY <1>1, <2>1 DEF WithoutSession
  <2>3. link'[s].cred = link[s].cred /\ Registered(s)'
    BY <2>1, <2>2, RegisteredStays
  <2>4. link'[s].stage \in {"replacing", "running", "ended"} /\ link'[s].cred[2] = d
    BY <2>1, <2>3 DEF Registered
  <2> QED
    BY <1>1, <2>1, <2>4
<1>2. CASE UNCHANGED <<sessionOf, joinedGen>>
  BY <1>1, <1>2 DEF SessionSound, Registered, DeviceOf
<1>3. ASSUME NEW k \in Links, Registers(k) PROVE SessionSound'
  <2>1. /\ sessionOf' = [sessionOf EXCEPT ![link[k].cred[2]] = k]
        /\ link' = [link EXCEPT ![k].stage = "replacing", ![k].old = sessionOf[link[k].cred[2]]]
    BY <1>3 DEF Registers, DeviceOf
  <2>2. link'[k].stage = "replacing" /\ link'[k].cred = link[k].cred
    <3>1. link[k] \in LinkRecords
      BY <1>0 DEF LinkTypes
    <3> QED
      BY <1>0, <2>1, <3>1 DEF LinkTypes, LinkRecords
  <2> SUFFICES ASSUME NEW d \in Codes, sessionOf'[d] # NoLink
               PROVE  /\ link'[sessionOf'[d]].stage \in {"replacing", "running", "ended"}
                      /\ link'[sessionOf'[d]].cred[2] = d
    BY DEF SessionSound, Registered, DeviceOf
  <2>3. CASE d # link[k].cred[2]
    BY <1>0, <1>1, <2>1, <2>3 DEF SessionTypes
  <2>4. CASE d = link[k].cred[2]
    <3>1. sessionOf'[d] = k
      BY <1>0, <2>1, <2>4 DEF SessionTypes
    <3> QED
      BY <2>2, <2>4, <3>1
  <2> QED
    BY <2>3, <2>4
<1>4. ASSUME NEW k \in Links, Unregisters(k) PROVE SessionSound'
  <2>1. \A d \in Codes : sessionOf'[d] \in {NoLink, sessionOf[d]}
    BY <1>4 DEF Unregisters, WithoutSession
  <2> QED
    BY <1>1, <2>1 DEF SessionSound, Registered, DeviceOf
<1> QED
  BY <1>2, <1>3, <1>4, SessionFrame

\* A session that is about to be shut by its successor stays so until it is.
LEMMA SuccessorStays ==
  ASSUME BridgeTypes, LinkSound, LinksMove, NEW k \in Links, Registered(k), ~link'[k].closeErr,
         NEW m \in Links, link[m].stage = "replacing", link[m].old = k
  PROVE  link'[m].stage = "replacing" /\ link'[m].old = k
<1> DEFINE l == link[m] n == link'[m]
<1>1. LinkMove(m, l, n) /\ l.stage = "replacing" /\ l.old = k
  BY DEF LinksMove
<1>2. k # m
  BY DEF LinkSound
<1>3. link[k].srvOpen
  <2>1. ~link[k].closeErr
    BY RegisteredStays
  <2>2. link[k].srvOpen \in BOOLEAN
    BY DEF BridgeTypes, LinkTypes, LinkRecords
  <2> QED
    BY <2>1, <2>2 DEF LinkSound, Registered
<1> HIDE DEF l, n
<1>4. \/ n.stage = l.stage /\ n.old = l.old
      \/ \A j \in Links : j = l.old /\ j # m /\ link[j].srvOpen => link'[j].closeErr
  BY <1>1 DEF LinkMove
<1>5. n.stage = l.stage /\ n.old = l.old
  BY <1>1, <1>2, <1>3, <1>4
<1> QED
  BY <1>1, <1>5 DEF n

LEMMA NewestServesKept ==
  ASSUME BridgeTypes, LinkSound, SessionSound, NewestServes, LinksMove, [BridgeNext]_bridgeVars
  PROVE  NewestServes'
<1>0. SessionTypes /\ LinkTypes
  BY DEF BridgeTypes
<1> SUFFICES ASSUME NEW k \in Links, link'[k].stage \in {"replacing", "running", "ended"},
                    ~link'[k].closeErr
             PROVE  \/ sessionOf'[link'[k].cred[2]] = k
                    \/ \E m \in Links : link'[m].stage = "replacing" /\ link'[m].old = k
  BY DEF NewestServes, Registered, DeviceOf
<1>1. CASE Registers(k)
  <2>1. link'[k].cred = link[k].cred /\ link[k].stage = "welcomed"
    <3>1. link[k] \in LinkRecords
      BY <1>0 DEF LinkTypes
    <3> QED
      BY <1>0, <1>1, <3>1 DEF LinkTypes, LinkRecords, Registers
  <2>2. link[k].cred[2] \in Codes
    BY <2>1, CredParts DEF LinkSound
  <2> QED
    BY <1>0, <1>1, <2>1, <2>2 DEF Registers, DeviceOf, SessionTypes
<1>2. CASE ~Registers(k)
  <2>1. Registered(k)
    <3> DEFINE l == link[k] m == link'[k]
    <3>1. LinkMove(k, l, m) /\ m.stage \in {"replacing", "running", "ended"}
      BY DEF LinksMove
    <3>2. l.stage # "welcomed" \/ m.stage # "replacing"
      <4> SUFFICES ASSUME l.stage = "welcomed", m.stage = "replacing" PROVE FALSE
        OBVIOUS
      <4>1. sessionOf' = [sessionOf EXCEPT ![l.cred[2]] = k] /\ joinedGen' = joinedGen + 1
        <5> HIDE DEF l, m
        <5> QED
          BY <3>1 DEF LinkMove
      <4>2. joinedGen' # joinedGen
        BY <1>0, <4>1 DEF SessionTypes
      <4>3. PICK j \in Links : Registers(j)
        <5>1. \A j \in Links : Unregisters(j) => joinedGen' = joinedGen
          BY DEF Unregisters
        <5> QED
          BY <4>2, <5>1, SessionFrame
      <4>4. j # k
        BY <1>2, <4>3
      <4>5. link'[k] = link[k]
        BY <1>0, <4>3, <4>4 DEF Registers, LinkTypes
      <4> QED
        BY <4>5
    <3> HIDE DEF l, m
    <3>3. l.stage \in {"replacing", "running", "ended"}
      BY <3>1, <3>2 DEF LinkMove
    <3> QED
      BY <3>3 DEF l, Registered
  <2>2. link'[k].cred = link[k].cred /\ ~link[k].closeErr
    BY <2>1, RegisteredStays
  <2> DEFINE d == link[k].cred[2]
  <2>d. d \in Codes
    BY <2>1, CredParts DEF LinkSound, Registered
  <2>3. CASE \E m \in Links : link[m].stage = "replacing" /\ link[m].old = k
    BY <2>1, <2>3, SuccessorStays
  <2>4. CASE sessionOf[d] = k
    <3>1. CASE sessionOf'[d] = k
      BY <2>2, <3>1
    <3>2. ASSUME NEW j \in Links, Registers(j), sessionOf'[d] # k
          PROVE  link'[j].stage = "replacing" /\ link'[j].old = k
      <4>1. link[j].cred[2] = d
        BY <1>0, <2>4, <2>d, <3>2 DEF Registers, DeviceOf, SessionTypes
      <4>2. link[j] \in LinkRecords
        BY <1>0 DEF LinkTypes
      <4> QED
        BY <1>0, <2>4, <3>2, <4>1, <4>2 DEF Registers, DeviceOf, LinkTypes, LinkRecords
    <3>3. ASSUME NEW j \in Links, Unregisters(j), sessionOf'[d] # k PROVE FALSE
      <4>1. j = k
        BY <2>4, <2>d, <3>3 DEF Unregisters, WithoutSession
      <4> QED
        BY <2>2, <3>3, <4>1 DEF Unregisters, LinkSound
    <3> QED
      BY <2>4, <3>1, <3>2, <3>3, SessionFrame
  <2> QED
    BY <2>1, <2>2, <2>3, <2>4 DEF NewestServes, DeviceOf
<1> QED
  BY <1>1, <1>2

-----------------------------------------------------------------------------
\* How one call of Do may change.
SameCall(o, n) == n.on = o.on /\ n.gen = o.gen

CallMove(o, n) ==
  \/ n.pc = o.pc /\ SameCall(o, n)
  \/ n.pc = "done" /\ n.gen = o.gen
  \/ /\ o.pc = "idle" /\ n.pc = "picked" /\ n.gen = o.gen
     /\ \E d \in Codes : sessionOf[d] # NoLink /\ n.on = sessionOf[d]
  \/ o.pc = "picked" /\ n.pc = "added" /\ SameCall(o, n)
  \/ o.pc = "added" /\ n.pc = "waiting" /\ SameCall(o, n)
  \/ o.pc \in {"picked", "added", "waiting", "blocked"} /\ n.pc = "rejoin" /\ SameCall(o, n)
  \/ /\ o.pc = "rejoin" /\ n.pc = "judging" /\ n.gen = joinedGen
     /\ n.on = sessionOf[DeviceOf(o.on)] /\ n.on # NoLink
  \/ /\ o.pc = "rejoin" /\ n.pc = "blocked" /\ n.gen = joinedGen /\ n.on = o.on
     /\ sessionOf[DeviceOf(o.on)] = NoLink
  \/ o.pc = "judging" /\ n.pc = "blocked" /\ SameCall(o, n) /\ link[o.on].closeErr
  \/ o.pc = "judging" /\ n.pc = "picked" /\ SameCall(o, n)

Waits(r) == r.pc \in {"added", "waiting"} /\ r.chan = "empty"

\* One that waits stays in the pending map it is in, or has just been added.
HeldMove(c) ==
  Waits(call'[c]) =>
  /\ call'[c].on = call[c].on /\ call'[c].try = call[c].try
  /\ \/ /\ Waits(call[c])
        /\ <<c, call[c].try>> \in link[call[c].on].pending
             => <<c, call[c].try>> \in link'[call[c].on].pending
     \/ /\ call[c].pc = "picked" /\ ~link[call[c].on].closeErr
        /\ <<c, call[c].try>> \in link'[call[c].on].pending

CallsMove == CallTypes' /\ \A c \in BridgeCalls : CallMove(call[c], call'[c]) /\ HeldMove(c)

PendingStays == \A k \in Links : link[k].pending \subseteq link'[k].pending

LEMMA PendingOne ==
  ASSUME LinkTypes, NEW k \in Links, NEW m, link' = [link EXCEPT ![k] = m],
         link[k].pending \subseteq m.pending
  PROVE  PendingStays
BY DEF LinkTypes, PendingStays

\* No step but those of the call itself, and those that close its channel or
\* fill it, takes anything out of a pending map.
LEMMA PendingKept ==
  ASSUME BridgeTypes, [BridgeNext]_bridgeVars
  PROVE  \/ PendingStays
         \/ \E k \in Links : Drains(k) \/ \E a \in Attempts : ReadsAnswer(k, a)
         \/ \E c \in BridgeCalls : CallSteps(c)
<1>0. LinkTypes /\ SessionTypes /\ ExtensionTypes
  BY DEF BridgeTypes
<1>1. CASE UNCHANGED link
  BY <1>1 DEF PendingStays
<1>2. ASSUME NEW k \in Links,
             Authenticates(k) \/ HandshakeFails(k) \/ Welcomes(k) \/ Registers(k) \/ Unregisters(k)
      PROVE  PendingStays
  <2>1. link[k] \in LinkRecords
    BY <1>0 DEF LinkTypes
  <2> QED
    BY <1>0, <1>2, <2>1 DEF LinkTypes, LinkRecords, PendingStays, Authenticates, HandshakeFails,
       Welcomes, Registers, Unregisters
<1>3. ASSUME NEW k \in Links, TakesWelcome(k) \/ SeesClose(k) \/ ConnectionLost(k)
      PROVE  PendingStays
  <2>1. link[k] \in LinkRecords
    BY <1>0 DEF LinkTypes
  <2> QED
    BY <1>0, <1>3, <2>1 DEF LinkTypes, LinkRecords, PendingStays, TakesWelcome, SeesClose,
       ConnectionLost
<1>4. ASSUME NEW k \in Links, NEW a \in Attempts, Executes(k, a) \/ Answers(k, a)
      PROVE  PendingStays
  <2>1. link[k] \in LinkRecords
    BY <1>0 DEF LinkTypes
  <2> QED
    BY <1>0, <1>4, <2>1 DEF LinkTypes, LinkRecords, PendingStays, Executes, Answers
<1>5. ASSUME NEW cred \in loads, NEW k \in Links, Dials(cred, k) PROVE PendingStays
  <2>1. link[k] \in LinkRecords
    BY <1>0 DEF LinkTypes
  <2> QED
    BY <1>0, <1>5, <2>1 DEF LinkTypes, LinkRecords, PendingStays, Dials
<1>6. CASE NoticesChange
  <2>1. CASE ws = NoLink
    BY <1>1, <1>6, <2>1 DEF NoticesChange
  <2>2. CASE ws # NoLink
    <3>1. link[ws] \in LinkRecords /\ ws \in Links
      BY <1>0, <2>2 DEF LinkTypes, ExtensionTypes
    <3> QED
      BY <1>0, <1>6, <2>2, <3>1 DEF LinkTypes, LinkRecords, PendingStays, NoticesChange
  <2> QED
    BY <2>1, <2>2
<1>7. ASSUME NEW k \in Links, Refuses(k) \/ ReadFails(k) \/ Silence(k) PROVE PendingStays
  <2>1. link[k] \in LinkRecords
    BY <1>0 DEF LinkTypes
  <2>2. \A code \in CloseCodes : /\ Shut(link[k], code) \in LinkRecords
                                 /\ Shut(link[k], code).pending = link[k].pending
    BY <2>1, ShutFacts
  <2>3. PICK l \in LinkRecords :
          /\ l.pending = link[k].pending
          /\ \/ link' = [link EXCEPT ![k] = [l EXCEPT !.stage = "drained"]]
             \/ link' = [link EXCEPT ![k] = [l EXCEPT !.stage = "ended", !.closeErr = TRUE]]
             \/ link' = [link EXCEPT ![k] = [l EXCEPT !.stage = "ended"]]
    <3>1. CASE Refuses(k)
      <4>1. link' = [link EXCEPT ![k] = [Shut(link[k], "auth") EXCEPT !.stage = "drained"]]
        BY <3>1 DEF Refuses
      <4> QED
        BY <2>2, <4>1 DEF CloseCodes
    <3>2. CASE ReadFails(k)
      <4>1. link' = [link EXCEPT ![k] = [Shut(link[k], "timeout") EXCEPT !.stage = "ended",
                                                                         !.closeErr = TRUE]]
        BY <3>2 DEF ReadFails
      <4> QED
        BY <2>2, <4>1 DEF CloseCodes
    <3>3. CASE Silence(k)
      <4>1. link' = [link EXCEPT ![k] = [Shut(link[k], "timeout") EXCEPT !.stage = "ended"]]
        BY <3>3 DEF Silence
      <4> QED
        BY <2>2, <4>1 DEF CloseCodes
    <3> QED
      BY <1>7, <3>1, <3>2, <3>3
  <2> QED
    BY <1>0, <2>1, <2>3 DEF LinkTypes, LinkRecords, PendingStays
<1>8. ASSUME NEW k \in Links, ShutsOld(k) PROVE PendingStays
  <2> SUFFICES ASSUME NEW j \in Links PROVE link[j].pending \subseteq link'[j].pending
    BY DEF PendingStays
  <2>1. link[j] \in LinkRecords
    BY <1>0 DEF LinkTypes
  <2>2. Shut(link[j], "replaced").pending = link[j].pending
    BY <2>1, ShutFacts DEF CloseCodes
  <2>3. \/ link'[j] = Shut(link[j], "replaced") \/ link'[j] = link[j]
        \/ link'[j] = [link[j] EXCEPT !.stage = "running", !.old = NoLink]
    BY <1>8 DEF ShutsOld
  <2> QED
    BY <2>1, <2>2, <2>3 DEF LinkRecords
<1>9. ASSUME NEW d \in Codes, RevokeShuts(d) PROVE PendingStays
  <2>1. CASE UNCHANGED link
    BY <2>1 DEF PendingStays
  <2>2. CASE ~UNCHANGED link
    <3>1. PICK k \in Links : link' = [link EXCEPT ![k] = Shut(link[k], "revoked")]
      BY <1>0, <1>9, <2>2 DEF RevokeShuts, SessionTypes
    <3>2. Shut(link[k], "revoked").pending = link[k].pending
      BY <1>0, ShutFacts DEF CloseCodes, LinkTypes
    <3> QED
      BY <1>0, <3>1, <3>2, PendingOne
  <2> QED
    BY <2>1, <2>2
<1>10. CASE BridgeNext
  <2>1. \A c \in BridgeCalls : PicksNone(c) \/ Picks(c) => UNCHANGED link
    BY DEF Picks, PicksNone
  <2> QED
    BY <1>1, <1>2, <1>3, <1>4, <1>5, <1>6, <1>7, <1>8, <1>9, <1>10, <2>1, LinksRest
    DEF BridgeNext, BridgeServer, Extension
<1> QED
  BY <1>1, <1>10 DEF bridgeVars

LEMMA OneCallMoves ==
  ASSUME CallTypes, NEW c \in BridgeCalls, NEW n \in BridgeCallRecords,
         call' = [call EXCEPT ![c] = n],
         CallMove(call[c], n), HeldMove(c),
         \A k \in Links, a \in Attempts :
           a \in link[k].pending /\ a[1] # c => a \in link'[k].pending,
         CallsServed
  PROVE  CallsMove
<1>1. CallTypes' /\ call'[c] = n /\ \A d \in BridgeCalls : d # c => call'[d] = call[d]
  BY DEF CallTypes
<1>2. ASSUME NEW d \in BridgeCalls, d # c PROVE CallMove(call[d], call'[d]) /\ HeldMove(d)
  <2>1. call'[d] = call[d]
    BY <1>1, <1>2
  <2>2. CallMove(call[d], call'[d])
    BY <2>1 DEF CallMove, SameCall
  <2>3. <<d, call[d].try>> \in Attempts /\ <<d, call[d].try>>[1] # c
    BY <1>2 DEF CallTypes, BridgeCallRecords, Attempts
  <2>4. Waits(call[d]) => call[d].on \in Links
    BY DEF Waits, CallsServed
  <2>5. HeldMove(d)
    BY <2>1, <2>3, <2>4 DEF HeldMove
  <2> QED
    BY <2>2, <2>5
<1>3. CallMove(call[c], call'[c]) /\ HeldMove(c)
  BY <1>1
<1> QED
  BY <1>1, <1>2, <1>3 DEF CallsMove

\* Attempts of other calls stay where they are when a call takes its own out.
LEMMA OwnTakenOut ==
  ASSUME BridgeTypes, CallsServed, NEW c \in BridgeCalls,
         Adds(c) \/ SendsRequest(c) \/ SendFails(c) \/ GivesUp(c)
  PROVE  /\ \A k \in Links, a \in Attempts :
              a \in link[k].pending /\ a[1] # c => a \in link'[k].pending
         /\ SendsRequest(c) => PendingStays
         /\ Adds(c) /\ ~link[call[c].on].closeErr
              => <<c, call[c].try>> \in link'[call[c].on].pending
<1>0. LinkTypes /\ CallTypes
  BY DEF BridgeTypes
<1>1. call[c].on \in Links /\ <<c, call[c].try>> \in Attempts
  BY <1>0 DEF Adds, SendsRequest, SendFails, GivesUp, CallsServed, CallTypes, BridgeCallRecords, Attempts
<1>2. PICK k \in Links : k = call[c].on
  BY <1>1
<1>3. PICK a \in Attempts : a = <<c, call[c].try>>
  BY <1>1
<1>4. a[1] = c
  BY <1>3
<1>5. link[k] \in LinkRecords
  BY <1>0 DEF LinkTypes
<1>6. PICK l \in LinkRecords : l = Shut(link[k], "timeout") /\ l.pending = link[k].pending
  BY <1>5, ShutFacts DEF CloseCodes
<1>7. CASE Adds(c)
  <2>1. CASE link[k].closeErr
    BY <1>2, <1>7, <2>1 DEF Adds, SendsRequest
  <2>2. CASE ~link[k].closeErr
    <3>1. link' = [link EXCEPT ![k].pending = @ \cup {a}]
      BY <1>2, <1>3, <1>7, <2>2 DEF Adds
    <3>2. ~SendsRequest(c)
      BY <1>7 DEF Adds, SendsRequest
    <3> QED
      BY <1>0, <1>2, <1>3, <1>5, <3>1, <3>2 DEF LinkTypes, LinkRecords
  <2> QED
    BY <2>1, <2>2
<1>8. CASE SendsRequest(c)
  <2>1. link' = [link EXCEPT ![k].toExt = @ \cup {a}] /\ ~Adds(c)
    BY <1>2, <1>3, <1>8 DEF SendsRequest, Adds
  <2>2. PendingStays
    BY <1>0, <1>5, <2>1 DEF LinkTypes, LinkRecords, PendingStays
  <2> QED
    BY <2>1, <2>2 DEF PendingStays
<1>9. CASE SendFails(c) \/ GivesUp(c)
  <2>1. \/ link' = [link EXCEPT ![k] = [l EXCEPT !.pending = @ \ {a}]]
        \/ link' = [link EXCEPT ![k].pending = @ \ {a}]
    BY <1>2, <1>3, <1>6, <1>9 DEF SendFails, GivesUp
  <2>2. ~Adds(c) /\ ~SendsRequest(c)
    <3>1. SendFails(c) => call'[c].pc # "waiting"
      BY <1>0 DEF SendFails, Lost, CallTypes, BridgeCallRecords
    <3>2. SendsRequest(c) => call'[c].pc = "waiting" /\ call[c].pc = "added"
      BY <1>0 DEF SendsRequest, CallTypes, BridgeCallRecords
    <3> QED
      BY <1>9, <3>1, <3>2 DEF SendFails, GivesUp, Adds
  <2>3. \A j \in Links, e \in Attempts : e \in link[j].pending /\ e # a => e \in link'[j].pending
    BY <1>0, <1>5, <1>6, <2>1 DEF LinkTypes, LinkRecords
  <2> QED
    BY <1>4, <2>2, <2>3
<1> QED
  BY <1>7, <1>8, <1>9

LEMMA CallsStill ==
  ASSUME CallTypes, CallsServed, UNCHANGED call, PendingStays
  PROVE  CallsMove
<1>1. \A c \in BridgeCalls : Waits(call[c]) => call[c].on \in Links
  BY DEF Waits, CallsServed
<1>2. \A c \in BridgeCalls : HeldMove(c)
  BY <1>1 DEF HeldMove, PendingStays
<1> QED
  BY <1>2 DEF CallsMove, CallTypes, CallMove, SameCall

\* A call that looks for its browser knows which device that was.
LEMMA RejoinsKnow ==
  ASSUME LinkSound, CallsServed, NEW c \in BridgeCalls, call[c].pc = "rejoin"
  PROVE  DeviceOf(call[c].on) \in Codes
BY CredParts DEF CallsServed, Served, LinkSound, DeviceOf

LEMMA ChoosingMoves ==
  ASSUME BridgeTypes, LinkSound, CallsServed, NEW c \in BridgeCalls,
         \/ Picks(c) \/ PicksNone(c) \/ Receives(c) \/ LooksForRejoin(c) \/ JudgesSession(c)
         \/ Rejoined(c) \/ RejoinEnds(c)
  PROVE  CallsMove
<1>0. CallTypes /\ SessionTypes /\ UNCHANGED link
  <2>1. UNCHANGED link
    BY LinksRest
  <2> QED
    BY <2>1 DEF BridgeTypes
<1>1. call[c] \in BridgeCallRecords
  BY <1>0 DEF CallTypes
<1>2. ASSUME NEW n \in BridgeCallRecords, call' = [call EXCEPT ![c] = n], CallMove(call[c], n),
             Waits(n) => Waits(call[c]) /\ n.on = call[c].on /\ n.try = call[c].try
      PROVE  CallsMove
  <2>1. call'[c] = n
    BY <1>0, <1>2 DEF CallTypes
  <2>2. HeldMove(c)
    BY <1>0, <1>2, <2>1 DEF HeldMove
  <2> QED
    BY <1>0, <1>2, <2>2, OneCallMoves
<1>3. CASE Picks(c)
  <2>1. PICK d \in Codes, reads \in BOOLEAN :
          /\ call[c].pc = "idle" /\ sessionOf[d] # NoLink
          /\ call' = [call EXCEPT ![c].pc = "picked", ![c].on = sessionOf[d],
                                  ![c].idempotent = reads]
    BY <1>3 DEF Picks
  <2>2. PICK s \in Links : s = sessionOf[d]
    BY <1>0, <2>1 DEF SessionTypes
  <2> DEFINE n == [call[c] EXCEPT !.pc = "picked", !.on = s, !.idempotent = reads]
  <2>3. n \in BridgeCallRecords /\ call' = [call EXCEPT ![c] = n] /\ n.pc = "picked" /\ n.on = s
        /\ n.gen = call[c].gen
    BY <1>0, <1>1, <2>1, <2>2 DEF BridgeCallRecords, CallTypes, CallStages
  <2> HIDE DEF n
  <2>4. CallMove(call[c], n)
    BY <2>1, <2>2, <2>3 DEF CallMove
  <2> QED
    BY <1>2, <2>3, <2>4 DEF Waits
<1>4. CASE PicksNone(c) \/ RejoinEnds(c)
  <2>1. PICK o \in {"nobrowser", "disconnected"} :
          call' = [call EXCEPT ![c].pc = "done", ![c].outcome = o]
    BY <1>4 DEF PicksNone, RejoinEnds
  <2> DEFINE n == [call[c] EXCEPT !.pc = "done", !.outcome = o]
  <2>2. n \in BridgeCallRecords /\ call' = [call EXCEPT ![c] = n] /\ n.pc = "done"
        /\ n.gen = call[c].gen
    BY <1>0, <1>1, <2>1 DEF BridgeCallRecords, CallTypes, CallStages
  <2> HIDE DEF n
  <2>3. CallMove(call[c], n)
    BY <2>2 DEF CallMove
  <2> QED
    BY <1>2, <2>2, <2>3 DEF Waits
<1>5. CASE Receives(c)
  <2>1. PICK n \in BridgeCallRecords : /\ call' = [call EXCEPT ![c] = n] /\ SameCall(call[c], n)
                                       /\ n.pc \in {"rejoin", "done"}
    <3> DEFINE ok == [call[c] EXCEPT !.pc = "done", !.outcome = "ok"]
    <3>1. /\ ok \in BridgeCallRecords /\ SameCall(call[c], ok) /\ ok.pc = "done"
          /\ Lost(c) \in BridgeCallRecords /\ SameCall(call[c], Lost(c))
          /\ Lost(c).pc \in {"rejoin", "done"}
      BY <1>1 DEF Lost, BridgeCallRecords, CallStages, SameCall
    <3>2. call' = [call EXCEPT ![c] = ok] \/ call' = [call EXCEPT ![c] = Lost(c)]
      BY <1>0, <1>5 DEF Receives, CallTypes
    <3> HIDE DEF ok
    <3> QED
      BY <3>1, <3>2
  <2>2. call[c].pc = "waiting"
    BY <1>5 DEF Receives
  <2>3. CallMove(call[c], n)
    BY <2>1, <2>2 DEF CallMove, SameCall
  <2> QED
    BY <1>2, <2>1, <2>3 DEF Waits
<1>6. CASE LooksForRejoin(c)
  <2> DEFINE s == sessionOf[DeviceOf(call[c].on)]
             n == [call[c] EXCEPT !.pc = IF s = NoLink THEN "blocked" ELSE "judging",
                                  !.on = IF s = NoLink THEN @ ELSE s, !.gen = joinedGen]
  <2>1. /\ call[c].pc = "rejoin" /\ call' = [call EXCEPT ![c] = n]
    BY <1>0, <1>6 DEF LooksForRejoin, CallTypes
  <2>2. s \in Links \cup {NoLink} /\ joinedGen \in Nat
    <3>1. DeviceOf(call[c].on) \in Codes
      BY <1>6, RejoinsKnow DEF LooksForRejoin
    <3> QED
      BY <1>0, <3>1 DEF SessionTypes
  <2> HIDE DEF s
  <2>3. /\ n \in BridgeCallRecords /\ n.gen = joinedGen
        /\ IF s = NoLink THEN n.pc = "blocked" /\ n.on = call[c].on
                         ELSE n.pc = "judging" /\ n.on = s
    BY <1>1, <2>2 DEF BridgeCallRecords, CallStages
  <2> HIDE DEF n
  <2>4. CallMove(call[c], n)
    BY <2>1, <2>3 DEF CallMove, s
  <2> QED
    BY <1>2, <2>1, <2>3, <2>4 DEF Waits
<1>7. CASE JudgesSession(c)
  <2>1. PICK n \in BridgeCallRecords : /\ call' = [call EXCEPT ![c] = n] /\ SameCall(call[c], n)
                                       /\ \/ n.pc = "picked"
                                          \/ n.pc = "blocked" /\ link[call[c].on].closeErr
    <3>1. CASE link[call[c].on].closeErr
      <4> DEFINE m == [call[c] EXCEPT !.pc = "blocked"]
      <4>1. m \in BridgeCallRecords /\ SameCall(call[c], m) /\ m.pc = "blocked"
        BY <1>1 DEF BridgeCallRecords, CallStages, SameCall
      <4>2. call' = [call EXCEPT ![c] = m]
        BY <1>0, <1>7, <3>1 DEF JudgesSession, CallTypes
      <4> QED
        BY <3>1, <4>1, <4>2
    <3>2. CASE ~link[call[c].on].closeErr
      <4> DEFINE m == [call[c] EXCEPT !.pc = "picked", !.try = 2, !.chan = "empty"]
      <4>0. 2 \in 1 .. 2
        OBVIOUS
      <4>1. m \in BridgeCallRecords
        BY <1>1, <4>0 DEF BridgeCallRecords, CallStages
      <4>p. SameCall(call[c], m) /\ m.pc = "picked"
        BY <1>1 DEF BridgeCallRecords, SameCall
      <4>2. call' = [call EXCEPT ![c] = m]
        BY <1>0, <1>7, <3>2 DEF JudgesSession, CallTypes
      <4> HIDE DEF m
      <4> QED
        BY <4>1, <4>p, <4>2
    <3> QED
      BY <3>1, <3>2
  <2>2. call[c].pc = "judging"
    BY <1>7 DEF JudgesSession
  <2>3. CallMove(call[c], n)
    BY <2>1, <2>2 DEF CallMove
  <2> QED
    BY <1>2, <2>1, <2>3 DEF Waits
<1>8. CASE Rejoined(c)
  <2> DEFINE n == [call[c] EXCEPT !.pc = "rejoin"]
  <2>1. call[c].pc = "blocked" /\ call' = [call EXCEPT ![c] = n]
    BY <1>0, <1>8 DEF Rejoined, CallTypes
  <2>2. n \in BridgeCallRecords /\ n.pc = "rejoin" /\ SameCall(call[c], n)
    BY <1>1 DEF BridgeCallRecords, CallStages, SameCall
  <2> HIDE DEF n
  <2>3. CallMove(call[c], n)
    BY <2>1, <2>2 DEF CallMove
  <2> QED
    BY <1>2, <2>1, <2>2, <2>3 DEF Waits
<1> QED
  BY <1>3, <1>4, <1>5, <1>6, <1>7, <1>8

LEMMA AttemptMoves ==
  ASSUME BridgeTypes, CallsServed, NEW c \in BridgeCalls,
         Adds(c) \/ SendsRequest(c) \/ SendFails(c) \/ GivesUp(c)
  PROVE  CallsMove
<1>0. CallTypes
  BY DEF BridgeTypes
<1>1. call[c] \in BridgeCallRecords
  BY <1>0 DEF CallTypes
<1> DEFINE n == call'[c]
<1>2. /\ n \in BridgeCallRecords /\ call' = [call EXCEPT ![c] = n] /\ SameCall(call[c], n)
      /\ \/ call[c].pc \in {"picked", "added", "waiting"} /\ n.pc \in {"rejoin", "done"}
         \/ /\ Adds(c) /\ ~link[call[c].on].closeErr /\ n.try = call[c].try
            /\ call[c].pc = "picked" /\ n.pc = "added"
         \/ /\ SendsRequest(c) /\ n.try = call[c].try /\ n.chan = call[c].chan
            /\ call[c].pc = "added" /\ n.pc = "waiting"
  <2>1. Lost(c) \in BridgeCallRecords /\ SameCall(call[c], Lost(c)) /\ Lost(c).pc \in {"rejoin", "done"}
    BY <1>1 DEF Lost, BridgeCallRecords, CallStages, SameCall
  <2>2. CASE Adds(c)
    <3>1. CASE link[call[c].on].closeErr
      BY <1>0, <2>1, <2>2, <3>1 DEF Adds, CallTypes
    <3>2. CASE ~link[call[c].on].closeErr
      BY <1>0, <1>1, <2>2, <3>2 DEF Adds, CallTypes, BridgeCallRecords, CallStages, SameCall
    <3> QED
      BY <3>1, <3>2
  <2>3. CASE SendsRequest(c)
    BY <1>0, <1>1, <2>3 DEF SendsRequest, CallTypes, BridgeCallRecords, CallStages, SameCall
  <2>4. CASE SendFails(c)
    BY <1>0, <2>1, <2>4 DEF SendFails, CallTypes
  <2>5. CASE GivesUp(c)
    BY <1>0, <1>1, <2>5 DEF GivesUp, CallTypes, BridgeCallRecords, CallStages, SameCall
  <2> QED
    BY <2>2, <2>3, <2>4, <2>5
<1>3. \A k \in Links, a \in Attempts : a \in link[k].pending /\ a[1] # c => a \in link'[k].pending
  BY OwnTakenOut
<1>4. HeldMove(c)
  <2>1. SendsRequest(c) /\ <<c, call[c].try>> \in link[call[c].on].pending
          => <<c, call[c].try>> \in link'[call[c].on].pending
    BY OwnTakenOut DEF PendingStays, CallsServed, SendsRequest
  <2> QED
    BY <1>2, <2>1, OwnTakenOut DEF HeldMove, Waits, SameCall
<1> HIDE DEF n
<1>5. CallMove(call[c], n)
  BY <1>2 DEF CallMove, SameCall
<1> QED
  BY <1>0, <1>2, <1>3, <1>4, <1>5, OneCallMoves

LEMMA DrainsMoves ==
  ASSUME BridgeTypes, CallsServed, NEW k \in Links, Drains(k)
  PROVE  CallsMove
<1>0. CallTypes /\ LinkTypes
  BY DEF BridgeTypes
<1>1. ASSUME NEW c \in BridgeCalls
      PROVE  call'[c] \in BridgeCallRecords /\ CallMove(call[c], call'[c]) /\ HeldMove(c)
  <2>1. call[c] \in BridgeCallRecords
    BY <1>0 DEF CallTypes
  <2>2. CASE <<c, call[c].try>> \in link[k].pending /\ call[c].on = k
    <3>1. call'[c] = [call[c] EXCEPT !.chan = "closed"]
      BY <2>2 DEF Drains
    <3> QED
      BY <2>1, <3>1 DEF BridgeCallRecords, CallMove, SameCall, HeldMove, Waits
  <2>3. CASE ~(<<c, call[c].try>> \in link[k].pending /\ call[c].on = k)
    <3>1. call'[c] = call[c]
      BY <2>3 DEF Drains
    <3>2. Waits(call[c]) => call[c].on \in Links
      BY DEF Waits, CallsServed
    <3>3. \A j \in Links : j # k => link'[j] = link[j]
      BY <1>0 DEF Drains, LinkTypes
    <3> QED
      BY <2>1, <2>3, <3>1, <3>2, <3>3 DEF CallMove, SameCall, HeldMove
  <2> QED
    BY <2>2, <2>3
<1>2. CallTypes'
  <2>1. call' = [c \in BridgeCalls |-> call'[c]]
    BY DEF Drains
  <2> QED
    BY <1>1, <2>1 DEF CallTypes
<1> QED
  BY <1>1, <1>2 DEF CallsMove

LEMMA ReadsAnswerMoves ==
  ASSUME BridgeTypes, CallsServed, NEW k \in Links, NEW a \in Attempts, ReadsAnswer(k, a)
  PROVE  CallsMove
<1>0. CallTypes /\ LinkTypes /\ a[1] \in BridgeCalls
  BY DEF BridgeTypes, Attempts
<1>1. \A j \in Links, e \in Attempts : e \in link[j].pending /\ e # a => e \in link'[j].pending
  <2>1. link[k] \in LinkRecords
    BY <1>0 DEF LinkTypes
  <2> QED
    BY <1>0, <2>1 DEF ReadsAnswer, LinkTypes, LinkRecords
<1>2. a \notin link[k].pending => PendingStays
  <2>1. link[k] \in LinkRecords
    BY <1>0 DEF LinkTypes
  <2> QED
    BY <1>0, <2>1 DEF ReadsAnswer, LinkTypes, LinkRecords, PendingStays
<1>3. CASE a \in link[k].pending
  <2> DEFINE c == a[1]
             n == [call[c] EXCEPT !.chan = "answer"]
  <2>1. call[c] \in BridgeCallRecords /\ call' = [call EXCEPT ![c] = n]
    BY <1>0, <1>3 DEF ReadsAnswer, CallTypes
  <2>2. n \in BridgeCallRecords /\ CallMove(call[c], n) /\ call'[c] = n /\ n.chan = "answer"
    BY <1>0, <2>1 DEF BridgeCallRecords, CallMove, SameCall, CallTypes
  <2>3. HeldMove(c)
    BY <2>2 DEF HeldMove, Waits
  <2>4. \A j \in Links, e \in Attempts : e \in link[j].pending /\ e[1] # c => e \in link'[j].pending
    BY <1>1
  <2> HIDE DEF n
  <2> QED
    BY <1>0, <2>1, <2>2, <2>3, <2>4, OneCallMoves
<1>4. CASE a \notin link[k].pending
  BY <1>0, <1>2, <1>4, CallsStill DEF ReadsAnswer
<1> QED
  BY <1>3, <1>4

LEMMA CallsDoMove ==
  ASSUME BridgeTypes, LinkSound, CallsServed, [BridgeNext]_bridgeVars
  PROVE  CallsMove
<1>0. CallTypes
  BY DEF BridgeTypes
<1>1. ASSUME NEW c \in BridgeCalls, Picks(c) \/ PicksNone(c) \/ CallSteps(c) PROVE CallsMove
  BY <1>1, ChoosingMoves, AttemptMoves DEF CallSteps
<1>2. ASSUME NEW k \in Links, Drains(k) \/ \E a \in Attempts : ReadsAnswer(k, a) PROVE CallsMove
  BY <1>2, DrainsMoves, ReadsAnswerMoves
<1>3. CASE UNCHANGED call
  <2>1. CASE PendingStays
    BY <1>0, <1>3, <2>1, CallsStill
  <2> QED
    BY <1>1, <1>2, <2>1, PendingKept
<1> QED
  BY <1>1, <1>2, <1>3, CallFrame

-----------------------------------------------------------------------------
GensPast == \A c \in BridgeCalls : call[c].gen <= joinedGen

\* What a call judges is the registered session, unless that ended or another
\* has joined since.
JudgesCurrent ==
  \A c \in BridgeCalls :
    call[c].pc = "judging" /\ call[c].gen = joinedGen
    => sessionOf[DeviceOf(call[c].on)] \in {call[c].on, NoLink}

BridgeInv ==
  /\ BridgeTypes /\ LinkSound /\ CallsServed
  /\ SessionSound /\ NewestServes
  /\ GensPast /\ JudgesCurrent /\ RejoinNotMissed /\ WaitersAreHeld

LEMMA CallsServedKept ==
  ASSUME BridgeTypes, LinkSound, SessionSound, CallsServed, LinksMove, CallsMove
  PROVE  CallsServed'
<1>0. SessionTypes
  BY DEF BridgeTypes
<1>1. ASSUME NEW d \in Codes, sessionOf[d] # NoLink PROVE sessionOf[d] \in Links /\ Served(sessionOf[d])
  BY <1>0, <1>1 DEF SessionTypes, SessionSound, Registered, LinkSound, Served
<1>s. ASSUME NEW k \in Links, Served(k)
      PROVE  \/ link'[k].stage \in {"replacing", "running"}
             \/ link'[k].stage \in {"ended", "unregistered", "drained"} /\ link'[k].closeErr
  BY <1>s, ServedStays DEF Served
<1> SUFFICES ASSUME NEW c \in BridgeCalls,
                    call'[c].pc \in {"picked", "added", "waiting", "rejoin", "judging", "blocked"}
             PROVE  call'[c].on \in Links /\ Served(call'[c].on)
  BY <1>s DEF CallsServed, Served
<1> DEFINE o == call[c] n == call'[c]
<1>2. /\ CallMove(o, n)
      /\ n.pc \in {"picked", "added", "waiting", "rejoin", "judging", "blocked"}
  BY DEF CallsMove
<1>3. o.pc \in {"picked", "added", "waiting", "rejoin", "judging", "blocked"}
        => o.on \in Links /\ Served(o.on)
  BY DEF CallsServed
<1>4. o.pc = "rejoin" => DeviceOf(o.on) \in Codes
  BY RejoinsKnow
<1> HIDE DEF o, n
<1>5. n.on \in Links /\ Served(n.on)
  BY <1>1, <1>2, <1>3, <1>4 DEF CallMove, SameCall
<1> QED
  BY <1>5 DEF n

LEMMA DevicesStay ==
  ASSUME LinksMove, NEW k \in Links, Served(k)
  PROVE  DeviceOf(k)' = DeviceOf(k)
BY ServedStays DEF DeviceOf

\* A newer session makes every generation a caller holds old; otherwise the
\* registered session of a device is the one it was, or none.
LEMMA GensMove ==
  ASSUME BridgeTypes, LinkSound, [BridgeNext]_bridgeVars
  PROVE  \/ joinedGen' = joinedGen + 1
         \/ joinedGen' = joinedGen /\ \A d \in Codes : sessionOf'[d] \in {sessionOf[d], NoLink}
<1>1. ASSUME NEW k \in Links, Unregisters(k)
      PROVE  joinedGen' = joinedGen /\ \A d \in Codes : sessionOf'[d] \in {sessionOf[d], NoLink}
  BY <1>1 DEF Unregisters, WithoutSession
<1>2. ASSUME NEW k \in Links, Registers(k) PROVE joinedGen' = joinedGen + 1
  BY <1>2 DEF Registers
<1> QED
  BY <1>1, <1>2, SessionFrame

LEMMA GensPastKept ==
  ASSUME BridgeTypes, LinkSound, GensPast, CallsMove, [BridgeNext]_bridgeVars
  PROVE  GensPast'
<1> SUFFICES ASSUME NEW c \in BridgeCalls PROVE call'[c].gen <= joinedGen'
  BY DEF GensPast
<1>1. joinedGen \in Nat /\ joinedGen' \in {joinedGen, joinedGen + 1}
  BY GensMove DEF BridgeTypes, SessionTypes
<1> DEFINE o == call[c] n == call'[c]
<1>2. CallMove(o, n)
  BY DEF CallsMove
<1>3. o.gen <= joinedGen /\ o.gen \in Nat
  BY DEF GensPast, BridgeTypes, CallTypes, BridgeCallRecords
<1> HIDE DEF o, n
<1>4. n.gen \in {o.gen, joinedGen}
  BY <1>2 DEF CallMove, SameCall
<1>5. n.gen <= joinedGen'
  BY <1>1, <1>3, <1>4
<1> QED
  BY <1>5 DEF n

\* What a caller has found of the session of its device stays so until another
\* session joins.
LEMMA FindingsKept ==
  ASSUME BridgeTypes, LinkSound, CallsServed, SessionSound, GensPast, JudgesCurrent,
         RejoinNotMissed, LinksMove, CallsMove, [BridgeNext]_bridgeVars
  PROVE  JudgesCurrent' /\ RejoinNotMissed'
<1>0. SessionTypes /\ CallTypes
  BY DEF BridgeTypes
<1> SUFFICES ASSUME NEW c \in BridgeCalls, call'[c].pc \in {"judging", "blocked"},
                    call'[c].gen = joinedGen'
             PROVE  /\ call'[c].pc = "judging"
                         => sessionOf'[link'[call'[c].on].cred[2]] \in {call'[c].on, NoLink}
                    /\ call'[c].pc = "blocked"
                         => \/ sessionOf'[link'[call'[c].on].cred[2]] = NoLink
                            \/ link'[sessionOf'[link'[call'[c].on].cred[2]]].closeErr
  BY DEF JudgesCurrent, RejoinNotMissed, DeviceOf
<1> DEFINE o == call[c] n == call'[c] k == o.on
<1>1. /\ CallMove(o, n) /\ o.gen <= joinedGen /\ o.gen \in Nat /\ joinedGen \in Nat
      /\ n.pc \in {"judging", "blocked"} /\ n.gen = joinedGen'
  BY <1>0 DEF CallsMove, GensPast, CallTypes, BridgeCallRecords, SessionTypes
<1>2. o.pc \in {"rejoin", "judging", "blocked"} => k \in Links /\ Served(k)
  BY DEF CallsServed
<1>3. /\ o.pc = "judging" /\ o.gen = joinedGen => sessionOf[DeviceOf(k)] \in {k, NoLink}
      /\ o.pc = "blocked" /\ o.gen = joinedGen
           => sessionOf[DeviceOf(k)] = NoLink \/ link[sessionOf[DeviceOf(k)]].closeErr
  BY DEF JudgesCurrent, RejoinNotMissed
<1> HIDE DEF o, n
<1>4. /\ o.pc \in {"rejoin", "judging", "blocked"}
      /\ n.gen \in {o.gen, joinedGen}
  BY <1>1 DEF CallMove, SameCall
<1>5. joinedGen' = joinedGen /\ \A d \in Codes : sessionOf'[d] \in {sessionOf[d], NoLink}
  <2>1. joinedGen' # joinedGen + 1
    BY <1>1, <1>4
  <2> QED
    BY <2>1, GensMove
<1>6. PICK d \in Codes : d = DeviceOf(k) /\ d = link'[k].cred[2]
  <2>1. k \in Links /\ Served(k)
    BY <1>2, <1>4
  <2>2. DeviceOf(k) \in Codes
    BY <2>1, CredParts DEF Served, LinkSound, DeviceOf
  <2>3. link'[k].cred = link[k].cred
    <3> HIDE DEF k
    <3> QED
      BY <2>1, ServedStays
  <2> QED
    BY <2>2, <2>3 DEF DeviceOf
<1>7. ASSUME NEW s \in Links, s = sessionOf[d]
      PROVE  /\ DeviceOf(s) = d /\ link'[s].cred = link[s].cred
             /\ link[s].closeErr => link'[s].closeErr
  <2>1. Registered(s) /\ DeviceOf(s) = d
    BY <1>7, LinksAre DEF SessionSound
  <2> QED
    BY <2>1, RegisteredStays
<1>8. sessionOf[d] \in Links \cup {NoLink}
  BY <1>0 DEF SessionTypes
<1>9. CASE n.pc = "judging"
  <2>1. CASE o.pc = "judging"
    <3>1. n.on = k /\ o.gen = joinedGen
      BY <1>1, <1>5, <1>9, <2>1 DEF CallMove, SameCall
    <3> QED
      BY <1>3, <1>5, <1>6, <1>9, <2>1, <3>1 DEF n
  <2>2. CASE o.pc # "judging"
    <3>1. n.on = sessionOf[d] /\ n.on # NoLink
      BY <1>1, <1>6, <1>9, <2>2 DEF CallMove
    <3>2. link'[n.on].cred[2] = d
      BY <1>7, <1>8, <3>1 DEF DeviceOf
    <3> QED
      BY <1>5, <1>9, <3>1, <3>2 DEF n
  <2> QED
    BY <2>1, <2>2
<1>10. CASE n.pc = "blocked"
  <2>1. n.on = k
    BY <1>1, <1>4, <1>10 DEF CallMove, SameCall
  <2>2. sessionOf[d] = NoLink \/ link[sessionOf[d]].closeErr
    <3>1. CASE o.pc = "rejoin"
      BY <1>1, <1>6, <1>10, <3>1 DEF CallMove
    <3>2. CASE o.pc = "judging"
      <4>1. o.gen = joinedGen /\ link[k].closeErr
        BY <1>1, <1>5, <1>10, <3>2 DEF CallMove, SameCall
      <4> QED
        BY <1>3, <1>6, <3>2, <4>1
    <3>3. CASE o.pc = "blocked"
      <4>1. o.gen = joinedGen
        BY <1>1, <1>5, <1>10, <3>3 DEF CallMove, SameCall
      <4> QED
        BY <1>3, <1>6, <3>3, <4>1
    <3> QED
      BY <1>4, <3>1, <3>2, <3>3
  <2>3. sessionOf'[d] = NoLink \/ link'[sessionOf'[d]].closeErr
    BY <1>5, <1>7, <1>8, <2>2
  <2> QED
    BY <1>6, <1>10, <2>1, <2>3 DEF n
<1> QED
  BY <1>1, <1>9, <1>10 DEF n

\* A live session that was registered is not drained by one step.
LEMMA WaitersKept ==
  ASSUME BridgeTypes, LinkSound, CallsServed, WaitersAreHeld, LinksMove, CallsMove
  PROVE  WaitersAreHeld'
<1> SUFFICES ASSUME NEW c \in BridgeCalls, Waits(call'[c])
             PROVE  /\ link'[call'[c].on].stage # "drained"
                    /\ <<c, call'[c].try>> \in link'[call'[c].on].pending
  BY DEF WaitersAreHeld, Waits
<1> DEFINE k == call[c].on l == link[k] m == link'[k] a == <<c, call[c].try>>
<1>1. /\ call'[c].on = k /\ call'[c].try = call[c].try
      /\ \/ Waits(call[c]) /\ (a \in link[k].pending => a \in link'[k].pending)
         \/ call[c].pc = "picked" /\ ~link[k].closeErr /\ a \in link'[k].pending
  BY DEF CallsMove, HeldMove
<1>2. k \in Links /\ Served(k)
  BY <1>1 DEF CallsServed, Waits
<1>3. Waits(call[c]) => l.stage # "drained" /\ a \in l.pending
  BY DEF WaitersAreHeld, Waits
<1>4. a \in m.pending
  BY <1>1, <1>3
<1>5. m.stage # "drained"
  <2>1. LinkMove(k, l, m)
    BY <1>2 DEF LinksMove
  <2>2. /\ l.stage \in {"replacing", "running", "ended", "unregistered", "drained"}
        /\ l.stage \in {"replacing", "running"} \/ l.closeErr
    BY <1>2 DEF Served
  <2>3. l.stage # "drained"
    BY <1>1, <1>3, <2>2
  <2>4. ~(a \in l.pending /\ l.stage = "unregistered" /\ m.stage = "drained")
    <3> SUFFICES ASSUME a \in l.pending, l.stage = "unregistered", m.stage = "drained"
                 PROVE  FALSE
      OBVIOUS
    <3>1. \A e \in BridgeCalls : <<e, call[e].try>> \in l.pending /\ call[e].on = k
                                   => call'[e].chan = "closed"
      <4> HIDE DEF l, m
      <4> QED
        BY <2>1 DEF LinkMove
    <3> QED
      BY <3>1 DEF Waits
  <2>5. l.stage = "unregistered" => a \in l.pending
    BY <1>1, <1>3, <2>2
  <2> HIDE DEF l, m, a
  <2> QED
    BY <2>1, <2>2, <2>3, <2>4, <2>5 DEF LinkMove
<1> QED
  BY <1>1, <1>4, <1>5

LEMMA BridgeInvStart == BridgeInit => BridgeInv
<1> SUFFICES ASSUME BridgeInit PROVE BridgeInv
  OBVIOUS
<1> DEFINE fresh == [stage |-> "unused", cred |-> <<"none", NoCode>>, old |-> NoLink,
                     closeErr |-> FALSE, srvOpen |-> FALSE, extOpen |-> FALSE,
                     code |-> "none", pending |-> {}, welcome |-> FALSE,
                     toExt |-> {}, toServer |-> {}]
           new == [pc |-> "idle", idempotent |-> FALSE, on |-> NoLink, try |-> 1, gen |-> 0,
                   chan |-> "empty", outcome |-> "none"]
<1>1. fresh \in LinkRecords /\ fresh.stage = "unused"
  BY DEF LinkRecords, LinkStages, CloseCodes
<1>2. new \in BridgeCallRecords /\ new.pc = "idle" /\ new.gen = 0
  BY DEF BridgeCallRecords, CallStages
<1>3. link = [k \in Links |-> fresh] /\ call = [c \in BridgeCalls |-> new]
  BY DEF BridgeInit
<1> HIDE DEF fresh, new
<1>4. LinkTypes /\ CallTypes /\ \A k \in Links : link[k].stage = "unused"
  BY <1>1, <1>2, <1>3 DEF LinkTypes, CallTypes
<1>5. \A c \in BridgeCalls : call[c].pc = "idle" /\ call[c].gen = 0
  BY <1>2, <1>3
<1>6. StoreTypes /\ SessionTypes /\ joinedGen = 0 /\ \A d \in Codes : sessionOf[d] = NoLink
  BY DEF BridgeInit, StoreTypes, SessionTypes
<1>7. ExtensionTypes
  BY DEF BridgeInit, ExtensionTypes
<1>8. LinkSound /\ NewestServes
  BY <1>4 DEF LinkSound, NewestServes, Registered
<1>9. CallsServed /\ JudgesCurrent /\ RejoinNotMissed /\ WaitersAreHeld /\ GensPast
  BY <1>5, <1>6 DEF CallsServed, JudgesCurrent, RejoinNotMissed, WaitersAreHeld, GensPast
<1> QED
  BY <1>4, <1>6, <1>7, <1>8, <1>9 DEF BridgeInv, BridgeTypes, SessionSound

LEMMA BridgeInvKept ==
  ASSUME BridgeInv, [BridgeNext]_bridgeVars
  PROVE  BridgeInv'
<1> USE DEF BridgeInv
<1>1. LinksMove
  BY LinksDoMove
<1>2. CallsMove
  BY CallsDoMove
<1>3. \A d \in Codes : sessionOf[d] # NoLink => link[sessionOf[d]].stage # "welcomed"
  BY DEF SessionSound, Registered
<1>4. BridgeTypes'
  BY <1>1, <1>2, StoreTypesKept, SessionTypesKept, ExtensionTypesKept
  DEF BridgeTypes, LinksMove, CallsMove
<1>5. LinkSound'
  BY <1>1, <1>3, LinkSoundKept DEF BridgeTypes
<1>6. CallsServed'
  BY <1>1, <1>2, CallsServedKept
<1>7. SessionSound' /\ NewestServes'
  BY <1>1, SessionSoundKept, NewestServesKept
<1>8. GensPast'
  BY <1>2, GensPastKept
<1>9. JudgesCurrent' /\ RejoinNotMissed'
  BY <1>1, <1>2, FindingsKept
<1>10. WaitersAreHeld'
  BY <1>1, <1>2, WaitersKept
<1> QED
  BY <1>4, <1>5, <1>6, <1>7, <1>8, <1>9, <1>10

\* Bridge, session and caller agree at all times: a call that waits is in the
\* pending map of a session that will answer it or close its channel, one that
\* waits for its browser to come back has not missed its coming, and of two
\* sessions of a device the newer is the one calls reach (bridge.go, register,
\* unregister, request, run and waitFor).
THEOREM SessionsAlwaysAgree == BridgeInit /\ [][BridgeNext]_bridgeVars => []SessionsAgree
<1>1. BridgeInv => SessionsAgree
  BY DEF BridgeInv, SessionsAgree, NewestSessionServes, NewestServes, SessionSound
<1> QED
  BY <1>1, BridgeInvStart, BridgeInvKept, PTL

-----------------------------------------------------------------------------
\* A socket joins once: Bridge.joined was replaced by no more sessions than have
\* joined.
HaveJoined ==
  {k \in Links : link[k].stage \in {"replacing", "running", "ended", "unregistered", "drained"}}

JoinsCounted == joinedGen <= Cardinality(HaveJoined)

LEMMA JoinedAreFew ==
  IsFiniteSet(HaveJoined) /\ Cardinality(HaveJoined) \in 0 .. MaxLinks
<1>1. IsFiniteSet(Links) /\ Cardinality(Links) = MaxLinks
  BY LinksAre, FS_Interval DEF Links
<1>2. HaveJoined \subseteq Links
  BY DEF HaveJoined
<1>3. IsFiniteSet(HaveJoined) /\ Cardinality(HaveJoined) <= MaxLinks
  BY <1>1, <1>2, FS_Subset
<1> QED
  BY <1>3, LinksAre, FS_CardinalityType

LEMMA JoinsStayCounted ==
  ASSUME BridgeInv, BridgeInv', JoinsCounted, [BridgeNext]_bridgeVars
  PROVE  JoinsCounted'
<1> DEFINE J == HaveJoined K == HaveJoined'
<1>1. LinksMove
  BY LinksDoMove DEF BridgeInv
<1>2. J \subseteq K
  <2> SUFFICES ASSUME NEW k \in J PROVE k \in K
    OBVIOUS
  <2>1. k \in Links /\ LinkMove(k, link[k], link'[k])
    BY <1>1 DEF HaveJoined, LinksMove
  <2> QED
    BY <2>1 DEF HaveJoined, LinkMove
<1>3. IsFiniteSet(J) /\ IsFiniteSet(K) /\ K \subseteq Links /\ joinedGen \in Nat
  <2>1. IsFiniteSet(Links)
    BY LinksAre, FS_Interval DEF Links
  <2>2. J \subseteq Links /\ K \subseteq Links
    BY DEF HaveJoined
  <2>3. joinedGen \in Nat
    BY DEF BridgeInv, BridgeTypes, SessionTypes
  <2> QED
    BY <2>1, <2>2, <2>3, FS_Subset
<1>4. Cardinality(J) \in Nat /\ Cardinality(K) \in Nat /\ Cardinality(J) <= Cardinality(K)
  <2> HIDE DEF J, K
  <2> QED
    BY <1>2, <1>3, FS_Subset, FS_CardinalityType
<1>5. ASSUME NEW k \in Links, Registers(k) PROVE Cardinality(J) + 1 <= Cardinality(K)
  <2>1. k \notin J
    BY <1>5 DEF HaveJoined, Registers
  <2>2. k \in K
    <3>1. link[k] \in LinkRecords /\ link \in [Links -> LinkRecords]
      BY DEF BridgeInv, BridgeTypes, LinkTypes
    <3>2. link'[k].stage = "replacing"
      BY <1>5, <3>1 DEF Registers, LinkRecords
    <3> QED
      BY <3>2 DEF HaveJoined
  <2> HIDE DEF J, K
  <2>3. Cardinality(J \cup {k}) = Cardinality(J) + 1
    BY <1>3, <2>1, FS_AddElement
  <2>4. J \cup {k} \subseteq K
    BY <1>2, <2>2
  <2>5. Cardinality(J \cup {k}) <= Cardinality(K)
    BY <1>3, <2>4, FS_Subset
  <2> QED
    BY <2>3, <2>5
<1>6. joinedGen' = joinedGen \/ \E k \in Links : Registers(k)
  <2>1. BridgeTypes /\ LinkSound
    BY DEF BridgeInv
  <2>2. ASSUME NEW k \in Links, Unregisters(k) PROVE joinedGen' = joinedGen
    BY <2>2 DEF Unregisters
  <2> QED
    BY <2>1, <2>2, SessionFrame
<1>7. joinedGen <= Cardinality(J)
  BY DEF JoinsCounted
<1>8. joinedGen' <= Cardinality(K)
  <2>1. CASE joinedGen' = joinedGen
    BY <1>3, <1>4, <1>7, <2>1
  <2>2. ASSUME NEW k \in Links, Registers(k) PROVE joinedGen' <= Cardinality(K)
    <3>1. joinedGen' = joinedGen + 1
      BY <2>2 DEF Registers
    <3>2. Cardinality(J) + 1 <= Cardinality(K)
      BY <1>5, <2>2
    <3> HIDE DEF J, K
    <3> QED
      BY <1>3, <1>4, <1>7, <3>1, <3>2
  <2> QED
    BY <1>6, <2>1, <2>2
<1> QED
  BY <1>8 DEF JoinsCounted

\* The bridge, its store, both ends of each socket and the calls keep their types,
\* for any codes, sockets and calls; a generation a caller holds is one of a
\* session that joined.
THEOREM BridgeTypeCorrect == BridgeInit /\ [][BridgeNext]_bridgeVars => []BridgeTypeOK
<1>1. BridgeInit => BridgeInv /\ JoinsCounted
  <2> SUFFICES ASSUME BridgeInit PROVE BridgeInv /\ JoinsCounted
    OBVIOUS
  <2>1. joinedGen = 0
    BY DEF BridgeInit
  <2> QED
    BY <2>1, BridgeInvStart, JoinedAreFew DEF JoinsCounted
<1>2. BridgeInv /\ JoinsCounted /\ [BridgeNext]_bridgeVars => BridgeInv' /\ JoinsCounted'
  BY BridgeInvKept, JoinsStayCounted
<1>3. BridgeInv /\ JoinsCounted => BridgeTypeOK
  <2> SUFFICES ASSUME BridgeInv, JoinsCounted PROVE BridgeTypeOK
    OBVIOUS
  <2>1. StoreTypes /\ LinkTypes /\ SessionTypes /\ CallTypes /\ ExtensionTypes /\ GensPast
    BY DEF BridgeInv, BridgeTypes
  <2>2. joinedGen \in 0 .. MaxLinks
    <3>1. joinedGen \in Nat /\ joinedGen <= Cardinality(HaveJoined)
      BY <2>1 DEF JoinsCounted, SessionTypes
    <3>2. Cardinality(HaveJoined) \in 0 .. MaxLinks /\ MaxLinks \in Nat
      BY JoinedAreFew, LinksAre
    <3> QED
      BY <3>1, <3>2
  <2>3. \A c \in BridgeCalls : call[c] \in BridgeCallRecords /\ call[c].gen \in 0 .. MaxLinks
    <3> SUFFICES ASSUME NEW c \in BridgeCalls
                 PROVE  call[c] \in BridgeCallRecords /\ call[c].gen \in 0 .. MaxLinks
      OBVIOUS
    <3>1. call[c] \in BridgeCallRecords
      BY <2>1 DEF CallTypes
    <3>2. call[c].gen \in Nat /\ call[c].gen <= joinedGen
      BY <2>1, <3>1 DEF BridgeCallRecords, GensPast
    <3> QED
      BY <2>2, <3>1, <3>2, LinksAre
  <2>4. call \in [BridgeCalls -> [pc : CallStages, idempotent : BOOLEAN,
                                  on : Links \cup {NoLink}, try : 1 .. 2, gen : 0 .. MaxLinks,
                                  chan : {"empty", "answer", "closed"},
                                  outcome : {"none", "ok", "nobrowser", "disconnected",
                                             "timeout"}]]
    <3> DEFINE R == [pc : CallStages, idempotent : BOOLEAN,
                     on : Links \cup {NoLink}, try : 1 .. 2, gen : 0 .. MaxLinks,
                     chan : {"empty", "answer", "closed"},
                     outcome : {"none", "ok", "nobrowser", "disconnected", "timeout"}]
    <3>1. \A c \in BridgeCalls : call[c] \in R
      BY <2>3 DEF BridgeCallRecords
    <3>2. call = [c \in BridgeCalls |-> call[c]]
      BY <2>1 DEF CallTypes
    <3> HIDE DEF R
    <3>3. call \in [BridgeCalls -> R]
      BY <3>1, <3>2
    <3> QED
      BY <3>3 DEF R
  <2> QED
    BY <2>1, <2>2, <2>4
    DEF BridgeTypeOK, StoreTypes, LinkTypes, LinkRecords, CloseCodes, SessionTypes, CallStages,
        ExtensionTypes
<1> QED
  BY <1>1, <1>2, <1>3, PTL

-----------------------------------------------------------------------------
\* What a paired browser keeps.  A link in the terms of the devices: what it was
\* dialled with, a welcome on its way and the reason it was closed for each say
\* something of the device that stays true.
PairedTo(dev, l) ==
  /\ l.stage = "unused" => ~l.welcome /\ l.code = "none" /\ ~l.srvOpen
  /\ l.stage # "unused" /\ l.cred[1] = "secret" => dev[l.cred[2]] # "none"
  /\ l.welcome \/ l.stage = "authed" => dev[l.cred[2]] # "none"
  /\ l.code = "revoked" => dev[l.cred[2]] = "revoked"
  /\ l.code = "auth" /\ l.cred[1] = "secret" => dev[l.cred[2]] = "revoked"

PairInv ==
  /\ \A d \in Codes : pairCode[d] \in {"unmade", "fresh"} => device[d] = "none"
  /\ \A d \in revoking : device[d] = "revoked"
  /\ storage.secret # NoCode => device[storage.secret] # "none"
  /\ \A d \in Codes : <<"secret", d>> \in loads => device[d] # "none"
  /\ \A k \in Links : PairedTo(device, link[k])

\* A device is made once, and a revoked one stays revoked.
DevicesSettle ==
  \A d \in Codes : /\ device[d] # "none" => device'[d] # "none"
                   /\ device[d] = "revoked" => device'[d] = "revoked"

\* How one step may change what a link says of its device.
PairMove(l, m) ==
  \/ m = l
  \/ /\ l.stage = "unused" /\ m.stage = "hello" /\ m.cred \in loads
     /\ m.welcome = l.welcome /\ m.code = l.code
  \/ /\ l.stage # "unused" /\ m.stage # "unused" /\ m.cred = l.cred
     /\ m.stage = "authed" => l.stage = "authed" \/ device'[l.cred[2]] # "none"
     /\ m.welcome => l.welcome \/ l.stage = "authed"
     /\ m.code = "revoked" => l.code = "revoked" \/ device[l.cred[2]] = "revoked"
     /\ m.code = "auth" => l.code = "auth" \/ ~CredGood(l.cred)

\* Requests and answers on their way only become fewer.
FramesFall(l, m) == m.toExt \subseteq l.toExt /\ m.toServer \subseteq l.toServer

LinksPair == \A k \in Links : PairMove(link[k], link'[k])
LinksFall == \A k \in Links : FramesFall(link[k], link'[k])

\* A code that is still fresh has paired nothing, so no device comes back to life.
LEMMA DevicesDoSettle ==
  ASSUME BridgeTypes, LinkSound, PairInv, [BridgeNext]_bridgeVars
  PROVE  /\ DevicesSettle
         /\ \A d \in Codes : pairCode'[d] \in {"unmade", "fresh"} => device'[d] = "none"
         /\ \A d \in revoking' : device'[d] = "revoked"
<1>0. StoreTypes
  BY DEF BridgeTypes
<1>a. \A d \in Codes : pairCode[d] \in {"unmade", "fresh"} => device[d] = "none"
  BY DEF PairInv
<1>b. \A d \in revoking : device[d] = "revoked"
  BY DEF PairInv
<1>1. CASE UNCHANGED <<pairCode, device, revoking>>
  BY <1>a, <1>b, <1>1 DEF DevicesSettle
<1>2. ASSUME NEW c \in Codes, Pair(c) \/ CodeExpires(c)
      PROVE  /\ UNCHANGED <<device, revoking>>
             /\ \A d \in Codes : pairCode'[d] \in {"unmade", "fresh"}
                                   => pairCode[d] \in {"unmade", "fresh"}
  BY <1>0, <1>2 DEF StoreTypes, Pair, CodeExpires
<1>3. ASSUME NEW c \in Codes, RevokeStores(c)
      PROVE  /\ DevicesSettle /\ UNCHANGED pairCode
             /\ \A d \in Codes : device[d] = "none" => device'[d] = "none"
             /\ \A d \in revoking' : device'[d] = "revoked"
  BY <1>0, <1>b, <1>3 DEF StoreTypes, RevokeStores, DevicesSettle
<1>4. ASSUME NEW c \in Codes, RevokeShuts(c)
      PROVE  UNCHANGED <<device, pairCode>> /\ revoking' \subseteq revoking
  BY <1>4 DEF RevokeShuts, storeVars
<1>5. ASSUME NEW k \in Links, Authenticates(k)
      PROVE  /\ DevicesSettle /\ UNCHANGED revoking
             /\ \A d \in Codes : device[d] = "revoked" => device'[d] = "revoked"
             /\ \A d \in Codes : pairCode'[d] \in {"unmade", "fresh"} => device'[d] = "none"
  <2>1. DeviceOf(k) \in Codes
    BY <1>5, CredParts DEF LinkSound, Authenticates, DeviceOf
  <2>2. CASE link[k].cred[1] = "code"
    <3>1. /\ pairCode[DeviceOf(k)] = "fresh"
          /\ pairCode' = [pairCode EXCEPT ![DeviceOf(k)] = "used"]
          /\ device' = [device EXCEPT ![DeviceOf(k)] = "live"] /\ UNCHANGED revoking
      BY <1>5, <2>2 DEF Authenticates, CredGood, DeviceOf
    <3> QED
      BY <1>0, <1>a, <2>1, <3>1 DEF DevicesSettle, StoreTypes
  <2>3. CASE link[k].cred[1] # "code"
    BY <1>a, <1>5, <2>3 DEF Authenticates, DevicesSettle, storeVars
  <2> QED
    BY <2>2, <2>3
<1>6. ASSUME NEW c \in Codes, Pair(c) \/ CodeExpires(c) \/ RevokeStores(c) \/ RevokeShuts(c)
      PROVE  /\ DevicesSettle
             /\ \A d \in Codes : pairCode'[d] \in {"unmade", "fresh"} => device'[d] = "none"
             /\ \A d \in revoking' : device'[d] = "revoked"
  BY <1>a, <1>b, <1>2, <1>3, <1>4, <1>6 DEF DevicesSettle
<1>7. revoking \subseteq Codes
  BY <1>0 DEF StoreTypes
<1>8. ASSUME NEW k \in Links, Authenticates(k) PROVE \A d \in revoking' : device'[d] = "revoked"
  BY <1>b, <1>5, <1>7, <1>8
<1> QED
  BY <1>1, <1>5, <1>6, <1>8, StoreFrame

\* What a link says of its device stays true of it.
LEMMA PairedKept ==
  ASSUME BridgeTypes, LinkSound, PairInv, DevicesSettle, LinksPair
  PROVE  \A k \in Links : PairedTo(device', link'[k])
<1> SUFFICES ASSUME NEW k \in Links PROVE PairedTo(device', link'[k])
  OBVIOUS
<1> DEFINE l == link[k] m == link'[k]
<1>1. PairMove(l, m) /\ PairedTo(device, l)
  BY DEF LinksPair, PairInv
<1>2. l.stage # "unused" => l.cred \in Creds
  BY DEF LinkSound
<1>3. l.cred \in Creds => l.cred[1] \in {"code", "secret"} /\ l.cred[2] \in Codes
  BY CredParts
<1>4. device \in [Codes -> {"none", "live", "revoked"}]
  BY DEF BridgeTypes, StoreTypes
<1>5. m.cred \in loads
        => m.cred[2] \in Codes /\ (m.cred[1] = "secret" => device[m.cred[2]] # "none")
  <2> SUFFICES ASSUME m.cred \in loads
               PROVE  m.cred[2] \in Codes
                      /\ (m.cred[1] = "secret" => device[m.cred[2]] # "none")
    OBVIOUS
  <2>1. m.cred \in Creds
    BY DEF BridgeTypes, ExtensionTypes
  <2>2. m.cred = <<m.cred[1], m.cred[2]>> /\ m.cred[2] \in Codes
    BY <2>1 DEF Creds
  <2> QED
    BY <2>2 DEF PairInv
<1> SUFFICES PairedTo(device', m)
  OBVIOUS
<1> HIDE DEF l, m
<1>6. CASE m = l /\ l.stage = "unused"
  BY <1>1, <1>6, <1>4 DEF PairedTo, DevicesSettle
<1>7. CASE m = l /\ l.stage # "unused"
  BY <1>1, <1>2, <1>3, <1>7 DEF PairedTo, DevicesSettle
<1>8. CASE /\ l.stage = "unused" /\ m.stage = "hello" /\ m.cred \in loads
           /\ m.welcome = l.welcome /\ m.code = l.code
  BY <1>1, <1>5, <1>8 DEF PairedTo, DevicesSettle
<1>9. CASE l.stage # "unused" /\ m.stage # "unused" /\ m.cred = l.cred /\ PairMove(l, m)
  <2>1. l.cred[2] \in Codes /\ l.cred[1] \in {"code", "secret"}
    BY <1>2, <1>3, <1>9
  <2>2. m.welcome => device'[l.cred[2]] # "none"
    BY <1>1, <1>9, <2>1 DEF PairMove, PairedTo, DevicesSettle
  <2>3. m.stage = "authed" => device'[l.cred[2]] # "none"
    BY <1>1, <1>9, <2>1 DEF PairMove, PairedTo, DevicesSettle
  <2>4. m.code = "revoked" => device'[l.cred[2]] = "revoked"
    BY <1>1, <1>9, <2>1 DEF PairMove, PairedTo, DevicesSettle
  <2>5. l.cred[1] = "secret" /\ ~CredGood(l.cred) => device[l.cred[2]] = "revoked"
    BY <1>1, <1>4, <1>9, <2>1 DEF PairedTo, CredGood
  <2>6. m.code = "auth" /\ m.cred[1] = "secret" => device'[l.cred[2]] = "revoked"
    BY <1>1, <1>9, <2>1, <2>5 DEF PairMove, PairedTo, DevicesSettle
  <2>7. m.cred[1] = "secret" => device'[l.cred[2]] # "none"
    BY <1>1, <1>9, <2>1 DEF PairedTo, DevicesSettle
  <2> QED
    BY <1>9, <2>2, <2>3, <2>4, <2>6, <2>7 DEF PairedTo
<1> QED
  BY <1>1, <1>6, <1>7, <1>8, <1>9 DEF PairMove

\* A step of one link.
LEMMA OnePairs ==
  ASSUME LinkTypes, NEW k \in Links, NEW m \in LinkRecords, link' = [link EXCEPT ![k] = m],
         PairMove(link[k], m)
  PROVE  LinksPair /\ (FramesFall(link[k], m) => LinksFall)
<1>1. link'[k] = m /\ \A j \in Links : j # k => link'[j] = link[j]
  BY DEF LinkTypes
<1>2. \A j \in Links : j # k => PairMove(link[j], link'[j]) /\ FramesFall(link[j], link'[j])
  BY <1>1 DEF PairMove, FramesFall
<1> QED
  BY <1>1, <1>2 DEF LinksPair, LinksFall

\* The usual case: a socket in use stays what it was, but may be closed.
LEMMA OneStaysPaired ==
  ASSUME LinkTypes, NEW k \in Links, NEW m \in LinkRecords, link' = [link EXCEPT ![k] = m],
         link[k].stage # "unused", m.stage \notin {"unused", "authed"} \/ m.stage = link[k].stage,
         m.cred = link[k].cred, m.welcome => link[k].welcome,
         m.code \in {link[k].code, "replaced", "timeout"}
  PROVE  LinksPair /\ (FramesFall(link[k], m) => LinksFall)
<1>1. PairMove(link[k], m)
  BY DEF PairMove
<1> QED
  BY <1>1, OnePairs

\* A step that leaves the links alone.
LEMMA NoneChanges ==
  ASSUME UNCHANGED link
  PROVE  LinksPair /\ LinksFall
BY DEF LinksPair, LinksFall, PairMove, FramesFall

\* The handshake: only a refusal and a claimed code say something new.
LEMMA HandshakePairs ==
  ASSUME BridgeTypes, LinkSound, NEW k \in Links,
         Authenticates(k) \/ Refuses(k) \/ HandshakeFails(k) \/ Welcomes(k) \/ Registers(k)
  PROVE  LinksPair /\ LinksFall
<1>0. LinkTypes /\ SessionTypes /\ StoreTypes
  BY DEF BridgeTypes
<1>1. link[k] \in LinkRecords
  BY <1>0 DEF LinkTypes
<1>2. CASE Authenticates(k)
  <2> DEFINE m == [link[k] EXCEPT !.stage = "authed"]
  <2>1. /\ m \in LinkRecords /\ m.stage = "authed" /\ m.cred = link[k].cred
        /\ m.welcome = link[k].welcome /\ m.code = link[k].code
        /\ FramesFall(link[k], m) /\ link' = [link EXCEPT ![k] = m]
    BY <1>0, <1>1, <1>2 DEF Authenticates, LinkRecords, FramesFall, LinkStages, LinkTypes
  <2>2. link[k].stage = "hello" /\ DeviceOf(k) \in Codes /\ link[k].cred[1] \in {"code", "secret"}
    BY <1>2, CredParts DEF Authenticates, LinkSound, DeviceOf
  <2>3. device'[link[k].cred[2]] # "none"
    BY <1>0, <1>2, <2>2 DEF Authenticates, CredGood, DeviceOf, StoreTypes, storeVars
  <2> HIDE DEF m
  <2>4. PairMove(link[k], m)
    BY <2>1, <2>2, <2>3 DEF PairMove
  <2> QED
    BY <1>0, <2>1, <2>4, OnePairs
<1>3. CASE Refuses(k)
  <2> DEFINE l == Shut(link[k], "auth")
             m == [l EXCEPT !.stage = "drained"]
  <2>1. /\ l \in LinkRecords /\ l.cred = link[k].cred /\ l.welcome = link[k].welcome
        /\ l.code \in {link[k].code, "auth"}
        /\ l.toExt = link[k].toExt /\ l.toServer = link[k].toServer
    BY <1>1, ShutFacts DEF CloseCodes, LinkRecords
  <2>2. link' = [link EXCEPT ![k] = m] /\ link[k].stage = "hello" /\ ~CredGood(link[k].cred)
    BY <1>3 DEF Refuses
  <2> HIDE DEF l
  <2>3. /\ m \in LinkRecords /\ m.stage = "drained" /\ m.cred = l.cred
        /\ m.welcome = l.welcome /\ m.code = l.code
        /\ m.toExt = l.toExt /\ m.toServer = l.toServer
    BY <2>1 DEF LinkRecords, LinkStages
  <2> HIDE DEF m
  <2>4. PairMove(link[k], m) /\ FramesFall(link[k], m)
    BY <2>1, <2>2, <2>3 DEF PairMove, FramesFall
  <2> QED
    BY <1>0, <2>2, <2>3, <2>4, OnePairs
<1>4. CASE HandshakeFails(k)
  <2> DEFINE m == [link[k] EXCEPT !.stage = "drained", !.srvOpen = FALSE]
  <2>1. link' = [link EXCEPT ![k] = m] /\ link[k].stage \in {"hello", "authed"}
    BY <1>0, <1>4 DEF HandshakeFails, LinkTypes
  <2>2. /\ m \in LinkRecords /\ m.stage = "drained" /\ m.cred = link[k].cred
        /\ m.welcome = link[k].welcome /\ m.code = link[k].code /\ FramesFall(link[k], m)
    BY <1>1 DEF LinkRecords, LinkStages, FramesFall
  <2> HIDE DEF m
  <2> QED
    BY <1>0, <2>1, <2>2, OneStaysPaired
<1>5. CASE Welcomes(k)
  <2> DEFINE m == [link[k] EXCEPT !.stage = "welcomed", !.welcome = TRUE]
  <2>1. link' = [link EXCEPT ![k] = m] /\ link[k].stage = "authed"
    BY <1>0, <1>5 DEF Welcomes, LinkTypes
  <2>2. /\ m \in LinkRecords /\ m.stage = "welcomed" /\ m.cred = link[k].cred
        /\ m.code = link[k].code /\ FramesFall(link[k], m)
    BY <1>1 DEF LinkRecords, LinkStages, FramesFall
  <2> HIDE DEF m
  <2>3. PairMove(link[k], m)
    BY <2>1, <2>2 DEF PairMove
  <2> QED
    BY <1>0, <2>1, <2>2, <2>3, OnePairs
<1>6. CASE Registers(k)
  <2> DEFINE s == sessionOf[DeviceOf(k)]
             m == [link[k] EXCEPT !.stage = "replacing", !.old = s]
  <2>1. link' = [link EXCEPT ![k] = m] /\ link[k].stage = "welcomed"
    BY <1>0, <1>6 DEF Registers, LinkTypes
  <2>2. DeviceOf(k) \in Codes
    BY <2>1, CredParts DEF LinkSound, DeviceOf
  <2>3. s \in Links \cup {NoLink}
    BY <1>0, <2>2 DEF SessionTypes
  <2> HIDE DEF s
  <2>4. /\ m \in LinkRecords /\ m.stage = "replacing" /\ m.cred = link[k].cred
        /\ m.welcome = link[k].welcome /\ m.code = link[k].code /\ FramesFall(link[k], m)
    BY <1>1, <2>3 DEF LinkRecords, LinkStages, FramesFall
  <2> HIDE DEF m
  <2> QED
    BY <1>0, <2>1, <2>4, OneStaysPaired
<1> QED
  BY <1>2, <1>3, <1>4, <1>5, <1>6

\* A session that ends is closed for a reason that costs no pairing.
LEMMA SessionPairs ==
  ASSUME BridgeTypes, NEW k \in Links,
         \/ ReadFails(k) \/ Silence(k) \/ Unregisters(k) \/ Drains(k)
         \/ \E a \in Attempts : ReadsAnswer(k, a)
  PROVE  LinksPair /\ LinksFall
<1>0. LinkTypes
  BY DEF BridgeTypes
<1>1. link[k] \in LinkRecords
  BY <1>0 DEF LinkTypes
<1>2. CASE ReadFails(k) \/ Silence(k)
  <2> DEFINE l == Shut(link[k], "timeout")
             n == [l EXCEPT !.stage = "ended", !.closeErr = TRUE]
             o == [l EXCEPT !.stage = "ended"]
  <2>1. /\ l \in LinkRecords /\ l.cred = link[k].cred /\ l.welcome = link[k].welcome
        /\ l.code \in {link[k].code, "timeout"}
        /\ l.toExt = link[k].toExt /\ l.toServer = link[k].toServer
    BY <1>1, ShutFacts DEF CloseCodes, LinkRecords
  <2>2. /\ link' = [link EXCEPT ![k] = n] \/ link' = [link EXCEPT ![k] = o]
        /\ link[k].stage = "running"
    BY <1>2 DEF ReadFails, Silence
  <2> HIDE DEF l
  <2>3. /\ n \in LinkRecords /\ n.stage = "ended" /\ n.cred = l.cred /\ n.welcome = l.welcome
        /\ n.code = l.code /\ n.toExt = l.toExt /\ n.toServer = l.toServer
    BY <2>1 DEF LinkRecords, LinkStages
  <2>4. /\ o \in LinkRecords /\ o.stage = "ended" /\ o.cred = l.cred /\ o.welcome = l.welcome
        /\ o.code = l.code /\ o.toExt = l.toExt /\ o.toServer = l.toServer
    BY <2>1 DEF LinkRecords, LinkStages
  <2> HIDE DEF n, o
  <2>5. PICK m \in {n, o} : link' = [link EXCEPT ![k] = m]
    BY <2>2
  <2>6. /\ m \in LinkRecords /\ m.stage = "ended" /\ m.cred = l.cred /\ m.welcome = l.welcome
        /\ m.code = l.code /\ FramesFall(link[k], m)
    BY <2>1, <2>3, <2>4, <2>5 DEF FramesFall
  <2> QED
    BY <1>0, <2>1, <2>2, <2>5, <2>6, OneStaysPaired
<1>4. CASE Unregisters(k)
  <2> DEFINE m == [link[k] EXCEPT !.stage = "unregistered"]
  <2>1. /\ m \in LinkRecords /\ m.stage = "unregistered" /\ m.cred = link[k].cred
        /\ m.welcome = link[k].welcome /\ m.code = link[k].code /\ FramesFall(link[k], m)
    BY <1>1 DEF LinkRecords, FramesFall, LinkStages
  <2>2. link' = [link EXCEPT ![k] = m] /\ link[k].stage = "ended"
    BY <1>0, <1>4 DEF Unregisters, LinkTypes
  <2> HIDE DEF m
  <2> QED
    BY <1>0, <2>1, <2>2, OneStaysPaired
<1>5. CASE Drains(k)
  <2> DEFINE m == [link[k] EXCEPT !.stage = "drained", !.pending = {}]
  <2>1. /\ m \in LinkRecords /\ m.stage = "drained" /\ m.cred = link[k].cred
        /\ m.welcome = link[k].welcome /\ m.code = link[k].code /\ FramesFall(link[k], m)
    BY <1>1 DEF LinkRecords, FramesFall, LinkStages
  <2>2. link' = [link EXCEPT ![k] = m] /\ link[k].stage = "unregistered"
    BY <1>0, <1>5 DEF Drains, LinkTypes
  <2> HIDE DEF m
  <2> QED
    BY <1>0, <2>1, <2>2, OneStaysPaired
<1>6. ASSUME NEW a \in Attempts, ReadsAnswer(k, a) PROVE LinksPair /\ LinksFall
  <2> DEFINE m == [link[k] EXCEPT !.toServer = @ \ {a}, !.pending = @ \ {a}]
  <2>1. /\ m \in LinkRecords /\ m.stage = link[k].stage /\ m.cred = link[k].cred
        /\ m.welcome = link[k].welcome /\ m.code = link[k].code /\ FramesFall(link[k], m)
    BY <1>1 DEF LinkRecords, FramesFall
  <2>2. link' = [link EXCEPT ![k] = m] /\ link[k].stage = "running"
    BY <1>0, <1>6 DEF ReadsAnswer, LinkTypes
  <2> HIDE DEF m
  <2> QED
    BY <1>0, <2>1, <2>2, OneStaysPaired
<1> QED
  BY <1>2, <1>4, <1>5, <1>6

\* The older session of a device is shut as replaced, never as revoked.
LEMMA ShutsOldPairs ==
  ASSUME BridgeTypes, PairInv, NEW k \in Links, ShutsOld(k)
  PROVE  LinksPair /\ LinksFall
<1>0. LinkTypes
  BY DEF BridgeTypes
<1>1. /\ link[k].stage = "replacing"
      /\ link' = [m \in Links |->
                    IF m = k THEN [link[k] EXCEPT !.stage = "running", !.old = NoLink]
                    ELSE IF m = link[k].old THEN Shut(link[m], "replaced") ELSE link[m]]
  BY DEF ShutsOld
<1>2. ASSUME NEW j \in Links PROVE PairMove(link[j], link'[j]) /\ FramesFall(link[j], link'[j])
  <2>0. link[j] \in LinkRecords
    BY <1>0 DEF LinkTypes
  <2>1. CASE j = k
    <3>1. link'[j] = [link[j] EXCEPT !.stage = "running", !.old = NoLink]
      BY <1>1, <2>1
    <3>2. /\ link[j].stage = "replacing" /\ link'[j].stage = "running"
          /\ link'[j].cred = link[j].cred /\ link'[j].welcome = link[j].welcome
          /\ link'[j].code = link[j].code /\ FramesFall(link[j], link'[j])
      BY <1>1, <2>0, <2>1, <3>1 DEF LinkRecords, FramesFall
    <3> QED
      BY <3>2 DEF PairMove
  <2>2. CASE j # k /\ j = link[k].old
    <3>1. link'[j] = Shut(link[j], "replaced")
      BY <1>1, <2>2
    <3>2. /\ link'[j].stage = link[j].stage /\ link'[j].cred = link[j].cred
          /\ link'[j].welcome = link[j].welcome /\ link'[j].code \in {link[j].code, "replaced"}
          /\ link'[j].toExt = link[j].toExt /\ link'[j].toServer = link[j].toServer
      BY <2>0, <3>1, ShutFacts DEF CloseCodes, LinkRecords
    <3>3. link[j].stage = "unused" => link'[j] = link[j]
      BY <2>0, <3>1, ShutFacts DEF CloseCodes, PairInv, PairedTo
    <3> QED
      BY <3>2, <3>3 DEF PairMove, FramesFall
  <2>3. CASE link'[j] = link[j]
    BY <2>3 DEF PairMove, FramesFall
  <2> QED
    BY <1>1, <2>1, <2>2, <2>3
<1> QED
  BY <1>2 DEF LinksPair, LinksFall

\* Calls touch a link only to send, and to shut one they cannot send on.
LEMMA CallPairs ==
  ASSUME BridgeTypes, CallsServed, NEW c \in BridgeCalls,
         Adds(c) \/ SendsRequest(c) \/ SendFails(c) \/ GivesUp(c)
  PROVE  LinksPair /\ (~SendsRequest(c) => LinksFall)
<1>0. LinkTypes /\ CallTypes
  BY DEF BridgeTypes
<1> DEFINE k == call[c].on
           a == <<c, call[c].try>>
<1>1. call[c].pc \in {"picked", "added", "waiting"}
  BY DEF Adds, SendsRequest, SendFails, GivesUp
<1>2. k \in Links /\ a \in Attempts /\ link[k].stage # "unused"
  BY <1>0, <1>1 DEF CallsServed, CallTypes, BridgeCallRecords, Attempts, Served
<1>3. link[k] \in LinkRecords
  BY <1>0, <1>2 DEF LinkTypes
<1>4. \/ UNCHANGED link
      \/ link' = [link EXCEPT ![k].pending = @ \cup {a}]
      \/ link' = [link EXCEPT ![k].toExt = @ \cup {a}] /\ SendsRequest(c)
      \/ link' = [link EXCEPT ![k] = [Shut(link[k], "timeout") EXCEPT !.pending = @ \ {a}]]
      \/ link' = [link EXCEPT ![k].pending = @ \ {a}]
  BY DEF Adds, SendsRequest, SendFails, GivesUp
<1> HIDE DEF k, a
<1>5. CASE UNCHANGED link
  BY <1>5, NoneChanges
<1>6. CASE link' = [link EXCEPT ![k].pending = @ \cup {a}]
  <2> DEFINE m == [link[k] EXCEPT !.pending = @ \cup {a}]
  <2>1. /\ m \in LinkRecords /\ link' = [link EXCEPT ![k] = m] /\ m.stage = link[k].stage
        /\ m.cred = link[k].cred /\ m.welcome = link[k].welcome /\ m.code = link[k].code
        /\ FramesFall(link[k], m)
    BY <1>0, <1>2, <1>3, <1>6 DEF LinkRecords, FramesFall, LinkTypes
  <2> HIDE DEF m
  <2> QED
    BY <1>0, <1>2, <2>1, OneStaysPaired
<1>7. CASE link' = [link EXCEPT ![k].toExt = @ \cup {a}] /\ SendsRequest(c)
  <2> DEFINE m == [link[k] EXCEPT !.toExt = @ \cup {a}]
  <2>1. /\ m \in LinkRecords /\ link' = [link EXCEPT ![k] = m] /\ m.stage = link[k].stage
        /\ m.cred = link[k].cred /\ m.welcome = link[k].welcome /\ m.code = link[k].code
    BY <1>0, <1>2, <1>3, <1>7 DEF LinkRecords, LinkTypes
  <2> HIDE DEF m
  <2> QED
    BY <1>0, <1>2, <1>7, <2>1, OneStaysPaired
<1>8. CASE link' = [link EXCEPT ![k] = [Shut(link[k], "timeout") EXCEPT !.pending = @ \ {a}]]
  <2> DEFINE l == Shut(link[k], "timeout")
             m == [l EXCEPT !.pending = @ \ {a}]
  <2>1. /\ l \in LinkRecords /\ l.stage = link[k].stage /\ l.cred = link[k].cred
        /\ l.welcome = link[k].welcome /\ l.code \in {link[k].code, "timeout"}
        /\ l.toExt = link[k].toExt /\ l.toServer = link[k].toServer
    BY <1>3, ShutFacts DEF CloseCodes, LinkRecords
  <2>2. link' = [link EXCEPT ![k] = m]
    BY <1>8
  <2> HIDE DEF l
  <2>3. /\ m \in LinkRecords /\ m.stage = l.stage /\ m.cred = l.cred
        /\ m.welcome = l.welcome /\ m.code = l.code
        /\ m.toExt = l.toExt /\ m.toServer = l.toServer
    BY <2>1 DEF LinkRecords
  <2> HIDE DEF m
  <2>4. FramesFall(link[k], m)
    BY <2>1, <2>3 DEF FramesFall
  <2> QED
    BY <1>0, <1>2, <2>1, <2>2, <2>3, <2>4, OneStaysPaired
<1>9. CASE link' = [link EXCEPT ![k].pending = @ \ {a}]
  <2> DEFINE m == [link[k] EXCEPT !.pending = @ \ {a}]
  <2>1. /\ m \in LinkRecords /\ link' = [link EXCEPT ![k] = m] /\ m.stage = link[k].stage
        /\ m.cred = link[k].cred /\ m.welcome = link[k].welcome /\ m.code = link[k].code
        /\ FramesFall(link[k], m)
    BY <1>0, <1>2, <1>3, <1>9 DEF LinkRecords, FramesFall, LinkTypes
  <2> HIDE DEF m
  <2> QED
    BY <1>0, <1>2, <2>1, OneStaysPaired
<1> QED
  BY <1>4, <1>5, <1>6, <1>7, <1>8, <1>9

\* The session a revocation shuts is one of the revoked device.
LEMMA RevokePairs ==
  ASSUME BridgeTypes, SessionSound, PairInv, NEW d \in Codes, RevokeShuts(d)
  PROVE  LinksPair /\ LinksFall
<1>0. LinkTypes /\ SessionTypes
  BY DEF BridgeTypes
<1>1. CASE UNCHANGED link
  BY <1>1, NoneChanges
<1>2. CASE ~UNCHANGED link
  <2> DEFINE k == sessionOf[d]
             m == Shut(link[k], "revoked")
  <2>1. k \in Links /\ k # NoLink /\ link' = [link EXCEPT ![k] = m]
    BY <1>0, <1>2 DEF RevokeShuts, SessionTypes
  <2>2. link[k] \in LinkRecords
    BY <1>0, <2>1 DEF LinkTypes
  <2>3. link[k].stage # "unused" /\ link[k].cred[2] = d /\ device[d] = "revoked"
    BY <2>1 DEF SessionSound, Registered, DeviceOf, PairInv, RevokeShuts
  <2>4. /\ m \in LinkRecords /\ m.stage = link[k].stage /\ m.cred = link[k].cred
        /\ m.welcome = link[k].welcome /\ m.code \in {link[k].code, "revoked"}
        /\ m.toExt = link[k].toExt /\ m.toServer = link[k].toServer
    BY <2>2, ShutFacts DEF CloseCodes, LinkRecords
  <2> HIDE DEF k, m
  <2>5. PairMove(link[k], m) /\ FramesFall(link[k], m)
    BY <2>3, <2>4 DEF PairMove, FramesFall
  <2> QED
    BY <1>0, <2>1, <2>4, <2>5, OnePairs
<1> QED
  BY <1>1, <1>2

\* The extension's own steps; ws names a socket that was dialled.
WsUsed == ws # NoLink => link[ws].stage # "unused"
DoingUsed == \A e \in doing : link[e[1]].stage # "unused"

\* The extension dials with settings it has read, and closes what it dialled.
LEMMA ExtensionPairs ==
  ASSUME BridgeTypes, WsUsed, DoingUsed,
         \/ NoticesChange
         \/ \E cred \in loads : \E k \in Links : Dials(cred, k)
         \/ \E k \in Links : \/ TakesWelcome(k) \/ SeesClose(k) \/ ConnectionLost(k)
                             \/ \E a \in Attempts : Executes(k, a) \/ Answers(k, a)
  PROVE  /\ LinksPair
         /\ LinksFall \/ \E k \in Links : \E a \in Attempts : Answers(k, a)
<1>0. LinkTypes /\ ExtensionTypes
  BY DEF BridgeTypes
<1>1. ASSUME NEW k \in Links, link' = [link EXCEPT ![k].extOpen = FALSE],
             link[k].stage # "unused"
      PROVE  LinksPair /\ LinksFall
  <2> DEFINE m == [link[k] EXCEPT !.extOpen = FALSE]
  <2>1. /\ m \in LinkRecords /\ link' = [link EXCEPT ![k] = m] /\ m.stage = link[k].stage
        /\ m.cred = link[k].cred /\ m.welcome = link[k].welcome /\ m.code = link[k].code
        /\ FramesFall(link[k], m)
    BY <1>0, <1>1 DEF LinkRecords, FramesFall, LinkTypes
  <2> HIDE DEF m
  <2> QED
    BY <1>0, <1>1, <2>1, OneStaysPaired
<1>2. CASE NoticesChange
  <2>1. \/ UNCHANGED link
        \/ /\ ws \in Links /\ ws # NoLink
           /\ link' = [link EXCEPT ![ws].extOpen = FALSE]
    BY <1>0, <1>2 DEF NoticesChange, ExtensionTypes
  <2> QED
    BY <1>1, <2>1, NoneChanges DEF WsUsed
<1>3. ASSUME NEW cred \in loads, NEW k \in Links, Dials(cred, k) PROVE LinksPair /\ LinksFall
  <2> DEFINE m == [link[k] EXCEPT !.stage = "hello", !.cred = cred, !.srvOpen = TRUE,
                                  !.extOpen = TRUE]
  <2>1. cred \in Creds
    BY <1>0 DEF ExtensionTypes
  <2>2. link[k] \in LinkRecords /\ link[k].stage = "unused"
    BY <1>0, <1>3 DEF LinkTypes, Dials
  <2>3. /\ m \in LinkRecords /\ m.stage = "hello" /\ m.cred = cred
        /\ m.welcome = link[k].welcome /\ m.code = link[k].code
        /\ FramesFall(link[k], m)
    BY <2>1, <2>2 DEF LinkRecords, FramesFall, LinkStages
  <2>4. link' = [link EXCEPT ![k] = m]
    BY <1>0, <1>3 DEF Dials, LinkTypes
  <2> HIDE DEF m
  <2>5. PairMove(link[k], m)
    BY <2>2, <2>3 DEF PairMove
  <2> QED
    BY <1>0, <2>3, <2>4, <2>5, OnePairs
<1>4. ASSUME NEW k \in Links, TakesWelcome(k) PROVE LinksPair /\ LinksFall
  <2> DEFINE m == [link[k] EXCEPT !.welcome = FALSE]
  <2>1. /\ m \in LinkRecords /\ link' = [link EXCEPT ![k] = m] /\ m.stage = link[k].stage
        /\ m.cred = link[k].cred /\ ~m.welcome /\ m.code = link[k].code
        /\ FramesFall(link[k], m)
    BY <1>0, <1>4 DEF LinkRecords, FramesFall, LinkTypes, TakesWelcome
  <2>2. link[k].stage # "unused"
    BY <1>4, LinksAre DEF TakesWelcome, WsUsed
  <2> HIDE DEF m
  <2> QED
    BY <1>0, <2>1, <2>2, OneStaysPaired
<1>5. ASSUME NEW k \in Links, NEW a \in Attempts, Executes(k, a) PROVE LinksPair /\ LinksFall
  <2> DEFINE m == [link[k] EXCEPT !.toExt = @ \ {a}]
  <2>1. /\ m \in LinkRecords /\ link' = [link EXCEPT ![k] = m] /\ m.stage = link[k].stage
        /\ m.cred = link[k].cred /\ m.welcome = link[k].welcome /\ m.code = link[k].code
        /\ FramesFall(link[k], m)
    BY <1>0, <1>5 DEF LinkRecords, FramesFall, LinkTypes, Executes
  <2>2. link[k].stage # "unused"
    BY <1>5, LinksAre DEF Executes, WsUsed
  <2> HIDE DEF m
  <2> QED
    BY <1>0, <2>1, <2>2, OneStaysPaired
<1>6. ASSUME NEW k \in Links, NEW a \in Attempts, Answers(k, a) PROVE LinksPair
  <2>1. CASE UNCHANGED link
    BY <2>1, NoneChanges
  <2>2. CASE ~UNCHANGED link
    <3> DEFINE m == [link[k] EXCEPT !.toServer = @ \cup {a}]
    <3>1. /\ m \in LinkRecords /\ link' = [link EXCEPT ![k] = m] /\ m.stage = link[k].stage
          /\ m.cred = link[k].cred /\ m.welcome = link[k].welcome /\ m.code = link[k].code
      BY <1>0, <1>6, <2>2 DEF LinkRecords, LinkTypes, Answers
    <3>2. link[k].stage # "unused"
      BY <1>6 DEF Answers, DoingUsed
    <3> HIDE DEF m
    <3> QED
      BY <1>0, <3>1, <3>2, OneStaysPaired
  <2> QED
    BY <2>1, <2>2
<1>7. ASSUME NEW k \in Links, SeesClose(k) \/ ConnectionLost(k) PROVE LinksPair /\ LinksFall
  BY <1>1, <1>7, LinksAre DEF SeesClose, ConnectionLost, WsUsed
<1> QED
  BY <1>2, <1>3, <1>4, <1>5, <1>6, <1>7

\* Two steps put a frame on a socket, and none says of a device what is not so.
LEMMA LinksDoPair ==
  ASSUME BridgeTypes, LinkSound, CallsServed, SessionSound, PairInv, WsUsed, DoingUsed,
         [BridgeNext]_bridgeVars
  PROVE  /\ LinksPair
         /\ \/ LinksFall
            \/ \E c \in BridgeCalls : SendsRequest(c)
            \/ \E k \in Links : \E a \in Attempts : Answers(k, a)
<1>2. CASE UNCHANGED link
  BY <1>2, NoneChanges
<1>3. CASE ~UNCHANGED link
  <2>1. BridgeNext
    BY <1>3 DEF bridgeVars
  <2> QED
    BY <1>3, <2>1, LinksRest, HandshakePairs, SessionPairs, ShutsOldPairs, CallPairs, RevokePairs,
       ExtensionPairs DEF BridgeNext, BridgeServer, CallSteps, Extension
<1> QED
  BY <1>2, <1>3

\* The socket of the service worker, and those it answers on, were dialled.
LEMMA UsedStays ==
  ASSUME LinksPair, WsUsed, DoingUsed, BridgeTypes, [BridgeNext]_bridgeVars
  PROVE  WsUsed' /\ DoingUsed'
<1>1. \A k \in Links : link[k].stage # "unused" => link'[k].stage # "unused"
  BY DEF LinksPair, PairMove
<1>2. /\ ws \in Links \cup {NoLink}
      /\ \A e \in doing : e[1] \in Links
  BY DEF BridgeTypes, ExtensionTypes
<1>3. CASE UNCHANGED <<ws, doing>>
  BY <1>1, <1>2, <1>3 DEF WsUsed, DoingUsed
<1>4. ASSUME NEW cred \in loads, NEW k \in Links, Dials(cred, k) PROVE WsUsed' /\ DoingUsed'
  <2>1. ws' = k /\ UNCHANGED doing /\ link'[k].stage = "hello"
    <3>1. link \in [Links -> LinkRecords]
      BY DEF BridgeTypes, LinkTypes
    <3> DEFINE m == [link[k] EXCEPT !.stage = "hello", !.cred = cred, !.srvOpen = TRUE,
                                    !.extOpen = TRUE]
    <3>2. link' = [link EXCEPT ![k] = m] /\ ws' = k /\ UNCHANGED doing
      BY <1>4, <3>1 DEF Dials
    <3>3. m.stage = "hello"
      BY <3>1 DEF LinkRecords
    <3> HIDE DEF m
    <3> QED
      BY <3>1, <3>2, <3>3
  <2> QED
    BY <1>1, <1>2, <2>1 DEF WsUsed, DoingUsed
<1>5. ASSUME NEW k \in Links, NEW a \in Attempts, Executes(k, a) PROVE WsUsed' /\ DoingUsed'
  <2>1. ws = k /\ UNCHANGED ws /\ doing' = doing \cup {<<k, a>>}
    BY <1>5 DEF Executes, extVars
  <2>2. link[k].stage # "unused"
    BY <2>1, LinksAre DEF WsUsed
  <2> QED
    BY <1>1, <1>2, <2>1, <2>2 DEF WsUsed, DoingUsed
<1>6. ASSUME ws' = ws \/ ws' = NoLink, doing' \subseteq doing PROVE WsUsed' /\ DoingUsed'
  BY <1>1, <1>2, <1>6 DEF WsUsed, DoingUsed
<1>7. ASSUME NEW c \in Codes, Pastes(c) PROVE UNCHANGED <<ws, doing>>
  BY <1>7 DEF Pastes
<1>8. ASSUME \/ OpensSocket \/ NoticesChange \/ \E cred \in loads : DialDropped(cred)
             \/ \E k \in Links : \/ TakesWelcome(k) \/ SeesClose(k) \/ ConnectionLost(k)
                                 \/ \E a \in Attempts : Answers(k, a)
      PROVE  (ws' = ws \/ ws' = NoLink) /\ doing' \subseteq doing
  BY <1>8 DEF OpensSocket, NoticesChange, DialDropped, TakesWelcome, SeesClose, ConnectionLost,
         Answers, extVars
<1> QED
  BY <1>3, <1>4, <1>5, <1>6, <1>7, <1>8, ExtensionFrame DEF Extension

\* The settings of the extension name devices that were made.
LEMMA SettingsKept ==
  ASSUME BridgeTypes, PairInv, DevicesSettle, [BridgeNext]_bridgeVars
  PROVE  /\ storage'.secret # NoCode => device'[storage'.secret] # "none"
         /\ \A d \in Codes : <<"secret", d>> \in loads' => device'[d] # "none"
<1> DEFINE Secret(s, dev) == s # NoCode => dev[s] # "none"
           Loads(L, dev) == \A d \in Codes : <<"secret", d>> \in L => dev[d] # "none"
<1> SUFFICES Secret(storage'.secret, device') /\ Loads(loads', device')
  OBVIOUS
<1>0. /\ storage \in [code : Codes \cup {NoCode}, secret : Codes \cup {NoCode}]
      /\ Secret(storage.secret, device) /\ Loads(loads, device)
  BY DEF BridgeTypes, ExtensionTypes, PairInv
<1>1. Secret(storage.secret, device') /\ Loads(loads, device')
  BY <1>0 DEF DevicesSettle
<1>2. Loads(StoredCred, device')
  BY <1>1 DEF StoredCred
<1>3. ASSUME UNCHANGED storage, loads' \subseteq loads
      PROVE  Secret(storage'.secret, device') /\ Loads(loads', device')
  BY <1>1, <1>3
<1>4. ASSUME NEW c \in Codes, Pastes(c)
      PROVE  Secret(storage'.secret, device') /\ Loads(loads', device')
  BY <1>1, <1>4 DEF Pastes
<1>5. CASE OpensSocket \/ NoticesChange
  <2>1. UNCHANGED storage /\ loads' = loads \cup StoredCred
    BY <1>5 DEF OpensSocket, NoticesChange
  <2> QED
    BY <1>1, <1>2, <2>1
<1>6. ASSUME NEW k \in Links, TakesWelcome(k)
      PROVE  Secret(storage'.secret, device') /\ Loads(loads', device')
  <2>1. UNCHANGED loads /\ link[k].welcome
        /\ storage'.secret = IF link[k].cred[1] = "code" THEN DeviceOf(k) ELSE storage.secret
    BY <1>6 DEF TakesWelcome
  <2>2. link[k].cred[1] = "code" => device'[DeviceOf(k)] # "none"
    <3> SUFFICES ASSUME link[k].cred[1] = "code" PROVE device'[DeviceOf(k)] # "none"
      OBVIOUS
    <3>1. link[k].cred \in Creds \cup {<<"none", NoCode>>}
      BY DEF BridgeTypes, LinkTypes, LinkRecords
    <3>2. DeviceOf(k) \in Codes
      BY <3>1, CredParts DEF DeviceOf
    <3>3. device[DeviceOf(k)] # "none"
      BY <2>1 DEF PairInv, PairedTo, DeviceOf
    <3> QED
      BY <3>2, <3>3 DEF DevicesSettle
  <2> QED
    BY <1>1, <2>1, <2>2
<1>7. ASSUME NEW k \in Links, SeesClose(k)
      PROVE  Secret(storage'.secret, device') /\ Loads(loads', device')
  <2>1. UNCHANGED loads /\ (storage'.secret = storage.secret \/ storage'.secret = NoCode)
    BY <1>0, <1>7 DEF SeesClose, Forgotten
  <2> QED
    BY <1>1, <2>1
<1>8. ASSUME \/ \E cred \in loads : DialDropped(cred) \/ \E k \in Links : Dials(cred, k)
             \/ \E k \in Links : \/ ConnectionLost(k)
                                 \/ \E a \in Attempts : Executes(k, a) \/ Answers(k, a)
      PROVE  UNCHANGED storage /\ loads' \subseteq loads
  BY <1>8 DEF DialDropped, Dials, ConnectionLost, Executes, Answers, extVars
<1> HIDE DEF Secret, Loads
<1> QED
  BY <1>3, <1>4, <1>5, <1>6, <1>7, <1>8, ExtensionFrame DEF Extension

\* So the pairing is sound after every step.
LEMMA PairInvKept ==
  ASSUME BridgeTypes, LinkSound, LinksPair, PairInv, [BridgeNext]_bridgeVars
  PROVE  PairInv'
<1>1. /\ DevicesSettle
      /\ \A d \in Codes : pairCode'[d] \in {"unmade", "fresh"} => device'[d] = "none"
      /\ \A d \in revoking' : device'[d] = "revoked"
  BY DevicesDoSettle
<1>2. \A k \in Links : PairedTo(device', link'[k])
  BY <1>1, PairedKept
<1>3. /\ storage'.secret # NoCode => device'[storage'.secret] # "none"
      /\ \A d \in Codes : <<"secret", d>> \in loads' => device'[d] # "none"
  BY <1>1, SettingsKept
<1> QED
  BY <1>1, <1>2, <1>3 DEF PairInv

\* What makes the extension forget its secret.
LEMMA PairingKept ==
  ASSUME BridgeTypes, LinkSound, PairInv, WsUsed, [BridgeNext]_bridgeVars
  PROVE  KeepsPairing
<1> SUFFICES ASSUME NEW d \in Codes, storage.secret = d, storage'.secret # d
             PROVE  \/ device[d] = "revoked" \/ storage'.code # NoCode
                    \/ ws # NoLink /\ DeviceOf(ws) # d
  BY DEF KeepsPairing
<1>0. storage \in [code : Codes \cup {NoCode}, secret : Codes \cup {NoCode}]
  BY DEF BridgeTypes, ExtensionTypes
<1>1. ASSUME NEW c \in Codes, Pastes(c) PROVE storage'.code # NoCode
  BY <1>1, BridgeAssumption DEF Pastes
<1>2. ASSUME NEW k \in Links, TakesWelcome(k) PROVE ws # NoLink /\ DeviceOf(ws) # d
  BY <1>2, LinksAre DEF TakesWelcome
<1>3. ASSUME NEW k \in Links, SeesClose(k)
      PROVE  device[d] = "revoked" \/ (ws # NoLink /\ DeviceOf(ws) # d)
  <2>1. ws = k /\ ws # NoLink
    BY <1>3, LinksAre DEF SeesClose
  <2>2. link[k].code = "revoked" \/ (link[k].code = "auth" /\ link[k].cred[1] = "secret")
    BY <1>0, <1>3 DEF SeesClose, Forgotten
  <2>3. device[DeviceOf(k)] = "revoked"
    BY <2>2 DEF PairInv, PairedTo, DeviceOf
  <2> QED
    BY <2>1, <2>3
<1>4. ASSUME \/ OpensSocket \/ NoticesChange
             \/ \E cred \in loads : DialDropped(cred) \/ \E k \in Links : Dials(cred, k)
             \/ \E k \in Links : \/ ConnectionLost(k)
                                 \/ \E a \in Attempts : Executes(k, a) \/ Answers(k, a)
      PROVE  UNCHANGED storage
  BY <1>4 DEF OpensSocket, NoticesChange, DialDropped, Dials, ConnectionLost, Executes, Answers,
         extVars
<1> QED
  BY <1>1, <1>2, <1>3, <1>4, ExtensionFrame DEF Extension

-----------------------------------------------------------------------------
\* What lands of a call.  An attempt is on its way to the browser while a socket
\* carries its request, and at most one does.
Sent(c, n) == \E k \in Links : <<c, n>> \in link[k].toExt
OneIf(b) == IF b THEN 1 ELSE 0

\* How many requests a call may have written by now, and when it tries again.
Wrote(r) ==
  IF r.pc = "idle" THEN 0 ELSE IF r.pc \in {"picked", "added"} THEN r.try - 1 ELSE r.try
Unsent(r) == r.pc \in {"idle", "picked", "added"}
TriesAgain(r) ==
  /\ r.pc = "idle" => r.try = 1
  /\ r.pc \in {"rejoin", "judging", "blocked"} => r.idempotent /\ r.try = 1
  /\ ~r.idempotent => r.try = 1

Carries == \A k, m \in Links : \A a \in Attempts :
             a \in link[k].toExt /\ a \in link[m].toExt => k = m
AnswersEarned ==
  /\ \A k \in Links : \A a \in link[k].toServer : executed[a[1]] >= 1
  /\ \A e \in doing : executed[e[2][1]] >= 1
CallCounts(c) ==
  /\ TriesAgain(call[c])
  /\ executed[c] + OneIf(Sent(c, 1)) + OneIf(Sent(c, 2)) <= Wrote(call[c])
  /\ \A n \in {1, 2} : Sent(c, n) => n <= call[c].try /\ ~(n = call[c].try /\ Unsent(call[c]))
  /\ call[c].outcome = "ok" \/ call[c].chan = "answer" => executed[c] >= 1

ClickInv == Carries /\ AnswersEarned /\ \A c \in BridgeCalls : CallCounts(c)

\* How one step may change a call.
CallGoes(c, o, n) ==
  /\ TriesAgain(n)
  /\ o.try <= n.try /\ Wrote(o) <= Wrote(n)
  /\ Unsent(n) => n.try > o.try \/ (n.try = o.try /\ Unsent(o))
  /\ n.outcome = "ok" => o.outcome = "ok" \/ o.chan = "answer"
  /\ n.chan = "answer" => o.chan = "answer" \/ executed[c] >= 1

\* A call that stays as it is.
LEMMA StaysCalled ==
  ASSUME NEW c, NEW o \in BridgeCallRecords, TriesAgain(o)
  PROVE  CallGoes(c, o, o)
<1>1. o.try \in 1 .. 2 /\ Wrote(o) \in Int
  BY DEF BridgeCallRecords, Wrote
<1> QED
  BY <1>1 DEF CallGoes

\* A step of one call.
LEMMA OneCallGoes ==
  ASSUME CallTypes, ClickInv, NEW c \in BridgeCalls, NEW n,
         call' = [call EXCEPT ![c] = n], CallGoes(c, call[c], n)
  PROVE  \A d \in BridgeCalls : CallGoes(d, call[d], call'[d])
<1> SUFFICES ASSUME NEW d \in BridgeCalls PROVE CallGoes(d, call[d], call'[d])
  OBVIOUS
<1>1. CASE d = c
  BY <1>1 DEF CallTypes
<1>2. CASE d # c
  <2>1. call'[d] = call[d] /\ call[d] \in BridgeCallRecords /\ TriesAgain(call[d])
    BY <1>2 DEF CallTypes, ClickInv, CallCounts
  <2> QED
    BY <2>1, StaysCalled
<1> QED
  BY <1>1, <1>2

\* A step that leaves the calls alone.
LEMMA CallsStayCalled ==
  ASSUME CallTypes, ClickInv, UNCHANGED call
  PROVE  \A d \in BridgeCalls : CallGoes(d, call[d], call'[d])
BY StaysCalled DEF CallTypes, ClickInv, CallCounts

\* What Do makes of an attempt that lost its browser.
LEMMA LostGoes ==
  ASSUME NEW c \in BridgeCalls, call[c] \in BridgeCallRecords, TriesAgain(call[c]),
         call[c].pc \in {"picked", "added", "waiting"}
  PROVE  Lost(c) \in BridgeCallRecords /\ CallGoes(c, call[c], Lost(c))
<1> DEFINE o == call[c] n == Lost(c)
<1>1. CASE o.idempotent /\ o.try = 1
  <2>1. /\ n \in BridgeCallRecords /\ n.pc = "rejoin" /\ n.try = o.try /\ n.idempotent
        /\ n.chan = "empty" /\ n.outcome = o.outcome
    BY <1>1 DEF Lost, BridgeCallRecords, CallStages
  <2> HIDE DEF n, o
  <2> QED
    BY <1>1, <2>1 DEF CallGoes, TriesAgain, Wrote, Unsent, n, o
<1>2. CASE ~(o.idempotent /\ o.try = 1)
  <2>1. /\ n \in BridgeCallRecords /\ n.pc = "done" /\ n.try = o.try /\ n.idempotent = o.idempotent
        /\ n.chan = o.chan /\ n.outcome = "disconnected"
    BY <1>2 DEF Lost, BridgeCallRecords, CallStages
  <2>2. o.try \in 1 .. 2 /\ TriesAgain(o) /\ o.pc \in {"picked", "added", "waiting"}
    BY DEF BridgeCallRecords
  <2> HIDE DEF n, o
  <2>3. CallGoes(c, o, n)
    BY <2>1, <2>2 DEF CallGoes, TriesAgain, Wrote, Unsent
  <2> QED
    BY <2>1, <2>3 DEF n, o
<1> QED
  BY <1>1, <1>2

\* A call that moves on and keeps what it knows of its attempts.
LEMMA MovesOn ==
  ASSUME NEW c, NEW o \in BridgeCallRecords, NEW n \in BridgeCallRecords, TriesAgain(o),
         n.try = o.try, n.idempotent = o.idempotent,
         n.chan \in {o.chan, "empty", "closed"} \/ executed[c] >= 1,
         n.outcome # "ok" \/ o.chan = "answer" \/ n.outcome = o.outcome,
         \/ n.pc = o.pc
         \/ n.pc \in {"waiting", "done"}
         \/ n.pc = "added" /\ o.pc = "picked"
         \/ /\ n.pc \in {"rejoin", "judging", "blocked"}
            /\ o.pc \in {"rejoin", "judging", "blocked"}
  PROVE  CallGoes(c, o, n)
<1>1. o.try \in 1 .. 2
  BY DEF BridgeCallRecords
<1> QED
  BY <1>1 DEF CallGoes, TriesAgain, Wrote, Unsent

\* Each step of Do, from the first pick to the second attempt.
LEMMA CallStepsGo ==
  ASSUME BridgeTypes, ClickInv, NEW c \in BridgeCalls, Picks(c) \/ PicksNone(c) \/ CallSteps(c)
  PROVE  \A d \in BridgeCalls : CallGoes(d, call[d], call'[d])
<1>0. CallTypes /\ SessionTypes
  BY DEF BridgeTypes
<1> DEFINE o == call[c]
<1>1. o \in BridgeCallRecords /\ TriesAgain(o) /\ o.try \in 1 .. 2
  BY <1>0 DEF CallTypes, ClickInv, CallCounts, BridgeCallRecords
<1>2. SUFFICES \E n : call' = [call EXCEPT ![c] = n] /\ CallGoes(c, o, n)
  BY <1>0, OneCallGoes
<1>3. CASE Picks(c)
  <2>1. PICK d \in Codes, reads \in BOOLEAN :
          /\ call[c].pc = "idle" /\ sessionOf[d] # NoLink
          /\ call' = [call EXCEPT ![c].pc = "picked", ![c].on = sessionOf[d],
                                  ![c].idempotent = reads]
    BY <1>3 DEF Picks
  <2>2. PICK s \in Links \cup {NoLink} : s = sessionOf[d]
    BY <1>0, <2>1 DEF SessionTypes
  <2> DEFINE n == [call[c] EXCEPT !.pc = "picked", !.on = s, !.idempotent = reads]
  <2>3. n \in BridgeCallRecords /\ call' = [call EXCEPT ![c] = n] /\ n.pc = "picked"
        /\ n.try = o.try /\ n.chan = o.chan /\ n.outcome = o.outcome /\ o.pc = "idle"
    BY <1>0, <1>1, <2>1, <2>2 DEF BridgeCallRecords, CallTypes, CallStages
  <2> HIDE DEF n, o
  <2>4. CallGoes(c, o, n)
    BY <1>1, <2>3 DEF CallGoes, TriesAgain, Wrote, Unsent
  <2> QED
    BY <2>3, <2>4
<1>4. CASE PicksNone(c) \/ RejoinEnds(c) \/ GivesUp(c)
  <2>1. PICK out \in {"nobrowser", "disconnected", "timeout"} :
          call' = [call EXCEPT ![c].pc = "done", ![c].outcome = out]
    BY <1>4 DEF PicksNone, RejoinEnds, GivesUp
  <2> DEFINE n == [call[c] EXCEPT !.pc = "done", !.outcome = out]
  <2>2. n \in BridgeCallRecords /\ call' = [call EXCEPT ![c] = n] /\ n.pc = "done"
        /\ n.try = o.try /\ n.chan = o.chan /\ n.idempotent = o.idempotent /\ n.outcome = out
    BY <1>0, <1>1, <2>1 DEF BridgeCallRecords, CallTypes, CallStages
  <2> HIDE DEF n, o
  <2>3. CallGoes(c, o, n)
    BY <1>1, <2>2, MovesOn
  <2> QED
    BY <2>2, <2>3
<1>5. CASE Adds(c)
  <2> DEFINE n == [call[c] EXCEPT !.pc = "added", !.chan = "empty"]
  <2>1. n \in BridgeCallRecords /\ n.pc = "added" /\ n.try = o.try /\ n.chan = "empty"
        /\ n.idempotent = o.idempotent /\ n.outcome = o.outcome
    BY <1>1 DEF BridgeCallRecords, CallStages
  <2>2. /\ call' = [call EXCEPT ![c] = Lost(c)] \/ call' = [call EXCEPT ![c] = n]
        /\ o.pc = "picked"
    BY <1>0, <1>5 DEF Adds, CallTypes
  <2>3. Lost(c) \in BridgeCallRecords /\ CallGoes(c, o, Lost(c))
    BY <1>1, <2>2, LostGoes
  <2> HIDE DEF n, o
  <2>4. CallGoes(c, o, n)
    BY <1>1, <2>1, <2>2, MovesOn
  <2> QED
    BY <2>1, <2>2, <2>3, <2>4
<1>6. CASE SendsRequest(c)
  <2> DEFINE n == [call[c] EXCEPT !.pc = "waiting"]
  <2>1. n \in BridgeCallRecords /\ n.pc = "waiting" /\ n.try = o.try /\ n.chan = o.chan
        /\ n.idempotent = o.idempotent /\ n.outcome = o.outcome
        /\ call' = [call EXCEPT ![c] = n]
    BY <1>0, <1>1, <1>6 DEF BridgeCallRecords, CallStages, SendsRequest, CallTypes
  <2> HIDE DEF n, o
  <2>2. CallGoes(c, o, n)
    BY <1>1, <2>1, MovesOn
  <2> QED
    BY <2>1, <2>2
<1>7. CASE SendFails(c)
  <2>1. call' = [call EXCEPT ![c] = Lost(c)] /\ o.pc = "added"
    BY <1>7 DEF SendFails
  <2>2. Lost(c) \in BridgeCallRecords /\ CallGoes(c, o, Lost(c))
    BY <1>1, <2>1, LostGoes
  <2> QED
    BY <2>1, <2>2
<1>8. CASE Receives(c)
  <2> DEFINE n == [call[c] EXCEPT !.pc = "done", !.outcome = "ok"]
  <2>1. n \in BridgeCallRecords /\ n.pc = "done" /\ n.try = o.try /\ n.chan = o.chan
        /\ n.idempotent = o.idempotent
    BY <1>1 DEF BridgeCallRecords, CallStages
  <2>2. /\ \/ call' = [call EXCEPT ![c] = Lost(c)]
           \/ call' = [call EXCEPT ![c] = n] /\ o.chan = "answer"
        /\ o.pc = "waiting"
    BY <1>0, <1>8 DEF Receives, CallTypes
  <2>3. Lost(c) \in BridgeCallRecords /\ CallGoes(c, o, Lost(c))
    BY <1>1, <2>2, LostGoes
  <2> HIDE DEF n, o
  <2>4. o.chan = "answer" => CallGoes(c, o, n)
    BY <1>1, <2>1, MovesOn
  <2> QED
    BY <2>1, <2>2, <2>3, <2>4
<1>9. CASE LooksForRejoin(c)
  <2> DEFINE s == sessionOf[DeviceOf(call[c].on)]
             p == IF s = NoLink THEN "blocked" ELSE "judging"
               t == IF s = NoLink THEN call[c].on ELSE s
             n == [call[c] EXCEPT !.pc = p, !.on = t, !.gen = joinedGen]
  <2>1. call' = [call EXCEPT ![c] = n] /\ o.pc = "rejoin"
    BY <1>0, <1>9 DEF LooksForRejoin, CallTypes
  <2>2. /\ n.pc = p /\ n.try = o.try /\ n.chan = o.chan /\ n.idempotent = o.idempotent
        /\ n.outcome = o.outcome
    BY <1>1 DEF BridgeCallRecords
  <2>3. CallGoes(c, o, n)
    <3>1. p \in {"blocked", "judging"}
      OBVIOUS
    <3> HIDE DEF n, o, p
    <3> QED
      BY <1>1, <2>1, <2>2, <3>1 DEF CallGoes, TriesAgain, Wrote, Unsent
  <2> QED
    BY <2>1, <2>3
<1>10. CASE JudgesSession(c)
  <2> DEFINE n == [call[c] EXCEPT !.pc = "picked", !.try = 2, !.chan = "empty"]
             b == [call[c] EXCEPT !.pc = "blocked"]
  <2>1. /\ n.pc = "picked" /\ n.try = 2 /\ n.chan = "empty"
        /\ n.idempotent = o.idempotent /\ n.outcome = o.outcome
    BY <1>1 DEF BridgeCallRecords
  <2>2. b \in BridgeCallRecords /\ b.pc = "blocked" /\ b.try = o.try /\ b.chan = o.chan
        /\ b.idempotent = o.idempotent /\ b.outcome = o.outcome
    BY <1>1 DEF BridgeCallRecords, CallStages
  <2>3. /\ call' = [call EXCEPT ![c] = n] \/ call' = [call EXCEPT ![c] = b]
        /\ o.pc = "judging"
    BY <1>0, <1>10 DEF JudgesSession, CallTypes
  <2> HIDE DEF n, b, o
  <2>4. CallGoes(c, o, n)
    BY <1>1, <2>1, <2>3 DEF CallGoes, TriesAgain, Wrote, Unsent
  <2>5. CallGoes(c, o, b)
    BY <1>1, <2>2, <2>3, MovesOn
  <2> QED
    BY <2>1, <2>2, <2>3, <2>4, <2>5
<1>11. CASE Rejoined(c)
  <2> DEFINE n == [call[c] EXCEPT !.pc = "rejoin"]
  <2>1. n \in BridgeCallRecords /\ n.pc = "rejoin" /\ n.try = o.try /\ n.chan = o.chan
        /\ n.idempotent = o.idempotent /\ n.outcome = o.outcome
    BY <1>1 DEF BridgeCallRecords, CallStages
  <2>2. call' = [call EXCEPT ![c] = n] /\ o.pc = "blocked"
    BY <1>0, <1>11 DEF Rejoined, CallTypes
  <2> HIDE DEF n, o
  <2>3. CallGoes(c, o, n)
    BY <1>1, <2>1, <2>2, MovesOn
  <2> QED
    BY <2>1, <2>2, <2>3
<1> QED
  BY <1>3, <1>4, <1>5, <1>6, <1>7, <1>8, <1>9, <1>10, <1>11 DEF CallSteps

\* Every step, with what a session does to the calls that wait on it.
LEMMA CallsDoGo ==
  ASSUME BridgeTypes, ClickInv, [BridgeNext]_bridgeVars
  PROVE  \A d \in BridgeCalls : CallGoes(d, call[d], call'[d])
<1>0. CallTypes
  BY DEF BridgeTypes
<1>1. CASE UNCHANGED call
  BY <1>0, <1>1, CallsStayCalled
<1>2. ASSUME NEW k \in Links, Drains(k), NEW d \in BridgeCalls
      PROVE  CallGoes(d, call[d], call'[d])
  <2> DEFINE o == call[d] n == [call[d] EXCEPT !.chan = "closed"]
  <2>1. o \in BridgeCallRecords /\ TriesAgain(o)
    BY <1>0 DEF CallTypes, ClickInv, CallCounts
  <2>2. n \in BridgeCallRecords /\ n.pc = o.pc /\ n.try = o.try /\ n.chan = "closed"
        /\ n.idempotent = o.idempotent /\ n.outcome = o.outcome
    BY <2>1 DEF BridgeCallRecords
  <2>3. call'[d] = n \/ call'[d] = o
    BY <1>2 DEF Drains
  <2> HIDE DEF n, o
  <2>4. CallGoes(d, o, n) /\ CallGoes(d, o, o)
    BY <2>1, <2>2, MovesOn, StaysCalled
  <2> QED
    BY <2>3, <2>4 DEF o
<1>3. ASSUME NEW k \in Links, NEW a \in Attempts, ReadsAnswer(k, a)
      PROVE  \A d \in BridgeCalls : CallGoes(d, call[d], call'[d])
  <2>1. CASE UNCHANGED call
    BY <1>0, <2>1, CallsStayCalled
  <2>2. CASE call' = [call EXCEPT ![a[1]].chan = "answer"]
    <3>1. PICK c \in BridgeCalls : a[1] = c
      BY DEF Attempts
    <3> DEFINE o == call[c] n == [call[c] EXCEPT !.chan = "answer"]
    <3>2. o \in BridgeCallRecords /\ TriesAgain(o)
      BY <1>0 DEF CallTypes, ClickInv, CallCounts
    <3>3. n \in BridgeCallRecords /\ n.pc = o.pc /\ n.try = o.try /\ n.chan = "answer"
          /\ n.idempotent = o.idempotent /\ n.outcome = o.outcome
      BY <3>2 DEF BridgeCallRecords
    <3>4. call' = [call EXCEPT ![c] = n]
      BY <1>0, <2>2, <3>1 DEF CallTypes
    <3>5. executed[c] >= 1
      BY <1>3, <3>1 DEF ReadsAnswer, ClickInv, AnswersEarned
    <3> HIDE DEF n, o
    <3>6. CallGoes(c, o, n)
      BY <3>2, <3>3, <3>5, MovesOn
    <3> QED
      BY <1>0, <3>3, <3>4, <3>6, OneCallGoes DEF o
  <2> QED
    BY <1>3, <2>1, <2>2 DEF ReadsAnswer
<1> QED
  BY <1>1, <1>2, <1>3, CallStepsGo, CallFrame

\* Frames that only become fewer, and calls that move on, disturb nothing.
LEMMA CountsStay ==
  ASSUME BridgeTypes, CallTypes', ClickInv, LinksFall, doing' \subseteq doing,
         UNCHANGED executed, \A c \in BridgeCalls : CallGoes(c, call[c], call'[c])
  PROVE  ClickInv'
<1>1. \A k \in Links : /\ link'[k].toExt \subseteq link[k].toExt
                       /\ link'[k].toServer \subseteq link[k].toServer
  BY DEF LinksFall, FramesFall
<1>2. Carries' /\ AnswersEarned'
  BY <1>1 DEF ClickInv, Carries, AnswersEarned
<1>3. ASSUME NEW c \in BridgeCalls PROVE CallCounts(c)'
  <2> DEFINE o == call[c] n == call'[c]
             s1 == OneIf(Sent(c, 1)) s2 == OneIf(Sent(c, 2))
             t1 == OneIf(Sent(c, 1)') t2 == OneIf(Sent(c, 2)')
  <2>1. CallGoes(c, o, n) /\ CallCounts(c)
    BY DEF ClickInv
  <2>2. \A i \in {1, 2} : Sent(c, i)' => Sent(c, i)
    BY <1>1 DEF Sent
  <2>3. s1 \in 0 .. 1 /\ s2 \in 0 .. 1 /\ t1 \in 0 .. 1 /\ t2 \in 0 .. 1 /\ t1 <= s1 /\ t2 <= s2
    BY <2>2 DEF OneIf
  <2>4. o \in BridgeCallRecords /\ n \in BridgeCallRecords /\ executed[c] \in Nat
    BY DEF BridgeTypes, CallTypes, ExtensionTypes
  <2>5. Wrote(o) \in Int /\ Wrote(n) \in Int /\ o.try \in 1 .. 2 /\ n.try \in 1 .. 2
    BY <2>4 DEF BridgeCallRecords, Wrote
  <2>6. executed[c] + s1 + s2 <= Wrote(o) /\ Wrote(o) <= Wrote(n)
    BY <2>1 DEF CallCounts, CallGoes
  <2>7. executed[c] + t1 + t2 <= Wrote(n)
    <3> HIDE DEF o, n, s1, s2, t1, t2
    <3> QED
      BY <2>3, <2>4, <2>5, <2>6
  <2>8. ASSUME NEW i \in {1, 2}, Sent(c, i)' PROVE i <= n.try /\ ~(i = n.try /\ Unsent(n))
    <3>1. i <= o.try /\ ~(i = o.try /\ Unsent(o))
      BY <2>1, <2>2, <2>8 DEF CallCounts
    <3>2. o.try <= n.try /\ (Unsent(n) => n.try > o.try \/ (n.try = o.try /\ Unsent(o)))
      BY <2>1 DEF CallGoes
    <3> HIDE DEF o, n
    <3> QED
      BY <2>5, <3>1, <3>2
  <2>9. n.outcome = "ok" \/ n.chan = "answer" => executed[c] >= 1
    BY <2>1 DEF CallCounts, CallGoes
  <2>10. TriesAgain(n)
    BY <2>1 DEF CallGoes
  <2> HIDE DEF s1, s2
  <2> QED
    BY <2>7, <2>8, <2>9, <2>10 DEF CallCounts
<1> QED
  BY <1>2, <1>3 DEF ClickInv

\* A request goes out: there is no other of this attempt.
LEMMA CountsSend ==
  ASSUME BridgeTypes, CallsServed, ClickInv, NEW c \in BridgeCalls, SendsRequest(c)
  PROVE  ClickInv'
<1>0. LinkTypes /\ CallTypes /\ executed \in [BridgeCalls -> Nat]
  BY DEF BridgeTypes, ExtensionTypes
<1> DEFINE k == call[c].on a == <<c, call[c].try>>
<1>1. call[c] \in BridgeCallRecords /\ call[c].try \in {1, 2} /\ call[c].pc = "added"
  BY <1>0 DEF CallTypes, BridgeCallRecords, SendsRequest
<1>2. k \in Links /\ a \in Attempts
  BY <1>1 DEF CallsServed, Attempts
<1>3. /\ link'[k].toExt = link[k].toExt \cup {a} /\ link'[k].toServer = link[k].toServer
      /\ \A j \in Links : j # k => link'[j] = link[j]
  <2> DEFINE m == [link[k] EXCEPT !.toExt = @ \cup {a}]
  <2>1. link' = [link EXCEPT ![k] = m]
    BY <1>0, <1>2 DEF SendsRequest, LinkTypes
  <2>2. m.toExt = link[k].toExt \cup {a} /\ m.toServer = link[k].toServer
    BY <1>0, <1>2 DEF LinkTypes, LinkRecords
  <2> HIDE DEF m, k, a
  <2> QED
    BY <1>0, <1>2, <2>1, <2>2 DEF LinkTypes
<1>4. UNCHANGED <<doing, executed>>
  BY DEF SendsRequest
<1>5. /\ call'[c].pc = "waiting" /\ call'[c].try = call[c].try
      /\ call'[c].idempotent = call[c].idempotent
      /\ call'[c].chan = call[c].chan /\ call'[c].outcome = call[c].outcome
      /\ \A d \in BridgeCalls : d # c => call'[d] = call[d]
  <2> DEFINE n == [call[c] EXCEPT !.pc = "waiting"]
  <2>1. call' = [call EXCEPT ![c] = n]
    BY <1>0 DEF SendsRequest, CallTypes
  <2>2. /\ n.pc = "waiting" /\ n.try = call[c].try /\ n.idempotent = call[c].idempotent
        /\ n.chan = call[c].chan /\ n.outcome = call[c].outcome
    BY <1>1 DEF BridgeCallRecords
  <2> HIDE DEF n
  <2> QED
    BY <1>0, <2>1, <2>2 DEF CallTypes
<1>6. CallCounts(c)
  BY DEF ClickInv
<1>7. ~Sent(c, call[c].try)
  BY <1>1, <1>6 DEF CallCounts, Unsent
<1> HIDE DEF k
<1>8. \A d \in BridgeCalls, i \in {1, 2} : Sent(d, i)' <=> Sent(d, i) \/ <<d, i>> = a
  BY <1>2, <1>3 DEF Sent
<1>9. Carries'
  <2>1. \A j \in Links : a \notin link[j].toExt
    BY <1>7 DEF Sent
  <2> HIDE DEF a
  <2> QED
    BY <1>2, <1>3, <2>1 DEF ClickInv, Carries
<1>10. AnswersEarned'
  BY <1>2, <1>3, <1>4 DEF ClickInv, AnswersEarned
<1>11. ASSUME NEW d \in BridgeCalls, d # c PROVE CallCounts(d)'
  <2>1. Sent(d, 1)' = Sent(d, 1) /\ Sent(d, 2)' = Sent(d, 2)
    BY <1>8, <1>11 DEF Sent
  <2>2. CallCounts(d) /\ call'[d] = call[d]
    BY <1>5, <1>11 DEF ClickInv
  <2> QED
    BY <1>4, <2>1, <2>2 DEF CallCounts
<1>12. CallCounts(c)'
  <2> DEFINE s1 == OneIf(Sent(c, 1)) s2 == OneIf(Sent(c, 2))
             t1 == OneIf(Sent(c, 1)') t2 == OneIf(Sent(c, 2)')
  <2>1. TriesAgain(call[c])'
    BY <1>1, <1>5, <1>6 DEF CallCounts, TriesAgain
  <2>2. executed[c] + s1 + s2 <= call[c].try - 1 /\ executed[c] \in Nat
    BY <1>0, <1>1, <1>6 DEF CallCounts, Wrote
  <2>3. Wrote(call[c])' = call[c].try
    BY <1>5 DEF Wrote
  <2>4. /\ s1 \in 0 .. 1 /\ s2 \in 0 .. 1 /\ t1 \in 0 .. 1 /\ t2 \in 0 .. 1
        /\ call[c].try = 1 => t2 = s2
        /\ call[c].try = 2 => t1 = s1
        /\ t1 <= s1 + 1 /\ t2 <= s2 + 1
    BY <1>8 DEF OneIf, Sent
  <2>5. executed[c] + t1 + t2 <= call[c].try
    <3> HIDE DEF s1, s2, t1, t2
    <3> QED
      BY <1>1, <2>2, <2>4
  <2>6. ASSUME NEW i \in {1, 2}, Sent(c, i)'
        PROVE  i <= call'[c].try /\ ~(i = call'[c].try /\ Unsent(call'[c]))
    BY <1>1, <1>5, <1>6, <1>8, <2>6 DEF CallCounts, Unsent
  <2>7. call'[c].outcome = "ok" \/ call'[c].chan = "answer" => executed[c] >= 1
    BY <1>5, <1>6 DEF CallCounts
  <2> HIDE DEF s1, s2
  <2> QED
    BY <1>4, <2>1, <2>3, <2>5, <2>6, <2>7 DEF CallCounts
<1> QED
  BY <1>9, <1>10, <1>11, <1>12 DEF ClickInv

\* The browser carries a request out, and it is on its way no longer.
LEMMA CountsExecute ==
  ASSUME BridgeTypes, ClickInv, NEW k \in Links, NEW a \in Attempts, Executes(k, a)
  PROVE  ClickInv'
<1>0. LinkTypes /\ CallTypes /\ executed \in [BridgeCalls -> Nat] /\ doing \subseteq Links \X Attempts
  BY DEF BridgeTypes, ExtensionTypes
<1>1. PICK c \in BridgeCalls, n \in {1, 2} : a = <<c, n>>
  BY DEF Attempts
<1>2. /\ link'[k].toExt = link[k].toExt \ {a} /\ link'[k].toServer = link[k].toServer
      /\ \A j \in Links : j # k => link'[j] = link[j]
  <2> DEFINE m == [link[k] EXCEPT !.toExt = @ \ {a}]
  <2>1. link' = [link EXCEPT ![k] = m]
    BY <1>0 DEF Executes, LinkTypes
  <2>2. m.toExt = link[k].toExt \ {a} /\ m.toServer = link[k].toServer
    BY <1>0 DEF LinkTypes, LinkRecords
  <2> HIDE DEF m
  <2> QED
    BY <1>0, <2>1, <2>2 DEF LinkTypes
<1>3. /\ UNCHANGED call /\ doing' = doing \cup {<<k, a>>} /\ a \in link[k].toExt
      /\ executed' = [executed EXCEPT ![c] = @ + 1]
  BY <1>1 DEF Executes
<1>4. /\ executed'[c] = executed[c] + 1 /\ executed[c] \in Nat
      /\ \A d \in BridgeCalls : /\ d # c => executed'[d] = executed[d]
                                /\ executed[d] >= 1 => executed'[d] >= 1
  BY <1>0, <1>3
<1>5. Carries'
  BY <1>2 DEF ClickInv, Carries
<1>6. AnswersEarned'
  <2>1. \A j \in Links : link'[j].toServer = link[j].toServer
    BY <1>2
  <2>2. \A b \in Attempts : b[1] \in BridgeCalls
    BY DEF Attempts
  <2>3. \A j \in Links : link[j].toServer \subseteq Attempts
    BY <1>0 DEF LinkTypes, LinkRecords
  <2>4. \A e \in doing : e[2][1] \in BridgeCalls
    BY <1>0, <2>2
  <2>5. a[1] = c
    BY <1>1
  <2>6. ASSUME NEW e \in doing' PROVE executed'[e[2][1]] >= 1
    <3>1. CASE e \in doing
      <4>1. PICK d \in BridgeCalls : d = e[2][1]
        BY <2>4, <3>1
      <4>2. executed[d] >= 1
        BY <3>1, <4>1 DEF ClickInv, AnswersEarned
      <4>3. executed'[d] >= 1
        BY <1>4, <4>2
      <4> QED
        BY <4>1, <4>3
    <3>2. CASE e = <<k, a>>
      BY <1>4, <2>5, <3>2
    <3> QED
      BY <1>3, <3>1, <3>2
  <2>7. ASSUME NEW j \in Links, NEW b \in link'[j].toServer PROVE executed'[b[1]] >= 1
    <3>1. b \in link[j].toServer
      BY <2>1, <2>7
    <3>2. PICK d \in BridgeCalls : d = b[1]
      BY <2>2, <2>3, <3>1
    <3>3. executed[d] >= 1
      BY <3>1, <3>2 DEF ClickInv, AnswersEarned
    <3>4. executed'[d] >= 1
      BY <1>4, <3>3
    <3> QED
      BY <3>2, <3>4
  <2> QED
    BY <2>6, <2>7 DEF AnswersEarned
<1>7. /\ Sent(c, n) /\ ~Sent(c, n)'
      /\ \A d \in BridgeCalls, i \in {1, 2} : <<d, i>> # a => (Sent(d, i)' <=> Sent(d, i))
  <2>1. \A j \in Links : a \in link[j].toExt => j = k
    BY <1>3 DEF ClickInv, Carries
  <2>2. \A j \in Links : a \notin link'[j].toExt
    BY <1>2, <2>1
  <2>3. \A d \in BridgeCalls, i \in {1, 2} : <<d, i>> # a => (Sent(d, i)' <=> Sent(d, i))
    BY <1>2 DEF Sent
  <2> QED
    BY <1>1, <1>3, <2>2, <2>3 DEF Sent
<1>8. ASSUME NEW d \in BridgeCalls, d # c PROVE CallCounts(d)'
  <2>1. Sent(d, 1)' = Sent(d, 1) /\ Sent(d, 2)' = Sent(d, 2)
    BY <1>1, <1>7, <1>8 DEF Sent
  <2>2. CallCounts(d) /\ call'[d] = call[d] /\ executed'[d] = executed[d]
    BY <1>3, <1>4, <1>8 DEF ClickInv
  <2> QED
    BY <2>1, <2>2 DEF CallCounts
<1>9. CallCounts(c)'
  <2> DEFINE s1 == OneIf(Sent(c, 1)) s2 == OneIf(Sent(c, 2))
             t1 == OneIf(Sent(c, 1)') t2 == OneIf(Sent(c, 2)')
  <2>1. CallCounts(c) /\ call'[c] = call[c]
    BY <1>3 DEF ClickInv
  <2>2. executed[c] + s1 + s2 <= Wrote(call[c])
    BY <2>1 DEF CallCounts
  <2>3. /\ s1 \in 0 .. 1 /\ s2 \in 0 .. 1 /\ t1 \in 0 .. 1 /\ t2 \in 0 .. 1
        /\ n = 1 => t1 + 1 = s1 /\ t2 = s2
        /\ n = 2 => t2 + 1 = s2 /\ t1 = s1
    BY <1>1, <1>7 DEF OneIf, Sent
  <2>4. Wrote(call[c]) \in Int
    BY <1>0 DEF CallTypes, BridgeCallRecords, Wrote
  <2>5. executed'[c] + t1 + t2 <= Wrote(call[c])
    <3> HIDE DEF s1, s2, t1, t2
    <3> QED
      BY <1>1, <1>4, <2>2, <2>3, <2>4
  <2>6. \A i \in {1, 2} : Sent(c, i)' => Sent(c, i)
    BY <1>1, <1>7
  <2>7. executed'[c] >= 1
    BY <1>4
  <2> HIDE DEF s1, s2
  <2> QED
    BY <2>1, <2>5, <2>6, <2>7 DEF CallCounts
<1> QED
  BY <1>5, <1>6, <1>8, <1>9 DEF ClickInv

\* An answer goes out for what was carried out.
LEMMA CountsAnswer ==
  ASSUME BridgeTypes, ClickInv, NEW k \in Links, NEW a \in Attempts, Answers(k, a)
  PROVE  ClickInv'
<1>0. LinkTypes
  BY DEF BridgeTypes
<1>1. UNCHANGED <<call, executed>> /\ doing' \subseteq doing /\ <<k, a>> \in doing
  BY DEF Answers
<1>2. \A j \in Links : /\ link'[j].toExt = link[j].toExt
                       /\ link'[j].toServer \subseteq link[j].toServer \cup {a}
  <2>1. CASE UNCHANGED link
    BY <2>1
  <2>2. CASE link' = [link EXCEPT ![k].toServer = @ \cup {a}]
    BY <1>0, <2>2 DEF LinkTypes, LinkRecords
  <2> QED
    BY <2>1, <2>2 DEF Answers
<1>3. executed[a[1]] >= 1
  <2>1. executed[(<<k, a>>)[2][1]] >= 1
    BY <1>1 DEF ClickInv, AnswersEarned
  <2> QED
    BY <2>1
<1>4. Carries' /\ AnswersEarned'
  BY <1>1, <1>2, <1>3 DEF ClickInv, Carries, AnswersEarned
<1>5. ASSUME NEW d \in BridgeCalls PROVE CallCounts(d)'
  <2>1. Sent(d, 1)' = Sent(d, 1) /\ Sent(d, 2)' = Sent(d, 2)
    BY <1>2 DEF Sent
  <2>2. CallCounts(d) /\ call'[d] = call[d] /\ executed'[d] = executed[d]
    BY <1>1 DEF ClickInv
  <2> QED
    BY <2>1, <2>2 DEF CallCounts
<1> QED
  BY <1>4, <1>5 DEF ClickInv

\* So what lands of a call is counted after every step.
LEMMA ClickInvKept ==
  ASSUME BridgeTypes, CallTypes', CallsServed, ClickInv, [BridgeNext]_bridgeVars,
         \/ LinksFall
         \/ \E c \in BridgeCalls : SendsRequest(c)
         \/ \E k \in Links : \E a \in Attempts : Answers(k, a)
  PROVE  ClickInv'
<1>1. \A c \in BridgeCalls : CallGoes(c, call[c], call'[c])
  BY CallsDoGo
<1>2. CASE LinksFall /\ doing' \subseteq doing /\ UNCHANGED executed
  BY <1>1, <1>2, CountsStay
<1>3. ASSUME NEW k \in Links, NEW a \in Attempts, Executes(k, a) \/ Answers(k, a)
      PROVE  ClickInv'
  BY <1>3, CountsExecute, CountsAnswer
<1>4. ASSUME \/ \E c \in Codes : Pastes(c)
             \/ OpensSocket \/ NoticesChange
             \/ \E cred \in loads : DialDropped(cred) \/ \E k \in Links : Dials(cred, k)
             \/ \E k \in Links : TakesWelcome(k) \/ SeesClose(k) \/ ConnectionLost(k)
      PROVE  doing' \subseteq doing /\ UNCHANGED executed
  BY <1>4 DEF Pastes, OpensSocket, NoticesChange, DialDropped, Dials, TakesWelcome, SeesClose,
         ConnectionLost
<1>5. \/ doing' \subseteq doing /\ UNCHANGED executed
      \/ \E k \in Links : \E a \in Attempts : Executes(k, a) \/ Answers(k, a)
  BY <1>4, ExtensionFrame DEF Extension
<1> QED
  BY <1>2, <1>3, <1>5, CountsSend

-----------------------------------------------------------------------------
HarmInv == BridgeInv /\ PairInv /\ WsUsed /\ DoingUsed /\ ClickInv

\* It all holds when the bridge starts,
LEMMA HarmInvStart == BridgeInit => HarmInv
<1> SUFFICES ASSUME BridgeInit PROVE HarmInv
  OBVIOUS
<1>1. \A k \in Links : /\ link[k].stage = "unused" /\ link[k].cred[1] = "none"
                       /\ ~link[k].welcome /\ ~link[k].srvOpen /\ link[k].code = "none"
                       /\ link[k].toExt = {} /\ link[k].toServer = {}
  BY DEF BridgeInit
<1>2. \A c \in BridgeCalls : /\ call[c].pc = "idle" /\ call[c].try = 1
                             /\ call[c].outcome = "none" /\ call[c].chan = "empty"
                             /\ executed[c] = 0
  BY DEF BridgeInit
<1>3. /\ \A d \in Codes : device[d] = "none"
      /\ revoking = {} /\ storage.secret = NoCode /\ loads = {} /\ ws = NoLink /\ doing = {}
  BY DEF BridgeInit
<1>4. PairInv /\ WsUsed /\ DoingUsed
  BY <1>1, <1>3 DEF PairInv, PairedTo, WsUsed, DoingUsed
<1>5. Carries /\ AnswersEarned /\ \A c \in BridgeCalls : ~Sent(c, 1) /\ ~Sent(c, 2)
  BY <1>1, <1>3 DEF Carries, AnswersEarned, Sent
<1>6. ASSUME NEW c \in BridgeCalls PROVE CallCounts(c)
  <2>1. OneIf(Sent(c, 1)) = 0 /\ OneIf(Sent(c, 2)) = 0
    BY <1>5 DEF OneIf
  <2>2. Wrote(call[c]) = 0 /\ TriesAgain(call[c])
    BY <1>2 DEF Wrote, TriesAgain
  <2>3. \A n \in {1, 2} : ~Sent(c, n)
    BY <1>5
  <2> QED
    BY <1>2, <2>1, <2>2, <2>3 DEF CallCounts
<1> QED
  BY <1>4, <1>5, <1>6, BridgeInvStart DEF HarmInv, ClickInv

\* and every step keeps it.
LEMMA HarmInvKept ==
  ASSUME HarmInv, [BridgeNext]_bridgeVars
  PROVE  HarmInv' /\ KeepsPairing
<1> USE DEF HarmInv
<1>1. BridgeTypes /\ LinkSound /\ CallsServed /\ SessionSound
  BY DEF BridgeInv
<1>2. BridgeInv' /\ CallTypes'
  <2>1. BridgeInv'
    BY BridgeInvKept
  <2> QED
    BY <2>1 DEF BridgeInv, BridgeTypes
<1>3. /\ LinksPair
      /\ \/ LinksFall
         \/ \E c \in BridgeCalls : SendsRequest(c)
         \/ \E k \in Links : \E a \in Attempts : Answers(k, a)
  BY <1>1, LinksDoPair
<1>4. PairInv'
  BY <1>1, <1>3, PairInvKept
<1>5. WsUsed' /\ DoingUsed'
  BY <1>1, <1>3, UsedStays
<1>6. ClickInv'
  BY <1>1, <1>2, <1>3, ClickInvKept
<1>7. KeepsPairing
  BY <1>1, PairingKept
<1> QED
  BY <1>2, <1>4, <1>5, <1>6, <1>7

\* The count is enough: a command is written once and a read twice at most.
LEMMA ClicksDoLandOnce == HarmInv => ClicksLandOnce
<1> SUFFICES ASSUME HarmInv, NEW c \in BridgeCalls
             PROVE  /\ executed[c] <= IF call[c].idempotent THEN 2 ELSE 1
                    /\ call[c].outcome = "ok" => executed[c] >= 1
  BY DEF ClicksLandOnce
<1>1. CallCounts(c) /\ call[c] \in BridgeCallRecords /\ executed[c] \in Nat
  BY DEF HarmInv, ClickInv, BridgeInv, BridgeTypes, CallTypes, ExtensionTypes
<1>2. OneIf(Sent(c, 1)) \in 0 .. 1 /\ OneIf(Sent(c, 2)) \in 0 .. 1
  BY DEF OneIf
<1>3. Wrote(call[c]) <= call[c].try /\ Wrote(call[c]) \in Int /\ call[c].try \in 1 .. 2
  BY <1>1 DEF BridgeCallRecords, Wrote, CallCounts, TriesAgain
<1>4. ~call[c].idempotent => call[c].try = 1
  BY <1>1 DEF CallCounts, TriesAgain
<1>5. executed[c] <= call[c].try
  BY <1>1, <1>2, <1>3 DEF CallCounts
<1> QED
  BY <1>1, <1>3, <1>4, <1>5 DEF CallCounts

\* Whatever happens to its sockets, a command lands at most once and a read at
\* most twice, a call that reports a result was carried out, and the extension
\* forgets its secret only when the device was revoked, another code was pasted
\* or the socket was another device's (bridge.go, Do; background.js, onClosed).
THEOREM LostSocketNeverHarms == BridgeInit /\ [][BridgeNext]_bridgeVars => LostSocketDoesNoHarm
<1>1. HarmInv /\ [BridgeNext]_bridgeVars => HarmInv' /\ KeepsPairing
  BY HarmInvKept
<1> QED
  BY <1>1, HarmInvStart, ClicksDoLandOnce, PTL DEF LostSocketDoesNoHarm
=============================================================================
