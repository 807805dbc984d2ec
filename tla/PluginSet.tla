------------------------------ MODULE PluginSet ------------------------------
(***************************************************************************)
(* The plugins of one installation: what its executable carries, what its  *)
(* configuration names, and how the two are brought together: Converge at  *)
(* a start, the plugin_install tool while serving, and the handover to the *)
(* executable that was built.                                              *)
(*                                                                         *)
(* A Go plugin is carried by the executable itself; every Python plugin is *)
(* carried by the bridge, and loaded by a plugin host that is a service of *)
(* its own and outlives the process.                                       *)
(***************************************************************************)
EXTENDS Naturals, FiniteSets

CONSTANTS
  GoPlugins, PyPlugins,   \* the catalogue
  Bridge,                 \* "remote", as a compiled plugin and as the old name
  Installers,             \* plugin_install calls that may run at the same time
  MaxInstalls,            \* bound: calls of plugin_install
  MaxCrashes              \* bound: ends of the process nobody asked for

Catalogue == GoPlugins \cup PyPlugins
Boot == "boot"

ASSUME PluginAssumption ==
  /\ GoPlugins \cap PyPlugins = {} /\ Bridge \notin Catalogue
  /\ Boot \notin Installers
  /\ {MaxInstalls, MaxCrashes} \subseteq Nat

VARIABLES
  exe,        \* the executable on disk
  next,       \* the file beside it that Rebuild writes
  args,       \* --plugins
  cfgFile,    \* "plugins" in the configuration file
  cfgMem,     \* Config.Plugins
  proc,       \* where the process is
  compiled,   \* what the running process carries
  marked,     \* KAIJU_CONVERGED in its environment
  wanted,     \* its normalised wanted set
  live,       \* plugins whose tools it has registered
  host,       \* the plugin host
  job,        \* the rebuilds: Converge's and those of the installers
  armed,      \* ArmReExec was called
  recorded,   \* installs that were answered as done and written to the file
  installsMade, crashes

pluginVars == <<exe, next, args, cfgFile, cfgMem, proc, compiled, marked, wanted, live, host,
                job, armed, recorded, installsMade, crashes>>
procVars == <<proc, compiled, marked, wanted>>
toolVars == <<recorded, installsMade>>

Builders == Installers \cup {Boot}
Binary == [carries : SUBSET (GoPlugins \cup {Bridge}), boots : BOOLEAN]
NoBinary == [carries |-> {}, boots |-> FALSE]
Idle == [pc |-> "idle", want |-> {}]

PluginTypeOK ==
  /\ exe \in Binary /\ next \in Binary
  /\ {args, cfgFile, cfgMem, wanted} \subseteq SUBSET (Catalogue \cup {Bridge})
  /\ proc \in {"undeployed", "down", "converging", "rebuilding", "starting", "serving",
               "draining"}
  /\ compiled \subseteq GoPlugins \cup {Bridge}
  /\ live \subseteq Catalogue /\ recorded \subseteq Catalogue
  /\ host \in [up : BOOLEAN, loads : SUBSET PyPlugins]
  /\ job \in [Builders -> [pc : {"idle", "building", "built", "checked", "swapped"},
                           want : SUBSET (Catalogue \cup {Bridge})]]
  /\ {marked, armed} \subseteq BOOLEAN
  /\ installsMade \in 0 .. MaxInstalls /\ crashes \in 0 .. MaxCrashes

PluginInit ==
  /\ exe = NoBinary /\ next = NoBinary
  /\ args = {} /\ cfgFile = {} /\ cfgMem = {} /\ wanted = {}
  /\ proc = "undeployed" /\ compiled = {} /\ marked = FALSE
  /\ live = {} /\ recorded = {}
  /\ host = [up |-> FALSE, loads |-> {}]
  /\ job = [b \in Builders |-> Idle]
  /\ armed = FALSE
  /\ installsMade = 0 /\ crashes = 0

-----------------------------------------------------------------------------
(* catalogue.go                                                              *)

\* The old name of the bridge is read as every Python plugin.
Normalise(names) ==
  (names \ {Bridge}) \cup (IF Bridge \in names THEN PyPlugins ELSE {})

\* What a binary built for these names carries; a name the catalogue does not
\* list has no tag.
Resolvable(names) == names \subseteq Catalogue

TagsOf(names) ==
  (names \cap GoPlugins) \cup (IF names \cap PyPlugins # {} THEN {Bridge} ELSE {})

MissingFrom(carries, names) ==
  {n \in names : n \notin carries /\ ~(n \in PyPlugins /\ Bridge \in carries)}

-----------------------------------------------------------------------------
(* Rebuild, for Converge or for one call of plugin_install.                  *)

At(b, pc) == job[b].pc = pc
Moves(b, pc) == job' = [job EXCEPT ![b].pc = pc]

\* Converge's caller serves without; the tool reports the failure.
GivesUpBuilding(b) ==
  /\ job' = [job EXCEPT ![b] = Idle]
  /\ proc' = IF b = Boot THEN "starting" ELSE proc

\* No toolchain, no source tree, no web UI, or a name without a tag.
CannotBuild(b) ==
  /\ At(b, "building")
  /\ GivesUpBuilding(b)
  /\ UNCHANGED <<exe, next, args, cfgFile, cfgMem, compiled, marked, wanted, live, host, armed,
                 toolVars, crashes>>

\* The compiler fails or is killed after buildTimeout.
BuildFails(b) ==
  /\ At(b, "building") /\ Resolvable(job[b].want)
  /\ next' = NoBinary
  /\ GivesUpBuilding(b)
  /\ UNCHANGED <<exe, args, cfgFile, cfgMem, compiled, marked, wanted, live, host, armed,
                 toolVars, crashes>>

\* A binary that links may still panic when it starts.
Builds(b) ==
  /\ At(b, "building") /\ Resolvable(job[b].want)
  /\ \E boots \in BOOLEAN : next' = [carries |-> TagsOf(job[b].want), boots |-> boots]
  /\ Moves(b, "built")
  /\ UNCHANGED <<exe, args, cfgFile, cfgMem, procVars, live, host, armed, toolVars, crashes>>

PassesCheck(b) == next.boots /\ MissingFrom(next.carries, job[b].want) = {}

SwapsWhatLinks(b) ==
  /\ At(b, "built")
  /\ Moves(b, "checked")
  /\ UNCHANGED <<exe, next, args, cfgFile, cfgMem, procVars, live, host, armed, toolVars, crashes>>

\* The selfcheck of whatever lies there now.
SelfChecks(b) ==
  /\ At(b, "built")
  /\ IF PassesCheck(b)
     THEN Moves(b, "checked") /\ UNCHANGED <<next, proc>>
     ELSE next' = NoBinary /\ GivesUpBuilding(b)
  /\ UNCHANGED <<exe, args, cfgFile, cfgMem, compiled, marked, wanted, live, host, armed,
                 toolVars, crashes>>

\* One rename; it fails when somebody else took the file.
Swaps(b) ==
  /\ At(b, "checked")
  /\ next' = NoBinary
  /\ IF next = NoBinary THEN GivesUpBuilding(b) /\ UNCHANGED exe
     ELSE exe' = next /\ Moves(b, "swapped") /\ UNCHANGED proc
  /\ UNCHANGED <<args, cfgFile, cfgMem, compiled, marked, wanted, live, host, armed, toolVars,
                 crashes>>

-----------------------------------------------------------------------------
(* The process.                                                              *)

\* An installation: a binary that starts, a configuration and arguments.
Deploys(carries, names, flags) ==
  /\ proc = "undeployed"
  /\ exe' = [carries |-> carries, boots |-> TRUE]
  /\ cfgFile' = names /\ args' = flags
  /\ proc' = "down"
  /\ UNCHANGED <<next, cfgMem, compiled, marked, wanted, live, host, job, armed, toolVars, crashes>>

\* The image of the executable takes over: main() up to the call of Converge.
Runs(mark) ==
  /\ compiled' = exe.carries
  /\ cfgMem' = cfgFile
  /\ wanted' = Normalise(cfgFile \cup args)
  /\ marked' = mark
  /\ live' = {}
  /\ job' = [b \in Builders |-> Idle]
  /\ armed' = FALSE
  /\ proc' = IF exe.boots THEN "converging" ELSE "down"

SupervisorStarts ==
  /\ proc = "down" /\ exe.boots
  /\ Runs(FALSE)
  /\ UNCHANGED <<exe, next, args, cfgFile, host, toolVars, crashes>>

Converges ==
  /\ proc = "converging"
  /\ IF MissingFrom(compiled, wanted) = {} \/ marked
     THEN proc' = "starting" /\ UNCHANGED job
     ELSE /\ proc' = "rebuilding"
          /\ job' = [job EXCEPT ![Boot] = [pc |-> "building", want |-> wanted]]
  /\ UNCHANGED <<exe, next, args, cfgFile, cfgMem, compiled, marked, wanted, live, host, armed,
                 toolVars, crashes>>

\* syscall.Exec with the mark, which stays in the environment of every later
\* handover; when it fails the old process serves.
ReExecs ==
  /\ At(Boot, "swapped")
  /\ \/ Runs(TRUE)
     \/ /\ GivesUpBuilding(Boot)
        /\ UNCHANGED <<cfgMem, compiled, marked, wanted, live, armed>>
  /\ UNCHANGED <<exe, next, args, cfgFile, host, toolVars, crashes>>

\* EnsureUp before Activate.  A host that answers is left as it is; one that is
\* started loads the wanted Python plugins.  The bridge takes what it offers.
Activates ==
  /\ proc = "starting"
  /\ LET py == wanted \cap PyPlugins
     IN /\ host' \in IF py = {} \/ host.up THEN {host}
                     ELSE {host, [up |-> TRUE, loads |-> py]}
        /\ live' = (wanted \cap GoPlugins \cap compiled)
                   \cup (IF py # {} /\ Bridge \in compiled /\ host'.up THEN host'.loads ELSE {})
  /\ proc' = "serving"
  /\ UNCHANGED <<exe, next, args, cfgFile, cfgMem, compiled, marked, wanted, job, armed, toolVars,
                 crashes>>

\* The process, or the machine with the host, goes down.
Crashes(hostToo) ==
  /\ proc \notin {"undeployed", "down"}
  /\ crashes < MaxCrashes
  /\ crashes' = crashes + 1
  /\ proc' = "down"
  /\ job' = [b \in Builders |-> Idle]
  /\ live' = {} /\ armed' = FALSE
  /\ host' = IF hostToo THEN [up |-> FALSE, loads |-> {}] ELSE host
  /\ UNCHANGED <<exe, next, args, cfgFile, cfgMem, compiled, marked, wanted, toolVars>>

-----------------------------------------------------------------------------
(* plugin_install.                                                           *)

\* appendUnique(PluginNames(), name): the configuration's names as they are.
WantWith(p) == cfgMem \cup {p}

Installs(i, p) ==
  /\ proc = "serving" /\ At(i, "idle")
  /\ installsMade < MaxInstalls
  /\ installsMade' = installsMade + 1
  /\ MissingFrom(compiled, {p}) # {}
  /\ job' = [job EXCEPT ![i] = [pc |-> "building", want |-> WantWith(p)]]
  /\ UNCHANGED <<exe, next, args, cfgFile, cfgMem, procVars, live, host, armed, recorded, crashes>>

RecordsUnarmed(i) ==
  /\ At(i, "swapped")
  /\ cfgMem' = job[i].want
  /\ \/ cfgFile' = job[i].want /\ recorded' = recorded \cup (job[i].want \ {Bridge})
     \/ UNCHANGED <<cfgFile, recorded>>
  /\ job' = [job EXCEPT ![i] = Idle]
  /\ UNCHANGED <<exe, next, args, procVars, live, host, armed, installsMade, crashes>>

\* The configuration, whose file may not be written, and the timer.
RecordsAndArms(i) ==
  /\ At(i, "swapped")
  /\ cfgMem' = job[i].want
  /\ \/ cfgFile' = job[i].want /\ recorded' = recorded \cup (job[i].want \ {Bridge})
     \/ UNCHANGED <<cfgFile, recorded>>
  /\ armed' = TRUE
  /\ job' = [job EXCEPT ![i] = Idle]
  /\ UNCHANGED <<exe, next, args, procVars, live, host, installsMade, crashes>>

\* The handover: the server is shut down, which also ends main()'s Start ...
DrainsForHandover ==
  /\ proc = "serving" /\ armed
  /\ proc' = "draining"
  /\ UNCHANGED <<exe, next, args, cfgFile, cfgMem, compiled, marked, wanted, live, host, job,
                 armed, toolVars, crashes>>

\* ... so that main returning races the exec at the end of the drain.
HandsOver ==
  /\ proc = "draining"
  /\ \/ Runs(TRUE)
     \/ /\ proc' = "down" /\ live' = {} /\ armed' = FALSE
        /\ job' = [b \in Builders |-> Idle]
        /\ UNCHANGED <<cfgMem, compiled, marked, wanted>>
  /\ UNCHANGED <<exe, next, args, cfgFile, host, toolVars, crashes>>

-----------------------------------------------------------------------------
RebuildSteps(b) ==
  CannotBuild(b) \/ BuildFails(b) \/ Builds(b) \/ SelfChecks(b) \/ Swaps(b)

ProcessSteps ==
  SupervisorStarts \/ Converges \/ ReExecs \/ Activates \/ DrainsForHandover \/ HandsOver

PluginNext ==
  \/ \E c \in SUBSET (GoPlugins \cup {Bridge}), n, f \in SUBSET (Catalogue \cup {Bridge}) :
       Deploys(c, n, f)
  \/ ProcessSteps
  \/ \E b \in Builders : RebuildSteps(b)
  \/ \E i \in Installers : RecordsAndArms(i) \/ \E p \in Catalogue : Installs(i, p)
  \/ \E hostToo \in BOOLEAN : Crashes(hostToo)

-----------------------------------------------------------------------------
(* Properties.                                                               *)

\* Whatever a build yields and wherever the process dies, the executable on
\* disk is one that starts: only a binary that passed its selfcheck replaces
\* it, or a supervisor would restart into the same panic (converge.go, Rebuild).
ExecutableBoots == proc # "undeployed" => exe.boots

\* A plugin that was installed and recorded is in the executable from then on,
\* whatever is installed, converged or interrupted later.
InstalledStaysBuilt == MissingFrom(exe.carries, recorded) = {}

\* Whenever the process is killed, what is on disk starts and is complete.
DiskIsSound == ExecutableBoots /\ InstalledStaysBuilt

\* And its tools are there once the handover is over.
InstalledBecomesLive == \A p \in GoPlugins : p \in recorded ~> p \in live

(* What the code's comments say and the code does not keep.                  *)

\* "Rebuilding with only the new name would drop the plugins this installation
\* already runs" (plugin_manage.go): nothing that is live is dropped.
InstallKeepsPlugins ==
  [][\A i \in Installers :
       At(i, "checked") /\ exe' # exe => MissingFrom(exe'.carries, live) = {}]_pluginVars

\* "There is ONE state": a plugin is in the binary and live, or it is not
\* installed (registry.go), as plugin_list tells it.
OneState ==
  proc = "serving" /\ host.up
  => \A p \in Catalogue : MissingFrom(compiled, {p}) = {} => p \in live
=============================================================================
