------------------------------ MODULE MCParts ------------------------------
(***************************************************************************)
(* Parts of the system that share no state with each other, explored one   *)
(* after the other by one run: a behaviour picks a part and is a behaviour *)
(* of it, fair to it in FairPartsSpec.                                     *)
(***************************************************************************)
EXTENDS BrowserBridge, Conversation, PlanWiring, RunBudget, PeriodicTasks,
        PluginSet, ServiceManager, ToolDispatch, EventStream,
        ProviderCalls, ArchitectGraft

CONSTANTS
  Parts,       \* which of the parts are explored
  stepA, stepOld,           \* names of steps: one of the plan, one of a finished step
  svc1, svc2, cmd1, cmd2    \* names and commands of services

ASSUME PartsAssumption ==
  Parts \subseteq {"bridge", "conversation", "wiring", "budget", "periodic", "plugins",
                   "services", "dispatch", "stream", "provider", "build"}

VARIABLE part

-----------------------------------------------------------------------------
(* The plans a model may send: every pair of steps of many shapes, and every *)
(* three of fewer.                                                           *)
Raw(tool, name, after, refs) ==
  [tool |-> tool, name |-> name, after |-> after, reads |-> refs]
UpToOne(S) == {{}} \cup {{e} : e \in S}

Shapes ==
  {Raw(tool, name, after, refs) :
     tool \in {"tool", "compute", "unknown"}, name \in {stepA, NoName},
     after \in UpToOne({Pos(1), Pos(2), Named(stepA)}),
     refs \in UpToOne({Pos(1), Pos(2), Pos(3), Named(stepA), Named(stepOld)})}

Narrow ==
  {Raw(tool, NoName, {}, refs) :
     tool \in {"tool", "unknown"}, refs \in UpToOne({Pos(1), Pos(2), Pos(3)})}
  \cup {Raw("tool", stepA, {}, refs) : refs \in UpToOne({Named(stepA), Pos(2)})}
  \cup {Raw("tool", NoName, {e}, {}) : e \in {Named(stepA), Pos(3)}}

MCRawPlans == (Shapes \X Shapes) \cup (Narrow \X Narrow \X Narrow)

\* Plan wiring while another part is explored: nothing left to do.
WiringAtRest ==
  /\ door = "call" /\ room = 1 /\ phase = "wired" /\ corrections = 0
  /\ plan = <<>> /\ agreed = <<>> /\ nodes = <<>>

\* The same of the graft.
BuildAtRest ==
  /\ buildPlan = [steps |-> <<>>, answers |-> {}, room |-> 0, letters |-> 0, cancels |-> 0] /\ build = <<>>
  /\ blueprint = <<>> /\ runGrafted = {}
  /\ spent = 0 /\ letters = 0 /\ sentLetters = 0 /\ cancels = 0

-----------------------------------------------------------------------------
Usual == [task \in Tasks |-> 4]
AtLeast == [task \in Tasks |-> 3]
AtMost == [task \in Tasks |-> 6]

\* One port, which both services ask for: one of them is brought back when it
\* dies, the other is not; or a service started with another command.
MCStartable ==
  {[name |-> svc1, command |-> cmd1, port |-> 80, auto |-> TRUE],
   [name |-> IF svc2 \in Names THEN svc2 ELSE svc1,
    command |-> IF svc2 \in Names THEN cmd1 ELSE cmd2, port |-> 80, auto |-> FALSE]}

Ask(by, service, intent, inScope, target) ==
  [by |-> by, service |-> service, impact |-> 1, intent |-> intent,
   inScope |-> inScope, target |-> target]

\* Calls to a throttled service, one beyond the run's intent, one of the ReAct
\* loop to a target it may not use, and one for another target out of scope.
MCAsks ==
  {Ask("plan", service, 1, TRUE, 1) : service \in Services}
  \cup {Ask("plan", NoService, 0, TRUE, 1), Ask("react", NoService, 1, TRUE, 0),
        Ask("remote", NoService, 1, FALSE, 1)}

-----------------------------------------------------------------------------
Planned(kind, after) == [kind |-> kind, after |-> after]
Task(after, execute, service) == [after |-> after, execute |-> execute, service |-> service]
Blueprint(setup, tasks, services, checks) ==
  [setup |-> setup, tasks |-> tasks, services |-> services, checks |-> checks]

\* Three tasks in many orders, some of which cannot be honoured.
Orders ==
  {Blueprint(0, <<Task(w1, cmd1, NoCommand), Task(w2, NoCommand, NoCommand),
                  Task(w3, NoCommand, NoCommand)>>, <<>>, 0) :
     w1 \in {{}, {1}, {2}, {3}}, w2 \in {{}, {1}, {3}}, w3 \in {{}, {1}, {2}, {1, 2, 4}}}

\* Two tasks, one of which has to be run, and services: its own, one of the
\* same name, and one that needs what the first task runs.
FullBuild ==
  Blueprint(2, <<Task({}, cmd1, NoCommand), Task({}, cmd2, cmd2)>>,
            <<[command |-> cmd2, needs |-> {}], [command |-> svc1, needs |-> {1}]>>, 1)

SmallBuild == Blueprint(0, <<Task({}, cmd1, svc1)>>, <<>>, 1)


\* An architect and a step that waits for it, with room for all or not; one that
\* is built while the operator writes and an observer cancels; an architect that
\* waits for another; two at once.
Build(steps, answers, most, n) ==
  [steps |-> steps, answers |-> answers, room |-> most, letters |-> n, cancels |-> n]

MCBuildPlans ==
  {Build(<<Planned("architect", {}), Planned("step", {1})>>, Orders, 8, 0)}
  \cup {Build(<<Planned("architect", {}), Planned("step", {1})>>, {FullBuild}, n, 0) :
          n \in {8, 13}}
  \cup {Build(<<Planned("architect", {}), Planned("step", {1}), Planned("step", {2})>>,
               {SmallBuild}, 8, 1),
         Build(<<Planned("compute", {}), Planned("step", {1}), Planned("step", {})>>, {}, 5, 1),
         Build(<<Planned("architect", {}), Planned("architect", {1}), Planned("step", {2})>>,
               {SmallBuild}, 12, 0),
         Build(<<Planned("architect", {}), Planned("architect", {}), Planned("step", {1, 2})>>,
               {SmallBuild}, 12, 0)}

-----------------------------------------------------------------------------
PartsInit ==
  /\ part \in Parts
  /\ BridgeInit /\ ConversationInit /\ BudgetInit
  /\ IF part = "wiring" THEN WiringInit ELSE WiringAtRest
  /\ PeriodicInit /\ PluginInit /\ ServiceInit /\ DispatchInit /\ StreamInit
  /\ ProviderInit
  /\ IF part = "build" THEN BuildInit ELSE BuildAtRest

partsVars ==
  <<part, bridgeVars, conversationVars, wiringVars, budgetVars, periodicVars,
    pluginVars, serviceVars, dispatchVars, streamVars, providerVars,
    buildVars>>

PartsNext ==
  \/ /\ part = "bridge" /\ BridgeNext
     /\ UNCHANGED <<part, conversationVars, wiringVars, budgetVars, periodicVars,
                    pluginVars, serviceVars, dispatchVars, streamVars, providerVars, buildVars>>
  \/ /\ part = "conversation" /\ ConversationNext
     /\ UNCHANGED <<part, bridgeVars, wiringVars, budgetVars, periodicVars,
                    pluginVars, serviceVars, dispatchVars, streamVars, providerVars, buildVars>>
  \/ /\ part = "wiring" /\ WiringNext
     /\ UNCHANGED <<part, bridgeVars, conversationVars, budgetVars, periodicVars,
                    pluginVars, serviceVars, dispatchVars, streamVars, providerVars, buildVars>>
  \/ /\ part = "budget" /\ BudgetNext
     /\ UNCHANGED <<part, bridgeVars, conversationVars, wiringVars, periodicVars,
                    pluginVars, serviceVars, dispatchVars, streamVars, providerVars, buildVars>>
  \/ /\ part = "periodic" /\ PeriodicNext
     /\ UNCHANGED <<part, bridgeVars, conversationVars, wiringVars, budgetVars,
                    pluginVars, serviceVars, dispatchVars, streamVars, providerVars, buildVars>>
  \/ /\ part = "plugins" /\ PluginNext
     /\ UNCHANGED <<part, bridgeVars, conversationVars, wiringVars, budgetVars,
                    periodicVars, serviceVars, dispatchVars, streamVars, providerVars, buildVars>>
  \/ /\ part = "services" /\ ServiceNext
     /\ UNCHANGED <<part, bridgeVars, conversationVars, wiringVars, budgetVars,
                    periodicVars, pluginVars, dispatchVars, streamVars, providerVars, buildVars>>
  \/ /\ part = "dispatch" /\ DispatchNext
     /\ UNCHANGED <<part, bridgeVars, conversationVars, wiringVars, budgetVars,
                    periodicVars, pluginVars, serviceVars, streamVars, providerVars, buildVars>>
  \/ /\ part = "stream" /\ StreamNext
     /\ UNCHANGED <<part, bridgeVars, conversationVars, wiringVars, budgetVars,
                    periodicVars, pluginVars, serviceVars, dispatchVars, providerVars, buildVars>>
  \/ /\ part = "provider" /\ ProviderNext
     /\ UNCHANGED <<part, bridgeVars, conversationVars, wiringVars, budgetVars, periodicVars,
                    pluginVars, serviceVars, dispatchVars, streamVars, buildVars>>
  \/ /\ part = "build" /\ BuildNext
     /\ UNCHANGED <<part, bridgeVars, conversationVars, wiringVars, budgetVars, periodicVars,
                    pluginVars, serviceVars, dispatchVars, streamVars, providerVars>>

-----------------------------------------------------------------------------
\* The variables of the part explored keep their types.
PartsTypeOK ==
  CASE part = "bridge"       -> BridgeTypeOK
    [] part = "conversation" -> ConversationTypeOK
    [] part = "wiring"       -> WiringTypeOK
    [] part = "budget"       -> BudgetTypeOK
    [] part = "periodic"     -> PeriodicTypeOK
    [] part = "plugins"      -> PluginTypeOK
    [] part = "services"     -> ServiceTypeOK
    [] part = "dispatch"     -> DispatchTypeOK
    [] part = "stream"       -> StreamTypeOK
    [] part = "provider"     -> ProviderTypeOK
    [] part = "build"        -> BuildTypeOK

-----------------------------------------------------------------------------
PartsSpec == PartsInit /\ [][PartsNext]_partsVars

\* Goroutines and processes that can take a step do; timers, people, models,
\* builds and crashes need not come.
PartsFairness ==
  /\ \A task \in Tasks :
       /\ WF_periodicVars(part = "periodic" /\ TaskLoop(task))
       /\ WF_periodicVars(part = "periodic" /\ Poke(task))
  /\ WF_pluginVars(part = "plugins" /\ ProcessSteps)
  /\ \A b \in Builders : WF_pluginVars(part = "plugins" /\ RebuildSteps(b))
  /\ \A i \in Installers : WF_pluginVars(part = "plugins" /\ RecordsAndArms(i))
  /\ WF_serviceVars(part = "services" /\ ReapDead)
  /\ WF_serviceVars(part = "services" /\ ReviveNext)
  /\ WF_providerVars(part = "provider" /\ CoolsDown)
  /\ \A a \in Askers : WF_providerVars(part = "provider" /\ AskerSteps(a))
  /\ \A th \in Threads : WF_streamVars(part = "stream" /\ BroadcastSteps(th))

FairPartsSpec == PartsSpec /\ PartsFairness
=============================================================================
