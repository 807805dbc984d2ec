---------------------------- MODULE PartsProofs ----------------------------
(***************************************************************************)
(* The parts of MCParts together: whichever is explored, it is a behaviour *)
(* of that part alone, so what is proved of the part holds of the run.     *)
(***************************************************************************)
EXTENDS MCParts, ExtensionProofs, StoredStateProofs, ModelReplyProofs, RunPartsProofs

Exploring(x) == part = x

\* A behaviour explores one part, and the part takes its own steps.
LEMMA PartIsKept ==
  [PartsNext]_partsVars => part' = part
BY DEF PartsNext, partsVars

LEMMA BridgeExplored ==
  PartsSpec /\ Exploring("bridge") =>
    BridgeInit /\ [][BridgeNext]_bridgeVars /\ []Exploring("bridge")
<1>1. PartsInit /\ Exploring("bridge") => BridgeInit
  BY DEF PartsInit, Exploring
<1>2. Exploring("bridge") /\ [PartsNext]_partsVars => Exploring("bridge")'
  BY PartIsKept DEF Exploring
<1>3. Exploring("bridge") /\ [PartsNext]_partsVars =>
        [BridgeNext]_bridgeVars
  BY DEF Exploring, PartsNext, partsVars
<1> QED
  BY <1>1, <1>2, <1>3, PTL DEF PartsSpec

LEMMA ConversationExplored ==
  PartsSpec /\ Exploring("conversation") =>
    ConversationInit /\ [][ConversationNext]_conversationVars /\ []Exploring("conversation")
<1>1. PartsInit /\ Exploring("conversation") => ConversationInit
  BY DEF PartsInit, Exploring
<1>2. Exploring("conversation") /\ [PartsNext]_partsVars => Exploring("conversation")'
  BY PartIsKept DEF Exploring
<1>3. Exploring("conversation") /\ [PartsNext]_partsVars =>
        [ConversationNext]_conversationVars
  BY DEF Exploring, PartsNext, partsVars
<1> QED
  BY <1>1, <1>2, <1>3, PTL DEF PartsSpec

LEMMA WiringExplored ==
  PartsSpec /\ Exploring("wiring") =>
    WiringInit /\ [][WiringNext]_wiringVars /\ []Exploring("wiring")
<1>1. PartsInit /\ Exploring("wiring") => WiringInit
  BY DEF PartsInit, Exploring
<1>2. Exploring("wiring") /\ [PartsNext]_partsVars => Exploring("wiring")'
  BY PartIsKept DEF Exploring
<1>3. Exploring("wiring") /\ [PartsNext]_partsVars =>
        [WiringNext]_wiringVars
  BY DEF Exploring, PartsNext, partsVars
<1> QED
  BY <1>1, <1>2, <1>3, PTL DEF PartsSpec

LEMMA BudgetExplored ==
  PartsSpec /\ Exploring("budget") =>
    BudgetInit /\ [][BudgetNext]_budgetVars /\ []Exploring("budget")
<1>1. PartsInit /\ Exploring("budget") => BudgetInit
  BY DEF PartsInit, Exploring
<1>2. Exploring("budget") /\ [PartsNext]_partsVars => Exploring("budget")'
  BY PartIsKept DEF Exploring
<1>3. Exploring("budget") /\ [PartsNext]_partsVars =>
        [BudgetNext]_budgetVars
  BY DEF Exploring, PartsNext, partsVars
<1> QED
  BY <1>1, <1>2, <1>3, PTL DEF PartsSpec

LEMMA PeriodicExplored ==
  PartsSpec /\ Exploring("periodic") =>
    PeriodicInit /\ [][PeriodicNext]_periodicVars /\ []Exploring("periodic")
<1>1. PartsInit /\ Exploring("periodic") => PeriodicInit
  BY DEF PartsInit, Exploring
<1>2. Exploring("periodic") /\ [PartsNext]_partsVars => Exploring("periodic")'
  BY PartIsKept DEF Exploring
<1>3. Exploring("periodic") /\ [PartsNext]_partsVars =>
        [PeriodicNext]_periodicVars
  BY DEF Exploring, PartsNext, partsVars
<1> QED
  BY <1>1, <1>2, <1>3, PTL DEF PartsSpec

LEMMA PluginExplored ==
  PartsSpec /\ Exploring("plugins") =>
    PluginInit /\ [][PluginNext]_pluginVars /\ []Exploring("plugins")
<1>1. PartsInit /\ Exploring("plugins") => PluginInit
  BY DEF PartsInit, Exploring
<1>2. Exploring("plugins") /\ [PartsNext]_partsVars => Exploring("plugins")'
  BY PartIsKept DEF Exploring
<1>3. Exploring("plugins") /\ [PartsNext]_partsVars =>
        [PluginNext]_pluginVars
  BY DEF Exploring, PartsNext, partsVars
<1> QED
  BY <1>1, <1>2, <1>3, PTL DEF PartsSpec

LEMMA ServiceExplored ==
  PartsSpec /\ Exploring("services") =>
    ServiceInit /\ [][ServiceNext]_serviceVars /\ []Exploring("services")
<1>1. PartsInit /\ Exploring("services") => ServiceInit
  BY DEF PartsInit, Exploring
<1>2. Exploring("services") /\ [PartsNext]_partsVars => Exploring("services")'
  BY PartIsKept DEF Exploring
<1>3. Exploring("services") /\ [PartsNext]_partsVars =>
        [ServiceNext]_serviceVars
  BY DEF Exploring, PartsNext, partsVars
<1> QED
  BY <1>1, <1>2, <1>3, PTL DEF PartsSpec

LEMMA DispatchExplored ==
  PartsSpec /\ Exploring("dispatch") =>
    DispatchInit /\ [][DispatchNext]_dispatchVars /\ []Exploring("dispatch")
<1>1. PartsInit /\ Exploring("dispatch") => DispatchInit
  BY DEF PartsInit, Exploring
<1>2. Exploring("dispatch") /\ [PartsNext]_partsVars => Exploring("dispatch")'
  BY PartIsKept DEF Exploring
<1>3. Exploring("dispatch") /\ [PartsNext]_partsVars =>
        [DispatchNext]_dispatchVars
  BY DEF Exploring, PartsNext, partsVars
<1> QED
  BY <1>1, <1>2, <1>3, PTL DEF PartsSpec

LEMMA StreamExplored ==
  PartsSpec /\ Exploring("stream") =>
    StreamInit /\ [][StreamNext]_streamVars /\ []Exploring("stream")
<1>1. PartsInit /\ Exploring("stream") => StreamInit
  BY DEF PartsInit, Exploring
<1>2. Exploring("stream") /\ [PartsNext]_partsVars => Exploring("stream")'
  BY PartIsKept DEF Exploring
<1>3. Exploring("stream") /\ [PartsNext]_partsVars =>
        [StreamNext]_streamVars
  BY DEF Exploring, PartsNext, partsVars
<1> QED
  BY <1>1, <1>2, <1>3, PTL DEF PartsSpec

LEMMA ProviderExplored ==
  PartsSpec /\ Exploring("provider") =>
    ProviderInit /\ [][ProviderNext]_providerVars /\ []Exploring("provider")
<1>1. PartsInit /\ Exploring("provider") => ProviderInit
  BY DEF PartsInit, Exploring
<1>2. Exploring("provider") /\ [PartsNext]_partsVars => Exploring("provider")'
  BY PartIsKept DEF Exploring
<1>3. Exploring("provider") /\ [PartsNext]_partsVars =>
        [ProviderNext]_providerVars
  BY DEF Exploring, PartsNext, partsVars
<1> QED
  BY <1>1, <1>2, <1>3, PTL DEF PartsSpec

LEMMA BuildExplored ==
  PartsSpec /\ Exploring("build") =>
    BuildInit /\ [][BuildNext]_buildVars /\ []Exploring("build")
<1>1. PartsInit /\ Exploring("build") => BuildInit
  BY DEF PartsInit, Exploring
<1>2. Exploring("build") /\ [PartsNext]_partsVars => Exploring("build")'
  BY PartIsKept DEF Exploring
<1>3. Exploring("build") /\ [PartsNext]_partsVars =>
        [BuildNext]_buildVars
  BY DEF Exploring, PartsNext, partsVars
<1> QED
  BY <1>1, <1>2, <1>3, PTL DEF PartsSpec

\* Whichever part of MCParts is explored, from the bridge to the graft of a
\* blueprint, its variables keep their types, for every value of the constants
\* with which a step reads one other and conversations have finitely many requests
\* and compactors.
THEOREM PartsTypeCorrect ==
  ASSUME ReadsOne, IsFiniteSet(Requests), IsFiniteSet(Compactors)
  PROVE  PartsSpec => []PartsTypeOK
<1>1. PartsSpec /\ Exploring("bridge") => []PartsTypeOK
  <2>1. Exploring("bridge") /\ BridgeTypeOK => PartsTypeOK
    BY DEF Exploring, PartsTypeOK
  <2> QED
    BY <2>1, BridgeExplored, BridgeTypeCorrect, PTL
<1>2. PartsSpec /\ Exploring("conversation") => []PartsTypeOK
  <2>1. Exploring("conversation") /\ ConversationTypeOK => PartsTypeOK
    BY DEF Exploring, PartsTypeOK
  <2> QED
    BY <2>1, ConversationExplored, ConversationTypeCorrect, PTL DEF ConversationSpec
<1>3. PartsSpec /\ Exploring("wiring") => []PartsTypeOK
  <2>1. Exploring("wiring") /\ WiringTypeOK => PartsTypeOK
    BY DEF Exploring, PartsTypeOK
  <2> QED
    BY <2>1, WiringExplored, WiringTypeCorrect, PTL DEF WiringSpec
<1>4. PartsSpec /\ Exploring("budget") => []PartsTypeOK
  <2>1. Exploring("budget") /\ BudgetTypeOK => PartsTypeOK
    BY DEF Exploring, PartsTypeOK
  <2> QED
    BY <2>1, BudgetExplored, BudgetTypeCorrect, PTL DEF BudgetSpec
<1>5. PartsSpec /\ Exploring("periodic") => []PartsTypeOK
  <2>1. Exploring("periodic") /\ PeriodicTypeOK => PartsTypeOK
    BY DEF Exploring, PartsTypeOK
  <2> QED
    BY <2>1, PeriodicExplored, PeriodicTypeCorrect, PTL DEF PeriodicSpec
<1>6. PartsSpec /\ Exploring("plugins") => []PartsTypeOK
  <2>1. Exploring("plugins") /\ PluginTypeOK => PartsTypeOK
    BY DEF Exploring, PartsTypeOK
  <2> QED
    BY <2>1, PluginExplored, PluginTypeCorrect, PTL
<1>7. PartsSpec /\ Exploring("services") => []PartsTypeOK
  <2>1. Exploring("services") /\ ServiceTypeOK => PartsTypeOK
    BY DEF Exploring, PartsTypeOK
  <2> QED
    BY <2>1, ServiceExplored, ServiceTypeCorrect, PTL
<1>8. PartsSpec /\ Exploring("dispatch") => []PartsTypeOK
  <2>1. Exploring("dispatch") /\ DispatchTypeOK => PartsTypeOK
    BY DEF Exploring, PartsTypeOK
  <2> QED
    BY <2>1, DispatchExplored, DispatchTypeCorrect, PTL
<1>9. PartsSpec /\ Exploring("stream") => []PartsTypeOK
  <2>1. Exploring("stream") /\ StreamTypeOK => PartsTypeOK
    BY DEF Exploring, PartsTypeOK
  <2> QED
    BY <2>1, StreamExplored, StreamTypeCorrect, PTL
<1>10. PartsSpec /\ Exploring("provider") => []PartsTypeOK
  <2>1. Exploring("provider") /\ ProviderTypeOK => PartsTypeOK
    BY DEF Exploring, PartsTypeOK
  <2> QED
    BY <2>1, ProviderExplored, ProviderTypeCorrect, PTL DEF ProviderSpec
<1>11. PartsSpec /\ Exploring("build") => []PartsTypeOK
  <2>1. Exploring("build") /\ BuildTypeOK => PartsTypeOK
    BY DEF Exploring, PartsTypeOK
  <2> QED
    BY <2>1, BuildExplored, BuildTypes, PTL DEF BuildSpec
<1>12. PartsSpec => \/ Exploring("bridge")
                   \/ Exploring("conversation")
                   \/ Exploring("wiring")
                   \/ Exploring("budget")
                   \/ Exploring("periodic")
                   \/ Exploring("plugins")
                   \/ Exploring("services")
                   \/ Exploring("dispatch")
                   \/ Exploring("stream")
                   \/ Exploring("provider")
                   \/ Exploring("build")
  BY PartsAssumption DEF PartsSpec, PartsInit, Exploring
<1> QED
  BY <1>1, <1>2, <1>3, <1>4, <1>5, <1>6, <1>7, <1>8, <1>9, <1>10, <1>11, <1>12
=============================================================================
