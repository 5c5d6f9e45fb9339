--------------------------- MODULE NetstackTokens ---------------------------
(***************************************************************************)
(* Token accounting of Netstack: a token channel holds exactly the flows   *)
(* between the send and the receive, within its capacity.                  *)
(***************************************************************************)
EXTENDS NetstackProofs, FiniteSetTheorems, TLAPS

\* Adding one flow below the limit, or removing flows, keeps to the limit.
LEMMA AddWithinLimit ==
  ASSUME NEW S, IsFiniteSet(S), NEW x, NEW n \in Nat, Cardinality(S) < n
  PROVE  Cardinality(S \cup {x}) <= n
<1>1. Cardinality(S) \in Nat
  BY FS_CardinalityType
<1>2. Cardinality(S \cup {x}) \in {Cardinality(S), Cardinality(S) + 1}
  BY FS_AddElement
<1>3. QED
  BY <1>1, <1>2

LEMMA RemoveWithinLimit ==
  ASSUME NEW S, IsFiniteSet(S), NEW T \in SUBSET S, NEW n \in Nat, Cardinality(S) <= n
  PROVE  Cardinality(T) <= n
BY FS_Subset, FS_CardinalityType

\* A step that neither takes nor returns a token.
LEMMA TokensKept ==
  ASSUME IInv, TokensExact, UNCHANGED tokens,
         \A f \in Flow : (fpc'[f] \in HoldsToken <=> fpc[f] \in HoldsToken),
         \A f \in Flow : fpc[f] \in HoldsToken => home'[f] = home[f]
  PROVE  TokensExact'
BY ZenonT(60) DEF TokensExact

\* Taking a token below the limit of the flow's kind.
LEMMA TokenTaken ==
  ASSUME IInv, TokensExact, NEW f \in Flow, TakeToken(f), home[f] \in Runtime, UNCHANGED home,
         fpc[f] \notin HoldsToken, FlowGoto(f, "accepted"),
         f \in TcpFlow => TcpTokenFree(home[f]), f \in UdpFlow => UdpTokenFree(home[f])
  PROVE  TokensExact'
<1> DEFINE r == home[f]
<1>1. tokens \in [Runtime -> SUBSET Flow] /\ fpc \in [Flow -> FlowPC]
  BY DEF IInv, TypeOK
<1>2. tokens'[r] = tokens[r] \cup {f} /\ \A q \in Runtime : q # r => tokens'[q] = tokens[q]
  BY <1>1 DEF TakeToken
<1>3. \A q \in Runtime, g \in Flow : g \in tokens'[q] <=> (home'[g] = q /\ fpc'[g] \in HoldsToken)
  <2>0. \A q \in Runtime, g \in Flow : g \in tokens[q] <=> (home[g] = q /\ fpc[g] \in HoldsToken)
    BY ZenonT(60) DEF TokensExact
  <2>1. fpc'[f] = "accepted" /\ \A g \in Flow : g # f => fpc'[g] = fpc[g]
    BY <1>1 DEF FlowGoto
  <2>2. \A q \in Runtime : f \in tokens'[q] <=> (home'[f] = q /\ fpc'[f] \in HoldsToken)
    BY <1>2, <2>0, <2>1 DEF HoldsToken, Relaying
  <2>3. \A q \in Runtime, g \in Flow : g # f => (g \in tokens'[q] <=> g \in tokens[q])
    BY <1>2
  <2>4. QED
    BY <2>0, <2>1, <2>2, <2>3
<1>4. IsFiniteSet(tokens[r] \cap TcpFlow) /\ IsFiniteSet(tokens[r] \cap UdpFlow)
  BY ZenonT(60), NetstackConstants, FS_Intersection
<1>5. CASE f \in TcpFlow
  <2>1. (tokens'[r] \cap TcpFlow) = (tokens[r] \cap TcpFlow) \cup {f}
    BY <1>2, <1>5
  <2>2. tokens'[r] \cap UdpFlow = tokens[r] \cap UdpFlow
    BY <1>2, <1>5, NetstackConstants
  <2>3. Cardinality(tokens'[r] \cap TcpFlow) <= MaxTCP
    BY SMTT(60), <1>4, <1>5, <2>1, AddWithinLimit, NetstackConstants DEF TcpTokenFree
  <2>4. QED
    BY ZenonT(60), <1>2, <1>3, <2>2, <2>3 DEF TokensExact
<1>6. CASE f \in UdpFlow
  <2>1. (tokens'[r] \cap UdpFlow) = (tokens[r] \cap UdpFlow) \cup {f}
    BY <1>2, <1>6
  <2>2. tokens'[r] \cap TcpFlow = tokens[r] \cap TcpFlow
    BY <1>2, <1>6, NetstackConstants
  <2>3. Cardinality(tokens'[r] \cap UdpFlow) <= MaxUDP
    BY ZenonT(60), <1>4, <1>6, <2>1, AddWithinLimit, NetstackConstants DEF UdpTokenFree
  <2>4. QED
    BY ZenonT(60), <1>2, <1>3, <2>2, <2>3 DEF TokensExact
<1>7. QED
  BY <1>5, <1>6 DEF Flow

\* Returning the token a flow holds.
LEMMA TokenReturned ==
  ASSUME IInv, TokensExact, NEW f \in Flow, ReturnToken(f), home[f] \in Runtime, UNCHANGED home,
         NEW label \in {"done", "ended"}, FlowGoto(f, label)
  PROVE  TokensExact'
<1> DEFINE r == home[f]
<1>1. tokens \in [Runtime -> SUBSET Flow] /\ fpc \in [Flow -> FlowPC]
  BY DEF IInv, TypeOK
<1>2. tokens'[r] = tokens[r] \ {f} /\ \A q \in Runtime : q # r => tokens'[q] = tokens[q]
  BY <1>1 DEF ReturnToken
<1>3. \A q \in Runtime, g \in Flow : g \in tokens'[q] <=> (home'[g] = q /\ fpc'[g] \in HoldsToken)
  <2>0. \A q \in Runtime, g \in Flow : g \in tokens[q] <=> (home[g] = q /\ fpc[g] \in HoldsToken)
    BY ZenonT(60) DEF TokensExact
  <2>1. fpc'[f] = label /\ \A g \in Flow : g # f => fpc'[g] = fpc[g]
    BY <1>1 DEF FlowGoto
  <2>2. \A q \in Runtime : f \in tokens'[q] <=> (home'[f] = q /\ fpc'[f] \in HoldsToken)
    BY <1>2, <2>0, <2>1 DEF HoldsToken, Relaying
  <2>3. \A q \in Runtime, g \in Flow : g # f => (g \in tokens'[q] <=> g \in tokens[q])
    BY <1>2
  <2>4. QED
    BY <2>0, <2>1, <2>2, <2>3
<1>4. IsFiniteSet(tokens[r] \cap TcpFlow) /\ IsFiniteSet(tokens[r] \cap UdpFlow)
  BY ZenonT(60), NetstackConstants, FS_Intersection
<1>5. Cardinality(tokens'[r] \cap TcpFlow) <= MaxTCP
  BY <1>2, <1>4, RemoveWithinLimit, NetstackConstants DEF TokensExact
<1>6. Cardinality(tokens'[r] \cap UdpFlow) <= MaxUDP
  BY <1>2, <1>4, RemoveWithinLimit, NetstackConstants DEF TokensExact
<1>7. QED
  BY ZenonT(60), <1>2, <1>3, <1>5, <1>6 DEF TokensExact

\* Every step keeps the token accounting exact.
LEMMA TokenStep ==
  ASSUME IInv, TokensExact, [Next]_vars
  PROVE  TokensExact'
<1>0. /\ \A f \in Flow : fpc[f] # "none" => home[f] \in Runtime
      /\ fpc \in [Flow -> FlowPC]
      /\ \A t \in Pump : pc[t] \in InUdp => req[t] \in UdpFlow
      /\ \A t \in Pump : pc[t] = "udp" => fpc[req[t]] = "handler"
      /\ \A t \in Pump : pc[t] \in InUdpChecks => fpc[req[t]] = "accepted"
      /\ \A t \in Pump : pc[t] = "udp_start" => fpc[req[t]] = "ready"
  BY DEF IInv, TypeOK, FlowInv, Thread
<1> USE NetstackConstants DEF Flow, InUdp, InUdpChecks, HoldsToken, Relaying
<1>1. ASSUME NEW t \in Control, ControlCall(t) \/ ControlContinues(t) \/ NetstackStopClear(t)
      PROVE  TokensExact'
  <2>1. UNCHANGED flowVars
    BY <1>1 DEF ControlCall, ControlContinues, StartJSON, StartJSONFails, NetstackStart, NetstackStartFails,
       StopIdle, StopLock, NetstackStop, SwapRuntime, StopSwap, StopInstance, CloseAnnounce, CloseMark,
       CloseStack, CloseWait, NetstackStopClear, vars, flowVars
  <2>2. QED
    BY <2>1, Zenon DEF TokensExact, flowVars
<1>2. ASSUME NEW t \in Pump, WritePacket(t) \/ InjectRefused(t) \/ InjectLock(t) \/ InjectData(t)
      PROVE  TokensExact'
  <2>1. UNCHANGED flowVars
    BY <1>2 DEF WritePacket, InjectRefused, InjectLock, InjectData, flowVars
  <2>2. QED
    BY <2>1, Zenon DEF TokensExact, flowVars
<1>3. ASSUME NEW t \in Pump, NEW f \in Flow, InjectTCP(t, f) \/ InjectUDP(t, f)
      PROVE  TokensExact'
  <2>1. CASE InjectTCP(t, f)
    BY <1>0, <2>1, TokensKept DEF InjectTCP, FlowGoto
  <2>2. CASE InjectUDP(t, f)
    BY <1>0, <2>2, TokensKept DEF InjectUDP, FlowGoto
  <2>3. QED
    BY <1>3, <2>1, <2>2
<1>4. ASSUME NEW t \in Pump, UdpToken(t) PROVE TokensExact'
  BY <1>0, <1>4, TokenTaken DEF UdpToken
<1>5. ASSUME NEW t \in Pump, UdpNoToken(t) \/ UdpDialed(t) PROVE TokensExact'
  <2>1. CASE UdpNoToken(t)
    BY <1>0, <2>1, TokensKept DEF UdpNoToken, FlowGoto
  <2>2. CASE UdpDialed(t)
    BY <1>0, <2>2, TokensKept DEF UdpDialed, FlowGoto
  <2>3. QED
    BY <1>5, <2>1, <2>2
<1>6. ASSUME NEW t \in Pump, UdpAddress(t) \/ UdpRoute(t) \/ UdpEndpoint(t) \/ UdpDialFails(t)
      PROVE  TokensExact'
  <2>1. ASSUME NEW at \in InUdpChecks, UdpFails(t, at) PROVE TokensExact'
    BY <1>0, <2>1, TokenReturned DEF UdpFails
  <2>2. ASSUME NEW at \in InUdpChecks, NEW next \in InUdpChecks, UdpPasses(t, at, next)
        PROVE  TokensExact'
    <3>1. UNCHANGED flowVars
      BY <2>2 DEF UdpPasses
    <3>2. QED
      BY <3>1, Zenon DEF TokensExact, flowVars
  <2>3. QED
    BY <1>6, <2>1, <2>2 DEF UdpAddress, UdpRoute, UdpEndpoint, UdpDialFails
<1>7. ASSUME NEW f \in Flow, fpc[f] = "ready", UNCHANGED home, StartWork(f)
      PROVE  TokensExact'
  <2>1. CASE closed[home[f]]
    BY <1>0, <1>7, <2>1, TokenReturned DEF StartWork
  <2>2. CASE ~closed[home[f]]
    BY <1>0, <1>7, <2>2, TokensKept DEF StartWork, FlowGoto
  <2>3. QED
    BY <2>1, <2>2
<1>8. ASSUME NEW t \in Pump, UdpStart(t) PROVE TokensExact'
  BY <1>0, <1>7, <1>8 DEF UdpStart
<1>9. ASSUME NEW f \in TcpFlow, TcpHandler(f) PROVE TokensExact'
  <2>1. CASE TcpToken(f)
    BY <1>0, <2>1, TokenTaken DEF TcpToken
  <2>2. CASE TcpNoToken(f) \/ TcpEndpoint(f) \/ TcpReady(f)
    BY <1>0, <2>2, TokensKept DEF TcpNoToken, TcpEndpoint, TcpReady, FlowGoto
  <2>3. CASE TcpNoEndpoint(f) \/ TcpBadAddress(f)
    BY <1>0, <2>3, TokenReturned DEF TcpNoEndpoint, TcpBadAddress
  <2>4. CASE TcpStart(f)
    BY <1>0, <1>7, <2>4 DEF TcpStart
  <2>5. QED
    BY <1>9, <2>1, <2>2, <2>3, <2>4 DEF TcpHandler
<1>10. ASSUME NEW f \in Flow, Worker(f) \/ WorkEnds(f) \/ WorkBlocks(f) \/ WorkUnblocks(f)
       PROVE  TokensExact'
  <2>1. CASE WorkAborted(f) \/ WorkEnds(f) \/ WorkBlocks(f) \/ WorkUnblocks(f)
    BY <1>0, <2>1, TokensKept DEF WorkAborted, WorkEnds, WorkBlocks, WorkUnblocks, FlowGoto
  <2>2. CASE WorkDone(f)
    BY <1>0, <2>2, TokensKept DEF WorkDone, FlowGoto
  <2>3. CASE WorkRelease(f)
    BY <1>0, <2>3, TokenReturned DEF WorkRelease
  <2>4. QED
    BY <1>10, <2>1, <2>2, <2>3 DEF Worker
<1>11. CASE UNCHANGED vars
  BY <1>11, Zenon DEF vars, flowVars, TokensExact
<1>12. QED
  BY <1>1, <1>2, <1>3, <1>4, <1>5, <1>6, <1>8, <1>9, <1>10, <1>11 DEF Next, PumpContinues

-----------------------------------------------------------------------------
\* Flow tokens are held exactly by the flows in progress and never exceed
\* netstackMaxConcurrentTCP and netstackMaxConcurrentUDP.
THEOREM TokenAccounting == Spec => []TokensExact
<1>1. Init => TokensExact
  <2> SUFFICES ASSUME Init, NEW r \in Runtime
               PROVE  /\ \A f \in Flow : f \in tokens[r] <=> (home[f] = r /\ fpc[f] \in HoldsToken)
                      /\ Cardinality(tokens[r] \cap TcpFlow) <= MaxTCP
                      /\ Cardinality(tokens[r] \cap UdpFlow) <= MaxUDP
    BY ZenonT(60) DEF TokensExact
  <2>1. tokens[r] = {} /\ \A f \in Flow : fpc[f] = "none"
    BY DEF Init
  <2>2. Cardinality(tokens[r] \cap TcpFlow) = 0 /\ Cardinality(tokens[r] \cap UdpFlow) = 0
    <3>1. tokens[r] \cap TcpFlow = {} /\ tokens[r] \cap UdpFlow = {}
      BY <2>1
    <3>2. QED
      BY <3>1, FS_EmptySet
  <2>3. QED
    BY <2>1, <2>2, NetstackConstants DEF HoldsToken, Relaying
<1>2. IInv /\ TokensExact /\ [Next]_vars => TokensExact'
  BY TokenStep
<1>3. QED
  BY <1>1, <1>2, Invariant, PTL DEF Spec
=============================================================================
