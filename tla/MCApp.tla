------------------------------- MODULE MCApp -------------------------------
(***************************************************************************)
(* The two parts of the app that do not meet, the threads of the native    *)
(* node and the Wi-Fi Direct manager, checked in one run: a behaviour is   *)
(* one of either.                                                          *)
(***************************************************************************)
EXTENDS JniNode, WiFiDirect

VARIABLE part       \* what this behaviour is one of

nodeVars == vars
appVars == <<part, nodeVars, wifiVars>>

AppInit == part \in {"node", "wifi"} /\ Init /\ WiFiInit

NodePart(A) == part = "node" /\ A /\ UNCHANGED <<part, wifiVars>>
WiFiPart(A) == part = "wifi" /\ A /\ UNCHANGED <<part, nodeVars>>

AppNext ==
    \/ NodePart(Next)
    \/ WiFiPart(WiFiNext)
    \/ WiFiPart(UNCHANGED wifiVars)  \* the bounds are used up, or nobody acts

AppSpec ==
    /\ AppInit /\ [][AppNext]_appVars
    /\ \A t \in App : WF_appVars(NodePart(AppStep(t)))
    /\ WF_appVars(NodePart(Rx /\ ~ RxFrame /\ ~ RxError))
    /\ WF_appVars(NodePart(Ticker))
    /\ SF_appVars(NodePart(TickEnds)) /\ SF_appVars(NodePart(CallbackLocks))
    /\ WF_appVars(WiFiPart(RetryDiscovery))
    /\ \A a \in 1..MaxAttempts : WF_appVars(WiFiPart(ConnectTimeout(a)))
    /\ WF_appVars(WiFiPart(TakeReply)) /\ WF_appVars(WiFiPart(OnReceive))
    /\ WF_appVars(WiFiPart(ScanEnds))

=============================================================================
