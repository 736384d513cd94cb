---------------------------- MODULE MCConnectors ----------------------------
(***************************************************************************)
(* TLC instance of a user's own services: connections and quick relays,    *)
(* authorization attempts, the answers of their upstreams, the browser     *)
(* connector, and of the official client its signed requests, its          *)
(* conversations and its risk row.  They share no variable; a behaviour    *)
(* moves the one that focus names, so that the instance is their sum and   *)
(* not their product.  The risk row is looked at three times: requests,    *)
(* checks and every operation of the owner over a few ticks, requests that *)
(* overtake each other over a few more, and one stream of requests over    *)
(* more than a day.                                                        *)
(***************************************************************************)
EXTENDS ClientRisk, Connections, Authorization, BrowserConnector, ClientDevices,
        ClientConversations, UpstreamStreams

CONSTANTS
  x1, w1, w2, h1,
  ShortTime,  \* bound on the clock while requests and checks interleave
  OverlapTime,  \* bound on the clock while requests overtake each other
  MaxRate     \* bound on the number of rate limits recorded then

VARIABLE focus

\* x1 is a browser connection; w1 and w2 take pasted web tokens.
MCConnMethod == [c \in ConnIds |-> IF c = x1 THEN "opencli_browser" ELSE "api_key"]
MCAttemptMethod ==
  [t \in Attempts |-> IF t \in {w1, w2} THEN "deepseek_web_token" ELSE "api_key_guided"]

-----------------------------------------------------------------------------
connectorsVars == <<focus, riskVars, connVars, authVars, browserVars, deviceVars, conversationVars,
                    streamVars>>

ConnectorsInit ==
  /\ focus \in {"risk", "overlap", "limits", "connections", "authorization", "browser",
              "devices", "conversations", "streams"}
  /\ RiskInit /\ ConnectionsInit /\ AuthorizationInit /\ BrowserInit
  /\ DevicesInit /\ ConversationsInit /\ StreamsInit

\* The gateway's requests meet the owner's identity checks.
EachItsKind ==
  /\ handler'[h1].kind = "generate"
  /\ \A h \in Handlers \ {h1} : handler'[h] = Idle \/ handler'[h].kind = "validate"

\* The gateway's requests alone, undisturbed by the owner and without failures.
RequestsAlone ==
  /\ \A h \in Handlers : handler'[h].kind = "generate" /\ handler'[h].outcome = "ok"
  /\ connector' = "active" /\ risk'.state # "paused"

\* One caller after the other, undisturbed by the owner and without failures.
OneStream ==
  /\ \A h \in Handlers \ {h1} : handler'[h] = Idle
  /\ RequestsAlone

RestVars == <<deviceVars, conversationVars, streamVars>>

ConnectorsNext ==
  /\ UNCHANGED focus
  /\ \/ focus = "risk" /\ RiskNext /\ EachItsKind /\ clock' <= ShortTime /\ risk'.rate <= MaxRate
        /\ UNCHANGED <<connVars, authVars, browserVars, RestVars>>
     \/ focus = "overlap" /\ RiskNext /\ RequestsAlone /\ clock' <= OverlapTime
        /\ UNCHANGED <<connVars, authVars, browserVars, RestVars>>
     \/ focus = "limits" /\ RiskNext /\ OneStream
        /\ UNCHANGED <<connVars, authVars, browserVars, RestVars>>
     \/ focus = "connections" /\ ConnectionsNext /\ UNCHANGED <<riskVars, authVars, browserVars, RestVars>>
     \/ focus = "authorization" /\ AuthorizationNext /\ UNCHANGED <<riskVars, connVars, browserVars, RestVars>>
     \/ focus = "browser" /\ BrowserNext /\ UNCHANGED <<riskVars, connVars, authVars, RestVars>>
     \/ focus = "devices" /\ DevicesNext /\ UNCHANGED <<riskVars, connVars, authVars, browserVars, conversationVars, streamVars>>
     \/ focus = "conversations" /\ ConversationsNext
        /\ UNCHANGED <<riskVars, connVars, authVars, browserVars, deviceVars, streamVars>>
     \/ focus = "streams" /\ StreamsNext
        /\ UNCHANGED <<riskVars, connVars, authVars, browserVars, deviceVars, conversationVars>>

ConnectorsSpec == ConnectorsInit /\ [][ConnectorsNext]_connectorsVars
=============================================================================
