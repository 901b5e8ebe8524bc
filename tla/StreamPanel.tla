---------------------------- MODULE StreamPanel ----------------------------
(***************************************************************************)
(* A tab of the API console over Streams: the panel's connect and          *)
(* disconnect (components/api/StreamPanel.tsx), what the runtime store      *)
(* holds for the tab (state/apiRuntimeStore.ts) and the tab's end           *)
(* (state/apiTabsStore.ts).  A call into the backend is in flight until it  *)
(* is handled, and its answer until the panel resumes.  Every connect mints *)
(* an id of its own, so an id is named by its connection.                   *)
(***************************************************************************)
EXTENDS Streams

VARIABLES
    tab,          \* the connection the tab has, if any
    tabOpen,      \* whether the tab is there
    connects,     \* where each connect call is
    disconnects   \* where each disconnect call is

panel == <<tab, tabOpen, connects, disconnects>>

PanelInit ==
    /\ Init /\ id = [c \in Conns |-> c]
    /\ tab = None /\ tabOpen = TRUE
    /\ connects = [c \in Conns |-> "none"]
    /\ disconnects = [c \in Conns |-> "none"]

\* The Connect button, there while the tab has no connection.  The tab has the
\* connection before the call is made.
PressConnect(c) ==
    /\ tabOpen /\ tab = None
    /\ connects[c] = "none"
    /\ tab' = c
    /\ connects' = [connects EXCEPT ![c] = "called"]
    /\ UNCHANGED <<tabOpen, disconnects, vars>>

Connect(c) ==
    /\ connects[c] = "called"
    /\ Register(c)
    /\ connects' = [connects EXCEPT ![c] = "pending"]
    /\ UNCHANGED <<tab, tabOpen, disconnects>>

\* Once its pump runs.
ConnectResolves(c) ==
    /\ connects[c] = "pending"
    /\ writer[c] # "off"
    /\ connects' = [connects EXCEPT ![c] = "over"]
    /\ UNCHANGED <<tab, tabOpen, disconnects, vars>>

\* Its failure closes the connection of the tab, whichever that is by now.
ConnectRejects(c) ==
    /\ connects[c] = "pending"
    /\ pc[c] = "ended" /\ writer[c] = "off"
    /\ connects' = [connects EXCEPT ![c] = "failed"]
    /\ tab' = None
    /\ UNCHANGED <<tabOpen, disconnects, vars>>

PressDisconnect(c) ==
    /\ tabOpen /\ tab = c
    /\ disconnects[c] = "none"
    /\ disconnects' = [disconnects EXCEPT ![c] = "called"]
    /\ UNCHANGED <<tab, tabOpen, connects, vars>>

\* releaseTab: the call, and nobody waits for its answer.
CloseTab ==
    /\ tabOpen
    /\ tabOpen' = FALSE
    /\ tab' = None
    /\ disconnects' = IF tab = None THEN disconnects
                      ELSE [disconnects EXCEPT ![tab] = "released"]
    /\ UNCHANGED <<connects, vars>>

\* api_stream_disconnect; an id the registry does not have is no error.
Disconnect(c) ==
    /\ disconnects[c] \in {"called", "released"}
    /\ disconnects' = [disconnects EXCEPT ![c] = IF @ = "called" THEN "handled" ELSE "over"]
    /\ IF live[c] = None THEN UNCHANGED vars ELSE Close(c)
    /\ UNCHANGED <<tab, tabOpen, connects>>

DisconnectResolves(c) ==
    /\ disconnects[c] = "handled"
    /\ disconnects' = [disconnects EXCEPT ![c] = "over"]
    /\ tab' = None
    /\ UNCHANGED <<tabOpen, connects, vars>>

PanelNext ==
    \/ Backend /\ UNCHANGED panel
    \/ \E c \in Conns :
          \/ PressConnect(c) \/ Connect(c) \/ ConnectResolves(c) \/ ConnectRejects(c)
          \/ PressDisconnect(c) \/ Disconnect(c) \/ DisconnectResolves(c)
    \/ CloseTab

PanelSpec == PanelInit /\ [][PanelNext]_<<vars, panel>>
-----------------------------------------------------------------------------
\* StreamPanel.tsx: "once nothing addresses the connection, nobody can ever close
\* it."  So a connect that fails takes no other's connection from the tab.
FailureClosesOnlyItsOwn ==
    [][\A c \in Conns :
          connects[c] = "pending" /\ connects'[c] = "failed" => tab \in {c, None}]_<<vars, panel>>
=============================================================================
