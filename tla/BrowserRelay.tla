---------------------------- MODULE BrowserRelay ----------------------------
(***************************************************************************)
(* The relay between the browser extension and those who drive a browser:  *)
(* browser-mcp-server/src/bridge/relay-routes.ts.  The extension connects  *)
(* by one web socket, CDP clients by others; commands of the clients and   *)
(* of the bridge are forwarded to the extension and answered later, the    *)
(* tabs it attaches are announced to every client.                         *)
(*                                                                         *)
(* A session stands for a tab of the extension, a target for what it       *)
(* shows.  The tools, the health and the agent states that the extension   *)
(* reports, and pings, are left out: nothing here depends on them.         *)
(***************************************************************************)
EXTENDS Naturals, FiniteSets

CONSTANTS
  Sockets,          \* connections of the extension
  Clients,          \* connections of CDP clients
  Commands,         \* calls that are forwarded
  TabSessions, Targets,
  Nothing

ASSUME RelayAssumption ==
  /\ IsFiniteSet(Commands)
  /\ Nothing \notin Sockets \cup Commands \cup TabSessions \cup Targets

VARIABLES
  socket,             \* the connections of the extension
  extensionWs,        \* the one that commands are sent to
  client,             \* the connections of CDP clients
  cdpClients,         \* those that events are sent to
  known,              \* what each client was told of the tabs
  connectedTargets,   \* the target of each attached tab
  pendingExtension,   \* the command that awaits the answer with each id
  nextExtensionId,
  sent,               \* commands that the extension has and has not answered
  command             \* how each command was settled

relayVars == <<socket, extensionWs, client, cdpClients, known, connectedTargets, pendingExtension, nextExtensionId, sent,
               command>>

Ids == 1..Cardinality(Commands)

NoTargets == [s \in TabSessions |-> Nothing]

RelayInit ==
  /\ socket = [e \in Sockets |-> "new"]
  /\ extensionWs = Nothing
  /\ client = [k \in Clients |-> "new"]
  /\ cdpClients = {}
  /\ known = [k \in Clients |-> NoTargets]
  /\ connectedTargets = NoTargets
  /\ pendingExtension = [i \in Ids |-> Nothing]
  /\ nextExtensionId = 1
  /\ sent = {}
  /\ command = [c \in Commands |-> [state |-> "new", answer |-> Nothing]]

commandVars == <<pendingExtension, nextExtensionId, sent, command>>
tabVars == <<known, connectedTargets>>

-----------------------------------------------------------------------------
(* readyState === 1: a connection that is being closed delivers what was sent, but takes nothing any more. *)
Connected == extensionWs # Nothing /\ socket[extensionWs] = "open"

(* One extension at a time: the guard of the route is evaluated before the connection is upgraded and opened. *)
ExtensionAccepted(e) ==
  /\ socket[e] = "new"
  /\ ~Connected
  /\ socket' = [socket EXCEPT ![e] = "accepted"]
  /\ UNCHANGED <<extensionWs, client, cdpClients, tabVars, commandVars>>

ExtensionOpens(e) ==
  /\ socket[e] = "accepted"
  /\ socket' = [socket EXCEPT ![e] = "open"]
  /\ extensionWs' = e
  /\ UNCHANGED <<client, cdpClients, tabVars, commandVars>>

ExtensionLost(e) ==
  /\ socket[e] = "open"
  /\ socket' = [socket EXCEPT ![e] = "closing"]
  /\ UNCHANGED <<extensionWs, client, cdpClients, tabVars, commandVars>>

(* What is left of the commands when the extension is gone. *)
Rejected(c) == IF \E i \in Ids : pendingExtension[i] = c THEN [command[c] EXCEPT !.state = "disconnected"] ELSE command[c]

\* Mutant: every connection counts its commands from the beginning.
IdAfterCleanupReset == 1

IdAfterCleanup == nextExtensionId

(* cleanupExtension(): it does not ask which connection was closed. *)
CleanupExtension ==
  /\ extensionWs' = Nothing
  /\ command' = [c \in Commands |-> Rejected(c)]
  /\ pendingExtension' = [i \in Ids |-> Nothing]
  /\ nextExtensionId' = IdAfterCleanup
  /\ connectedTargets' = NoTargets
  /\ client' = [k \in Clients |-> IF k \in cdpClients THEN "closed" ELSE client[k]]
  /\ cdpClients' = {}
  /\ UNCHANGED known

ExtensionCloses(e) ==
  /\ socket[e] = "closing"
  /\ socket' = [socket EXCEPT ![e] = "closed"]
  /\ sent' = {m \in sent : m.to # e}
  /\ CleanupExtension

(* stop() of the relay, which cleans up before the connection that commands go to is closed, and once more then. *)
StopRelay ==
  /\ socket' = [e \in Sockets |-> IF e = extensionWs THEN "closing" ELSE socket[e]]
  /\ UNCHANGED sent
  /\ CleanupExtension

-----------------------------------------------------------------------------
ClientAccepted(k) ==
  /\ client[k] = "new"
  /\ Connected
  /\ client' = [client EXCEPT ![k] = "accepted"]
  /\ UNCHANGED <<socket, extensionWs, cdpClients, tabVars, commandVars>>

(* A client is told of the tabs that are attached. *)
ClientOpens(k) ==
  /\ client[k] = "accepted"
  /\ client' = [client EXCEPT ![k] = "open"]
  /\ cdpClients' = cdpClients \cup {k}
  /\ known' = [known EXCEPT ![k] = connectedTargets]
  /\ UNCHANGED <<socket, extensionWs, connectedTargets, commandVars>>

ClientCloses(k) ==
  /\ client[k] = "open"
  /\ client' = [client EXCEPT ![k] = "closed"]
  /\ cdpClients' = cdpClients \ {k}
  /\ UNCHANGED <<socket, extensionWs, tabVars, commandVars>>

-----------------------------------------------------------------------------
(* A client keeps the target of a session until it is told that the session was detached. *)
HearsAttached(view, s, target) == IF view[s] = Nothing THEN [view EXCEPT ![s] = target] ELSE view

HearsDetached(view, s) == [view EXCEPT ![s] = Nothing]

Broadcast(heard) == known' = [k \in Clients |-> IF k \in cdpClients THEN heard[k] ELSE known[k]]

\* Mutant: the old target of a tab is not detached first.
RetargetedAtOnce(view, s, target) == HearsAttached(view, s, target)

Retargeted(view, s, target) == HearsAttached(HearsDetached(view, s), s, target)

(* Any connection of the extension may send events, until it is closed. *)
Heard(e) == socket[e] \in {"open", "closing"}

(* Target.attachedToTarget: a tab is new, has another target than before, or is announced once more. *)
TabAttached(e, s, target) ==
  /\ Heard(e)
  /\ connectedTargets' = [connectedTargets EXCEPT ![s] = target]
  /\ \/ connectedTargets[s] = Nothing /\ Broadcast([k \in Clients |-> HearsAttached(known[k], s, target)])
     \/ connectedTargets[s] \notin {Nothing, target} /\ Broadcast([k \in Clients |-> Retargeted(known[k], s, target)])
     \/ connectedTargets[s] = target /\ UNCHANGED known
  /\ UNCHANGED <<socket, extensionWs, client, cdpClients, commandVars>>

TabDetached(e, s) ==
  /\ Heard(e)
  /\ connectedTargets' = [connectedTargets EXCEPT ![s] = Nothing]
  /\ Broadcast([k \in Clients |-> HearsDetached(known[k], s)])
  /\ UNCHANGED <<socket, extensionWs, client, cdpClients, commandVars>>

-----------------------------------------------------------------------------
Settle(c, how, answer) == command' = [command EXCEPT ![c] = [state |-> how, answer |-> answer]]

(* A command for a session names one that is attached; it may also name none.  One that finds the connection being
   closed may have taken an id. *)
Routable(s) == Connected /\ (s # Nothing => connectedTargets[s] # Nothing)

RefuseCommand(c, s) ==
  /\ command[c].state = "new"
  /\ ~Routable(s)
  /\ Settle(c, "refused", Nothing)
  /\ \/ UNCHANGED nextExtensionId
     \/ ~Connected /\ extensionWs # Nothing /\ nextExtensionId' = nextExtensionId + 1
  /\ UNCHANGED <<socket, extensionWs, client, cdpClients, tabVars, pendingExtension, sent>>

ForwardCommand(c, s) ==
  /\ command[c].state = "new"
  /\ Routable(s)
  /\ sent' = sent \cup {[to |-> extensionWs, id |-> nextExtensionId, for |-> c]}
  /\ pendingExtension' = [pendingExtension EXCEPT ![nextExtensionId] = c]
  /\ nextExtensionId' = nextExtensionId + 1
  /\ Settle(c, "pending", Nothing)
  /\ UNCHANGED <<socket, extensionWs, client, cdpClients, tabVars>>

(* An answer whose id nobody awaits any more is dropped. *)
ExtensionAnswers(m) ==
  /\ sent' = sent \ {m}
  /\ IF pendingExtension[m.id] = Nothing THEN UNCHANGED <<pendingExtension, command>>
     ELSE /\ Settle(pendingExtension[m.id], "answered", m.for)
          /\ pendingExtension' = [pendingExtension EXCEPT ![m.id] = Nothing]
  /\ UNCHANGED <<socket, extensionWs, client, cdpClients, tabVars, nextExtensionId>>

\* Mutant: a command that timed out is still awaited.
ForgottenNever(i) == pendingExtension

Forgotten(i) == [pendingExtension EXCEPT ![i] = Nothing]

CommandTimesOut(i) ==
  /\ pendingExtension[i] # Nothing
  /\ Settle(pendingExtension[i], "timedOut", Nothing)
  /\ pendingExtension' = Forgotten(i)
  /\ UNCHANGED <<socket, extensionWs, client, cdpClients, tabVars, nextExtensionId, sent>>

-----------------------------------------------------------------------------
RelayNext ==
  \/ \E e \in Sockets :
       \/ ExtensionAccepted(e) \/ ExtensionOpens(e) \/ ExtensionLost(e) \/ ExtensionCloses(e)
       \/ \E s \in TabSessions : TabDetached(e, s) \/ \E t \in Targets : TabAttached(e, s, t)
  \/ StopRelay
  \/ \E k \in Clients : ClientAccepted(k) \/ ClientOpens(k) \/ ClientCloses(k)
  \/ \E c \in Commands, s \in TabSessions \cup {Nothing} : RefuseCommand(c, s) \/ ForwardCommand(c, s)
  \/ \E m \in sent : ExtensionAnswers(m)
  \/ \E i \in Ids : CommandTimesOut(i)

RelaySpec == RelayInit /\ [][RelayNext]_relayVars

-----------------------------------------------------------------------------
RelayTypeOK ==
  /\ socket \in [Sockets -> {"new", "accepted", "open", "closing", "closed"}]
  /\ extensionWs \in Sockets \cup {Nothing}
  /\ client \in [Clients -> {"new", "accepted", "open", "closed"}]
  /\ cdpClients \subseteq Clients
  /\ known \in [Clients -> [TabSessions -> Targets \cup {Nothing}]]
  /\ connectedTargets \in [TabSessions -> Targets \cup {Nothing}]
  /\ pendingExtension \in [Ids -> Commands \cup {Nothing}]
  /\ nextExtensionId \in 1..Cardinality(Commands) + 1
  /\ sent \subseteq [to : Sockets, id : Ids, for : Commands]
  /\ command \in [Commands -> [state : {"new", "pending", "answered", "timedOut", "disconnected", "refused"},
                               answer : Commands \cup {Nothing}]]

(* A command is answered by its own answer: at risk when connections of the extension overlap, or when an answer
   comes after its command timed out or was rejected (handleExtensionMessage). *)
AnsweredByTheirOwn == \A c \in Commands : command[c].state = "answered" => command[c].answer = c

(* Whoever waits for an answer is on the list, once, and will be settled by an answer, its timer or the end of a
   connection; nobody is settled who does not wait (sendToExtension, cleanupExtension). *)
PendingIsHonest ==
  \A c \in Commands : Cardinality({i \in Ids : pendingExtension[i] = c}) = IF command[c].state = "pending" THEN 1 ELSE 0

(* What a client was told, in the order in which it was told, is what the relay answers its queries from
   (onOpen of /cdp, Target.attachedToTarget and Target.detachedFromTarget, cleanupExtension). *)
ClientsKnowTargets == \A k \in cdpClients : known[k] = connectedTargets

(* What passes the relay is true to both of its ends, whatever connects, closes, times out or answers late. *)
RelayIsTrue == AnsweredByTheirOwn /\ PendingIsHonest /\ ClientsKnowTargets

=============================================================================
