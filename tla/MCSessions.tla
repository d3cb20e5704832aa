----------------------------- MODULE MCSessions -----------------------------
(***************************************************************************)
(* The components of a session side by side, for TLC: its turns, its       *)
(* permission requests, the buffer of its stream, the reply that a chat is *)
(* shown and the messages of the chat.  They share no variable; which of   *)
(* them runs is chosen at the start.                                       *)
(*                                                                         *)
(* Turns: a message that is sent twice, a second message and the removal   *)
(* of their session.  Requests: r1 asks for a, r2 for a and b, of which    *)
(* its rules deny b, and r3, of another session or of the same, for b.     *)
(***************************************************************************)
EXTENDS SessionTurn, PermissionRequests, PartUpdateBuffer, FeishuReply, FeishuSessions, TLC

CONSTANTS c1, c2, c3, d1, m1, m2, s1, s2, r1, r2, r3, a, b, Components

WithRemoval == [c \in {c1, c2, c3, d1} |-> s1]
SentTwice == (c1 :> m1) @@ (c2 :> m1) @@ (c3 :> m2)

TwoSessions == (r1 :> s1) @@ (r2 :> s1) @@ (r3 :> s2)
OneSession == [r \in {r1, r2, r3} |-> s1]
SomePatterns == (r1 :> <<a>>) @@ (r2 :> <<a, b>>) @@ (r3 :> <<b>>)
SomeRules == [r \in {r1, r2, r3} |-> (a :> "ask") @@ (b :> IF r = r2 THEN "deny" ELSE "ask")]
AllPatterns == (r1 :> {a}) @@ (r2 :> {a, b}) @@ (r3 :> {b})

SomeStreams == {<<"text", "resource", "end">>, <<"tool", "end", "text">>, <<"tool", "text", "fail">>}

Symmetry == Permutations({c1, c2})

VARIABLE component

vars == <<turnVars, askVars, bufferVars, replyVars, routeVars, component>>

(* A component that does not run starts in one state. *)
Init ==
  /\ TurnInit /\ AskInit /\ BufferInit /\ ReplyInit /\ RouteInit
  /\ component \in Components
  /\ component # "reply" => stream = (CHOOSE s \in Streams : TRUE) /\ card.transport = "patch"
  /\ component # "route" => ~buffering

Next ==
  \/ component = "turn" /\ TurnNext /\ UNCHANGED <<askVars, bufferVars, replyVars, routeVars, component>>
  \/ component = "permission" /\ AskNext /\ UNCHANGED <<turnVars, bufferVars, replyVars, routeVars, component>>
  \/ component = "buffer" /\ BufferNext /\ UNCHANGED <<turnVars, askVars, replyVars, routeVars, component>>
  \/ component = "reply" /\ ReplyNext /\ UNCHANGED <<turnVars, askVars, bufferVars, routeVars, component>>
  \/ component = "route" /\ RouteNext /\ UNCHANGED <<turnVars, askVars, bufferVars, replyVars, component>>

Spec == Init /\ [][Next]_vars

TypeOK == TurnTypeOK /\ AskTypeOK /\ BufferTypeOK /\ ReplyTypeOK /\ RouteTypeOK

=============================================================================
