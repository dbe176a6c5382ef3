----------------------------- MODULE MCCommunity ------------------------------
(***************************************************************************)
(* Instances of Canvas, Presence, Signet, TextChat and Turn, which share   *)
(* nothing: a behaviour runs one of them.                                  *)
(***************************************************************************)
EXTENDS Canvas, Presence, Signet, TextChat, Turn, TLC

CONSTANTS c1, c2, ip1, ip2, tab1, tab2, tab3, ann, bob, post1, general

MCIpOf == (c1 :> ip1) @@ (c2 :> ip2)
MCRoomOf == post1 :> general
MCAccountOf == (tab1 :> ann) @@ (tab2 :> ann) @@ (tab3 :> bob)

VARIABLE part

communityVars == <<part, canvasVars, presenceVars, signetVars, chatVars, turnVars>>

CommunityInit ==
    /\ part \in {"canvas", "presence", "signet", "chat", "turn"}
    /\ CanvasInit /\ PresenceInit /\ SignetInit /\ TextChatInit /\ TurnInit

CommunityNext ==
    \/ part = "canvas" /\ CanvasNext /\ UNCHANGED <<part, presenceVars, signetVars, chatVars, turnVars>>
    \/ part = "presence" /\ PresenceNext /\ UNCHANGED <<part, canvasVars, signetVars, chatVars, turnVars>>
    \/ part = "signet" /\ SignetNext /\ UNCHANGED <<part, canvasVars, presenceVars, chatVars, turnVars>>
    \/ part = "chat" /\ TextChatNext /\ UNCHANGED <<part, canvasVars, presenceVars, signetVars, turnVars>>
    \/ part = "turn" /\ TurnNext /\ UNCHANGED <<part, canvasVars, presenceVars, signetVars, chatVars>>

\* The part that runs keeps its type.
CommunityTypeOK ==
    /\ part = "canvas" => CanvasTypeOK
    /\ part = "presence" => PresenceTypeOK
    /\ part = "signet" => SignetTypeOK
    /\ part = "chat" => TextChatTypeOK
    /\ part = "turn" => TurnTypeOK

CommunitySpec == CommunityInit /\ [][CommunityNext]_communityVars

=============================================================================
