-------------------------------- MODULE MCHub ---------------------------------
(***************************************************************************)
(* Instances of ChatQueue, StreamerTokens, Soundboard and Octoguard, which *)
(* share nothing in the code they model: a behaviour runs one of them.     *)
(* Those with fairness ask for nothing in their initial state, so that     *)
(* the fairness of one leaves the others alone.                            *)
(***************************************************************************)
EXTENDS ChatQueue, StreamerTokens, Soundboard, Octoguard, TLC

CONSTANTS a1, a2, a3, ip1, ip2

MCIpOf == (a1 :> ip1) @@ (a2 :> ip1) @@ (a3 :> ip2)

VARIABLE part

hubVars == <<part, chatVars, tokenVars, soundVars, octoVars>>

HubInit ==
    /\ part \in {"chat", "tokens", "sound", "octoguard"}
    /\ ChatInit /\ TokenInit /\ SoundInit /\ OctoInit

HubNext ==
    \/ part = "chat" /\ ChatNext /\ UNCHANGED <<part, tokenVars, soundVars, octoVars>>
    \/ part = "tokens" /\ TokenNext /\ UNCHANGED <<part, chatVars, soundVars, octoVars>>
    \/ part = "sound" /\ SoundNext /\ UNCHANGED <<part, chatVars, tokenVars, octoVars>>
    \/ part = "octoguard" /\ OctoNext /\ UNCHANGED <<part, chatVars, tokenVars, soundVars>>

\* Every part keeps its type.
HubTypeOK == ChatTypeOK /\ TokenTypeOK /\ SoundTypeOK /\ OctoTypeOK

HubSpec == HubInit /\ [][HubNext]_hubVars /\ ChatFairness /\ OctoFairness

=============================================================================
