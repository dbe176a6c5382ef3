----------------------------- MODULE StreamerTokens -----------------------------
(***************************************************************************)
(* The streamer's tokens: core/services/streamer/tokenService.ts and the   *)
(* helpers that refresh them before a call (getValidStreamerAccessToken    *)
(* and its copies).                                                        *)
(*                                                                         *)
(* The provider answers a refresh with a new refresh token and takes the   *)
(* old one back.  Callers refresh the same row at the same time, without a *)
(* lock, while an administrator disconnects and connects.                  *)
(***************************************************************************)
EXTENDS Naturals

CONSTANTS
    Callers,
    MaxTokens,      \* bound: tokens the provider gives out
    MaxLost         \* bound: answers lost between the provider and the row

ASSUME TokenAssumption == {MaxTokens, MaxLost} \subseteq Nat

VARIABLES
    row,            \* streamer_oauth_tokens: the streamer's row
    valid,          \* refresh tokens the provider takes
    given,          \* how many it has given out
    caller,         \* refreshAndPersist, in each caller
    lostAnswers,
    revoked         \* history: disconnected, and not connected since

tokenVars == <<row, valid, given, caller, lostAnswers, revoked>>

NoRow == [id |-> 0, token |-> 0]
AtRow(c) == caller[c].id = row.id /\ row # NoRow
NoCall == [pc |-> "idle", id |-> 0, token |-> 0]

TokenTypeOK ==
    /\ row \in [id : 0 .. MaxTokens, token : 0 .. MaxTokens]
    /\ valid \subseteq 1 .. given
    /\ given \in 0 .. MaxTokens
    /\ caller \in [Callers -> [pc : {"idle", "found", "read", "rotated", "save"},
                               id : 0 .. MaxTokens, token : 0 .. MaxTokens]]
    /\ lostAnswers \in 0 .. MaxLost
    /\ revoked \in BOOLEAN

TokenInit ==
    /\ row = NoRow /\ valid = {} /\ given = 0
    /\ caller = [c \in Callers |-> NoCall]
    /\ lostAnswers = 0 /\ revoked = FALSE

\* saveStreamerTokens: the upsert keeps the id of a row it finds.
saveStreamerTokens(token) ==
    row' = [id |-> IF row = NoRow THEN token ELSE row.id, token |-> token]

Advance(c, call) == caller' = [caller EXCEPT ![c] = call]

-----------------------------------------------------------------------------

\* completeOAuthCallback.
Connect ==
    /\ given < MaxTokens
    /\ given' = given + 1
    /\ valid' = valid \cup {given'}
    /\ saveStreamerTokens(given')
    /\ revoked' = FALSE
    /\ UNCHANGED <<caller, lostAnswers>>

\* revokeTokens deletes the row; the provider is not told.
revokeTokens ==
    /\ row # NoRow
    /\ row' = NoRow
    /\ revoked' = TRUE
    /\ UNCHANGED <<valid, given, caller, lostAnswers>>

\* findPrimaryStreamer: less than five minutes are left.
FindPrimary(c) ==
    /\ row # NoRow /\ caller[c].pc = "idle"
    /\ Advance(c, [pc |-> "found", id |-> row.id, token |-> 0])
    /\ UNCHANGED <<row, valid, given, lostAnswers, revoked>>

getDecryptedTokens(c) ==
    /\ caller[c].pc = "found"
    /\ Advance(c, IF AtRow(c) THEN [caller[c] EXCEPT !.pc = "read", !.token = row.token]
                  ELSE NoCall)
    /\ UNCHANGED <<row, valid, given, lostAnswers, revoked>>

Rotates(c) ==
    /\ caller[c].pc = "read" /\ caller[c].token \in valid /\ given < MaxTokens
    /\ given' = given + 1
    /\ valid' = (valid \ {caller[c].token}) \cup {given'}
    /\ UNCHANGED <<row, revoked>>

refreshTokens(c) ==
    /\ Rotates(c)
    /\ Advance(c, [caller[c] EXCEPT !.pc = "rotated", !.token = given'])
    /\ UNCHANGED lostAnswers

\* The answer does not come back, or the core stops before it is written.
AnswerLost(c) ==
    /\ Rotates(c) /\ lostAnswers < MaxLost
    /\ lostAnswers' = lostAnswers + 1
    /\ Advance(c, NoCall)

\* Another caller was faster: the provider refuses, the caller gives up.
RefreshRefused(c) ==
    /\ caller[c].pc = "read" /\ caller[c].token \notin valid
    /\ Advance(c, NoCall)
    /\ UNCHANGED <<row, valid, given, lostAnswers, revoked>>

\* Mutant: the rotated token is lost when the row is read again.
ReadAgainForgets(c) ==
    /\ caller[c].pc = "rotated"
    /\ Advance(c, NoCall)
    /\ UNCHANGED <<row, valid, given, lostAnswers, revoked>>

\* The row is read again for its other columns.
ReadAgain(c) ==
    /\ caller[c].pc = "rotated"
    /\ Advance(c, IF AtRow(c) THEN [caller[c] EXCEPT !.pc = "save"] ELSE NoCall)
    /\ UNCHANGED <<row, valid, given, lostAnswers, revoked>>

Persist(c) ==
    /\ caller[c].pc = "save"
    /\ saveStreamerTokens(caller[c].token)
    /\ Advance(c, NoCall)
    /\ UNCHANGED <<valid, given, lostAnswers, revoked>>

TokenNext ==
    \/ Connect \/ revokeTokens
    \/ \E c \in Callers :
         \/ FindPrimary(c) \/ getDecryptedTokens(c) \/ refreshTokens(c) \/ AnswerLost(c)
         \/ RefreshRefused(c) \/ ReadAgain(c) \/ Persist(c)

TokenSpec == TokenInit /\ [][TokenNext]_tokenVars

-----------------------------------------------------------------------------

Carries(c) == caller[c].pc \in {"rotated", "save"}

\* The row never holds a refresh token the provider would refuse, except while
\* the caller that used it is about to write its successor: concurrent refreshes
\* do not lock the streamer out, only a lost answer does.
StoredTokenWorks ==
    (row # NoRow /\ lostAnswers = 0) =>
        row.token \in valid \/ \E c \in Callers : Carries(c) /\ caller[c].id = row.id

\* No two callers carry the same new token, and none of them carries one the
\* row already has: each rotation is written once.
RotationsAreDistinct ==
    \A c, d \in Callers : Carries(c) =>
        /\ caller[c].token # row.token
        /\ caller[c].token \in valid
        /\ c # d /\ Carries(d) => caller[c].token # caller[d].token

\* Refreshes need no lock: they overlap and neither lose nor confuse a token.
RefreshesAreSafe == StoredTokenWorks /\ RotationsAreDistinct

\* A streamer that was disconnected stays so until the next connection.
DisconnectedStaysSo == revoked => row = NoRow

\* Revocation is immediate at the provider too (SPEC.MD, 12.3).
NothingWorksAfterRevocation == revoked => valid = {}

=============================================================================
