------------------------------- MODULE HubProofs -------------------------------
(***************************************************************************)
(* The services of the streamer hub and of moderation.  The parts prove    *)
(* RefreshesAreSafe (StreamerTokens), ModerationIsCurrent (Octoguard),     *)
(* SentOnce (ChatQueue) and QueueWithinLimits (Soundboard), each for any   *)
(* number of callers, jobs, passes, adds and bounds; and their types, of   *)
(* the specification of MCHub that TLC runs.                               *)
(***************************************************************************)
EXTENDS MCHub, FiniteSetTheorems, SequenceTheorems, TLAPS

-----------------------------------------------------------------------------
(* StreamerTokens.  A refresh token that was read and one that is carried  *)
(* are never the same, so a token can be written only once; and a caller   *)
(* that read the token of the row knows the id of the row, so that it is   *)
(* the one the row waits for.                                              *)

RowIsGiven == row = NoRow \/ row.token \in 1 .. given

ReadersApart == \A c, d \in Callers :
    caller[c].pc = "read" /\ Carries(d) => caller[c].token # caller[d].token

ReadersKnowRow == \A c \in Callers :
    caller[c].pc = "read" => /\ caller[c].token \in 1 .. given
                             /\ row # NoRow /\ caller[c].token = row.token => caller[c].id = row.id

TokenInv ==
    /\ TokenTypeOK
    /\ RowIsGiven
    /\ ReadersApart
    /\ ReadersKnowRow
    /\ RefreshesAreSafe

LEMMA InitTokens == TokenInit => TokenInv
<1> SUFFICES ASSUME TokenInit PROVE TokenInv
  OBVIOUS
<1>1. TokenTypeOK
  <2>1. MaxTokens \in Nat /\ MaxLost \in Nat
    BY TokenAssumption DEF TokenAssumption
  <2>2. 0 \in 0 .. MaxTokens /\ 0 \in 0 .. MaxLost /\ {} \subseteq 1 .. 0
    BY <2>1
  <2>3. caller \in [Callers -> [pc : {"idle", "found", "read", "rotated", "save"},
                               id : 0 .. MaxTokens, token : 0 .. MaxTokens]]
    BY <2>2 DEF TokenInit, NoCall
  <2> QED
    BY <2>2, <2>3 DEF TokenInit, TokenTypeOK, NoRow
<1>2. \A c \in Callers : caller[c].pc = "idle"
  BY DEF TokenInit, NoCall
<1> QED
  BY <1>1, <1>2 DEF TokenInit, TokenInv, RowIsGiven, ReadersApart, ReadersKnowRow,
                    RefreshesAreSafe, StoredTokenWorks, RotationsAreDistinct, Carries

LEMMA ConnectKeepsTokens == TokenInv /\ Connect => TokenInv'
<1> SUFFICES ASSUME TokenInv, Connect PROVE TokenInv'
  OBVIOUS
<1>1. /\ given' = given + 1 /\ given' \in 1 .. MaxTokens /\ valid' = valid \cup {given'}
      /\ row'.token = given' /\ row'.id \in 0 .. MaxTokens
      /\ row' \in [id : 0 .. MaxTokens, token : 0 .. MaxTokens]
      /\ UNCHANGED <<caller, lostAnswers>> /\ revoked' = FALSE
  BY TokenAssumption DEF TokenAssumption, Connect, saveStreamerTokens, TokenInv, TokenTypeOK, NoRow
<1>2. TokenTypeOK'
  <2>1. MaxTokens \in Nat /\ given \in Nat /\ valid \subseteq 1 .. given
    BY TokenAssumption DEF TokenAssumption, TokenInv, TokenTypeOK
  <2>2. valid' \subseteq 1 .. given' /\ given' \in 0 .. MaxTokens
    BY <1>1, <2>1
  <2> QED
    BY <1>1, <2>2 DEF TokenInv, TokenTypeOK
<1>3. RowIsGiven'
  BY <1>1 DEF RowIsGiven
<1>4. ReadersApart' /\ ReadersKnowRow'
  BY <1>1, <1>2 DEF TokenInv, TokenTypeOK, ReadersApart, ReadersKnowRow, Carries
<1>5. \A c \in Callers : Carries(c) => caller[c].token \in 1 .. given
  BY DEF TokenInv, TokenTypeOK, RefreshesAreSafe, RotationsAreDistinct
<1>6. StoredTokenWorks' /\ RotationsAreDistinct'
  BY <1>1, <1>5 DEF TokenInv, TokenTypeOK, RefreshesAreSafe, StoredTokenWorks,
                    RotationsAreDistinct, Carries
<1> QED
  BY <1>2, <1>3, <1>4, <1>6 DEF TokenInv, RefreshesAreSafe

LEMMA RevokeKeepsTokens == TokenInv /\ revokeTokens => TokenInv'
<1> SUFFICES ASSUME TokenInv, revokeTokens PROVE TokenInv'
  OBVIOUS
<1>1. row' = NoRow /\ UNCHANGED <<valid, given, caller, lostAnswers>> /\ revoked' = TRUE
  BY DEF revokeTokens
<1>2. TokenTypeOK'
  BY <1>1, TokenAssumption DEF TokenAssumption, TokenInv, TokenTypeOK, NoRow
<1>3. \A c \in Callers : Carries(c) => caller[c].token # NoRow.token
  BY DEF TokenInv, TokenTypeOK, RefreshesAreSafe, RotationsAreDistinct, NoRow
<1>4. RefreshesAreSafe'
  BY <1>1, <1>3 DEF TokenInv, RefreshesAreSafe, StoredTokenWorks, RotationsAreDistinct, Carries
<1> QED
  BY <1>1, <1>2, <1>4 DEF TokenInv, RowIsGiven, ReadersApart, ReadersKnowRow, Carries

\* A step of one caller that leaves the row and the provider alone, ends or goes
\* on with what it has.
LEMMA CallerMoves ==
    ASSUME TokenInv, NEW c \in Callers, NEW call, Advance(c, call),
           UNCHANGED <<row, valid, given, revoked>>, lostAnswers' = lostAnswers,
           \/ ~Carries(c) /\ call.pc \in {"idle", "found"}
           \/ ~Carries(c) /\ call.pc = "read" /\ row # NoRow /\ call.id = row.id /\ call.token = row.token
           \/ caller[c].pc = "rotated" /\ call.pc = "idle" /\ ~AtRow(c)
           \/ caller[c].pc = "rotated" /\ call.pc = "save" /\ call.token = caller[c].token
                                       /\ call.id = caller[c].id,
           call \in [pc : {"idle", "found", "read", "rotated", "save"},
                     id : 0 .. MaxTokens, token : 0 .. MaxTokens]
    PROVE  TokenInv'
<1>1. /\ caller' = [caller EXCEPT ![c] = call] /\ caller'[c] = call
      /\ \A d \in Callers \ {c} : caller'[d] = caller[d]
  BY DEF Advance, TokenInv, TokenTypeOK
<1>2. TokenTypeOK' /\ RowIsGiven'
  BY <1>1 DEF TokenInv, TokenTypeOK, RowIsGiven
<1>3. RotationsAreDistinct'
  BY <1>1 DEF TokenInv, RefreshesAreSafe, RotationsAreDistinct, Carries
<1>4. StoredTokenWorks'
  <2> SUFFICES ASSUME row # NoRow, lostAnswers = 0, row.token \notin valid
               PROVE  \E d \in Callers : Carries(d)' /\ caller'[d].id = row.id
    BY DEF StoredTokenWorks
  <2>1. PICK d \in Callers : Carries(d) /\ caller[d].id = row.id
    BY DEF TokenInv, RefreshesAreSafe, StoredTokenWorks
  <2> QED
    BY <1>1, <2>1 DEF Carries, AtRow
<1>5. ReadersApart'
  BY <1>1 DEF TokenInv, ReadersApart, RefreshesAreSafe, RotationsAreDistinct, Carries
<1>6. ReadersKnowRow'
  BY <1>1 DEF TokenInv, ReadersKnowRow, RowIsGiven
<1> QED
  BY <1>2, <1>3, <1>4, <1>5, <1>6 DEF TokenInv, RefreshesAreSafe

LEMMA CallsKeepTokens ==
    ASSUME TokenInv, NEW c \in Callers,
           FindPrimary(c) \/ getDecryptedTokens(c) \/ RefreshRefused(c) \/ ReadAgain(c)
    PROVE  TokenInv'
<1> DEFINE Calls == [pc : {"idle", "found", "read", "rotated", "save"},
                     id : 0 .. MaxTokens, token : 0 .. MaxTokens]
<1>1. caller[c] \in Calls /\ row \in [id : 0 .. MaxTokens, token : 0 .. MaxTokens]
  BY DEF TokenInv, TokenTypeOK
<1>2. NoCall \in Calls /\ NoCall.pc = "idle" /\ 0 \in 0 .. MaxTokens
  BY TokenAssumption DEF TokenAssumption, NoCall
<1>3. CASE FindPrimary(c)
  <2>1. [pc |-> "found", id |-> row.id, token |-> 0] \in Calls
    BY <1>1, <1>2
  <2> QED
    BY <1>3, <2>1, CallerMoves DEF FindPrimary, Carries
<1>4. CASE getDecryptedTokens(c)
  <2>1. CASE AtRow(c)
    BY <1>1, <1>4, <2>1, CallerMoves DEF getDecryptedTokens, AtRow, Carries
  <2>2. CASE ~AtRow(c)
    BY <1>2, <1>4, <2>2, CallerMoves DEF getDecryptedTokens, Carries
  <2> QED
    BY <2>1, <2>2
<1>5. CASE RefreshRefused(c)
  BY <1>2, <1>5, CallerMoves DEF RefreshRefused, Carries
<1>6. CASE ReadAgain(c)
  <2>1. CASE AtRow(c)
    BY <1>1, <1>6, <2>1, CallerMoves DEF ReadAgain
  <2>2. CASE ~AtRow(c)
    BY <1>2, <1>6, <2>2, CallerMoves DEF ReadAgain
  <2> QED
    BY <2>1, <2>2
<1> QED
  BY <1>3, <1>4, <1>5, <1>6

\* The provider takes the token back and gives the next number.
LEMMA RotateKeepsTokens ==
    ASSUME TokenInv, NEW c \in Callers, refreshTokens(c) \/ AnswerLost(c)
    PROVE  TokenInv'
<1> DEFINE t == caller[c].token
<1>1. /\ caller[c].pc = "read" /\ t \in valid /\ given' = given + 1 /\ given' \in 1 .. MaxTokens
      /\ valid' = (valid \ {t}) \cup {given'} /\ UNCHANGED <<row, revoked>>
      /\ t \in 1 .. given /\ given \in Nat
  BY TokenAssumption DEF TokenAssumption, refreshTokens, AnswerLost, Rotates, TokenInv, TokenTypeOK
<1>9. MaxTokens \in Nat /\ MaxLost \in Nat /\ lostAnswers \in Nat
  BY TokenAssumption DEF TokenAssumption, TokenInv, TokenTypeOK
<1>2. /\ \A d \in Callers \ {c} : caller'[d] = caller[d]
      /\ \/ caller'[c].pc = "idle" /\ lostAnswers' > 0
         \/ /\ caller'[c].pc = "rotated" /\ caller'[c].token = given' /\ caller'[c].id = caller[c].id
            /\ lostAnswers' = lostAnswers
  <2>1. CASE refreshTokens(c)
    BY <2>1 DEF refreshTokens, Advance, TokenInv, TokenTypeOK
  <2>2. CASE AnswerLost(c)
    BY <1>9, <2>2 DEF AnswerLost, Advance, NoCall, TokenInv, TokenTypeOK
  <2> QED
    BY <2>1, <2>2
<1>3. TokenTypeOK'
  <2>1. valid' \subseteq 1 .. given' /\ given' \in 0 .. MaxTokens
    <3>1. valid \subseteq 1 .. given
      BY DEF TokenInv, TokenTypeOK
    <3>2. \A v \in valid' : v \in valid \/ v = given + 1
      BY <1>1
    <3>3. \A v \in valid' : v \in 1 .. given'
      BY <1>1, <3>1, <3>2
    <3>4. given' \in 0 .. MaxTokens
      BY <1>1, <1>9
    <3> QED
      BY <3>3, <3>4
  <2>2. caller' \in [Callers -> [pc : {"idle", "found", "read", "rotated", "save"},
                                id : 0 .. MaxTokens, token : 0 .. MaxTokens]]
    <3>1. caller[c] \in [pc : {"idle", "found", "read", "rotated", "save"},
                        id : 0 .. MaxTokens, token : 0 .. MaxTokens]
      BY DEF TokenInv, TokenTypeOK
    <3>2. NoCall \in [pc : {"idle", "found", "read", "rotated", "save"},
                     id : 0 .. MaxTokens, token : 0 .. MaxTokens]
      BY <1>9 DEF NoCall
    <3>3. given' \in 0 .. MaxTokens
      BY <1>1, <1>9
    <3>4. CASE refreshTokens(c)
      BY <3>1, <3>3, <3>4 DEF refreshTokens, Advance, TokenInv, TokenTypeOK
    <3>5. CASE AnswerLost(c)
      BY <3>2, <3>5 DEF AnswerLost, Advance, TokenInv, TokenTypeOK
    <3> QED
      BY <3>4, <3>5
  <2>3. lostAnswers' \in 0 .. MaxLost
    BY <1>9 DEF refreshTokens, AnswerLost, TokenInv, TokenTypeOK
  <2> QED
    BY <1>1, <2>1, <2>2, <2>3 DEF TokenInv, TokenTypeOK
<1>4. RowIsGiven' /\ (row = NoRow \/ row.token \in 1 .. given)
  BY <1>1 DEF TokenInv, RowIsGiven
<1>5. \A d \in Callers : Carries(d) => /\ d # c
                                       /\ caller[d].token \in valid' /\ caller[d].token \in 1 .. given
  BY <1>1 DEF TokenInv, TokenTypeOK, RefreshesAreSafe, RotationsAreDistinct, ReadersApart, Carries
<1>6. RotationsAreDistinct'
  BY <1>1, <1>2, <1>4, <1>5 DEF TokenInv, RefreshesAreSafe, RotationsAreDistinct, Carries, NoRow
<1>7. StoredTokenWorks'
  <2> SUFFICES ASSUME row # NoRow, lostAnswers' = 0, row.token \notin valid'
               PROVE  \E d \in Callers : Carries(d)' /\ caller'[d].id = row.id
    BY <1>1 DEF StoredTokenWorks
  <2>1. Carries(c)' /\ caller'[c].id = caller[c].id /\ lostAnswers = 0
    BY <1>2 DEF Carries
  <2>2. CASE row.token = t
    BY <1>1, <2>1, <2>2 DEF TokenInv, ReadersKnowRow
  <2>3. CASE row.token # t
    <3>1. PICK d \in Callers : Carries(d) /\ caller[d].id = row.id
      BY <1>1, <2>1, <2>3 DEF TokenInv, RefreshesAreSafe, StoredTokenWorks
    <3> QED
      BY <1>2, <1>5, <3>1 DEF Carries
  <2> QED
    BY <2>2, <2>3
<1>8. ReadersApart' /\ ReadersKnowRow'
  BY <1>1, <1>2 DEF TokenInv, ReadersApart, ReadersKnowRow, Carries
<1> QED
  BY <1>3, <1>4, <1>6, <1>7, <1>8 DEF TokenInv, RefreshesAreSafe

\* A token that was carried becomes the row's, whatever the row held before.
LEMMA PersistKeepsTokens ==
    ASSUME TokenInv, NEW c \in Callers, Persist(c)
    PROVE  TokenInv'
<1>1. /\ Carries(c) /\ row'.token = caller[c].token /\ row' # NoRow
      /\ row' \in [id : 0 .. MaxTokens, token : 0 .. MaxTokens]
      /\ UNCHANGED <<valid, given, lostAnswers, revoked>>
      /\ caller[c].token \in valid /\ caller[c].token \in 1 .. given
  BY DEF Persist, saveStreamerTokens, Carries, TokenInv, TokenTypeOK, NoRow,
         RefreshesAreSafe, RotationsAreDistinct
<1>2. caller'[c] = NoCall /\ \A d \in Callers \ {c} : caller'[d] = caller[d]
  BY DEF Persist, Advance, TokenInv, TokenTypeOK
<1>3. TokenTypeOK' /\ RowIsGiven'
  BY <1>1, TokenAssumption
  DEF TokenAssumption, Persist, Advance, NoCall, TokenInv, TokenTypeOK, RowIsGiven
<1>4. RefreshesAreSafe'
  BY <1>1, <1>2 DEF TokenInv, RefreshesAreSafe, StoredTokenWorks, RotationsAreDistinct, Carries, NoCall
<1>5. ReadersApart' /\ ReadersKnowRow'
  BY <1>1, <1>2 DEF TokenInv, ReadersApart, ReadersKnowRow, Carries, NoCall
<1> QED
  BY <1>3, <1>4, <1>5 DEF TokenInv

LEMMA TokenSteps == TokenInv /\ [TokenNext]_tokenVars => TokenInv'
<1> SUFFICES ASSUME TokenInv, [TokenNext]_tokenVars PROVE TokenInv'
  OBVIOUS
<1>1. CASE UNCHANGED tokenVars
  BY <1>1 DEF tokenVars, TokenInv, TokenTypeOK, RowIsGiven, ReadersApart, ReadersKnowRow,
              RefreshesAreSafe, StoredTokenWorks, RotationsAreDistinct, Carries
<1>2. ASSUME NEW c \in Callers, FindPrimary(c) \/ getDecryptedTokens(c) \/ RefreshRefused(c) \/ ReadAgain(c)
      PROVE  TokenInv'
  BY <1>2, CallsKeepTokens
<1>3. ASSUME NEW c \in Callers, refreshTokens(c) \/ AnswerLost(c) PROVE TokenInv'
  BY <1>3, RotateKeepsTokens
<1>4. ASSUME NEW c \in Callers, Persist(c) PROVE TokenInv'
  BY <1>4, PersistKeepsTokens
<1> QED
  BY <1>1, <1>2, <1>3, <1>4, ConnectKeepsTokens, RevokeKeepsTokens DEF TokenNext

\* Concurrent refreshes, connections and disconnections neither lose a token nor
\* write one twice (tokenService.ts has no lock around them), for any number of
\* callers and tokens, as long as no answer of the provider is lost.
THEOREM RefreshesNeverLockOut == TokenSpec => []RefreshesAreSafe
  BY TokenSteps, InitTokens, PTL DEF TokenSpec, TokenInv

-----------------------------------------------------------------------------
(* Octoguard.  Each conjunct is inductive, the last one with the fact that *)
(* what a reload has read is no later than the table: every write that     *)
(* makes one false leaves its own job at the step that repairs it.         *)

ReadsThePast == \A j \in Jobs : At(j, "swap") => job[j].read <= table

OctoInv ==
    /\ OctoTypeOK
    /\ ReadsThePast
    /\ ModerationIsCurrent

LEMMA InitModeration == OctoInit => OctoInv
<1> SUFFICES ASSUME OctoInit PROVE OctoInv
  OBVIOUS
<1>1. MaxEdits \in Nat /\ MaxWarns \in Nat /\ Threshold \in Nat
  BY OctoAssumption DEF OctoAssumption
<1>2. 0 \in 0 .. MaxEdits /\ 0 \in 0 .. MaxWarns
  BY <1>1
<1>3. OctoTypeOK
  BY <1>2 DEF OctoInit, OctoTypeOK, NoEntry, NoJob
<1> QED
  BY <1>1, <1>3 DEF OctoInit, OctoInv, ReadsThePast, At, NoJob, NoEntry, ModerationIsCurrent,
                    MuteCacheIsTrue, EscalationNotMissed, RulesAreCurrent

\* What the jobs and the checks do, one conjunct at a time.
LEMMA TypesKept == OctoInv /\ OctoNext => OctoTypeOK'
<1> SUFFICES ASSUME OctoInv, OctoNext PROVE OctoTypeOK'
  OBVIOUS
<1>1. MaxEdits \in Nat /\ MaxWarns \in Nat /\ warns \in 0 .. MaxWarns /\ table \in 0 .. MaxEdits
  BY OctoAssumption DEF OctoAssumption, OctoInv, OctoTypeOK
<1>2. 0 \in 0 .. MaxEdits
  BY <1>1
<1>3. ASSUME NEW j \in Jobs, InsertWarn(j) PROVE OctoTypeOK'
  <2>1. warns' \in 0 .. MaxWarns
    BY <1>1, <1>3 DEF InsertWarn
  <2> QED
    BY <1>3, <2>1 DEF InsertWarn, Go, OctoInv, OctoTypeOK
<1>4. ASSUME NEW j \in Jobs, CountWarns(j) PROVE OctoTypeOK'
  <2>1. CASE warns >= Threshold
    BY <1>4, <2>1 DEF CountWarns, Go, OctoInv, OctoTypeOK
  <2>2. CASE ~(warns >= Threshold)
    BY <1>4, <2>2 DEF CountWarns, Go, OctoInv, OctoTypeOK
  <2> QED
    BY <2>1, <2>2
<1>5. ASSUME NEW j \in Jobs, invalidateMuteCache(j) PROVE OctoTypeOK'
  BY <1>5 DEF invalidateMuteCache, Go, NoEntry, OctoInv, OctoTypeOK
<1>6. ASSUME NEW j \in Jobs, ReadRules(j) \/ SwapRules(j) PROVE OctoTypeOK'
  <2>1. job[j].read \in 0 .. MaxEdits
    BY DEF OctoInv, OctoTypeOK
  <2> QED
    <3>1. CASE ReadRules(j)
      BY <1>1, <3>1 DEF ReadRules, OctoInv, OctoTypeOK
    <3>2. CASE SwapRules(j)
      <4>1. NoJob \in [pc : {"idle", "warn", "count", "apply", "tell", "reload", "swap"},
                      read : 0 .. MaxEdits]
        BY <1>2 DEF NoJob
      <4>2. behind' \in BOOLEAN
        BY <3>2 DEF SwapRules
      <4> QED
        BY <2>1, <3>2, <4>1, <4>2 DEF SwapRules, OctoInv, OctoTypeOK
    <3> QED
      BY <1>6, <3>1, <3>2
<1>7. ASSUME NEW j \in Jobs, NEW m \in Mutes, applyMute(j, m) \/ removeMute(j, m) PROVE OctoTypeOK'
  BY <1>7 DEF applyMute, removeMute, Go, OctoInv, OctoTypeOK
<1>8. ASSUME NEW j \in Jobs,
             JobFails(j) \/ Warn(j) \/ OrderMute(j) \/ purgeExpiredMutes(j) \/ ReloadFails(j)
      PROVE  OctoTypeOK'
  <2>1. CASE JobFails(j)
    BY <2>1 DEF JobFails, Go, OctoInv, OctoTypeOK
  <2>2. CASE Warn(j) \/ OrderMute(j)
    BY <2>2 DEF Warn, OrderMute, Go, OctoInv, OctoTypeOK
  <2>3. CASE purgeExpiredMutes(j)
    BY <2>3 DEF purgeExpiredMutes, Go, OctoInv, OctoTypeOK
  <2>4. CASE ReloadFails(j)
    <3>1. NoJob \in [pc : {"idle", "warn", "count", "apply", "tell", "reload", "swap"},
                    read : 0 .. MaxEdits]
      BY <1>2 DEF NoJob
    <3> QED
      BY <2>4, <3>1 DEF ReloadFails, OctoInv, OctoTypeOK
  <2> QED
    BY <1>8, <2>1, <2>2, <2>3, <2>4
<1>9. ASSUME NEW j \in Jobs, EditRules(j) PROVE OctoTypeOK'
  <2>1. table' \in 0 .. MaxEdits
    BY <1>1, <1>9 DEF EditRules
  <2> QED
    BY <1>9, <2>1 DEF EditRules, Go, OctoInv, OctoTypeOK
<1>10. ASSUME NEW c \in Checks, AskMutes(c) \/ loadActiveMutes(c) \/ CheckFails(c) PROVE OctoTypeOK'
  BY <1>10 DEF AskMutes, loadActiveMutes, CheckFails, Active, OctoInv, OctoTypeOK
<1>11. ASSUME NEW c \in Checks, KeepMutes(c) PROVE OctoTypeOK'
  BY <1>11 DEF KeepMutes, OctoInv, OctoTypeOK
<1>12. ASSUME NEW m \in Mutes, MuteExpires(m) PROVE OctoTypeOK'
  BY <1>12 DEF MuteExpires, OctoInv, OctoTypeOK
<1>13. EntryAges \/ ClearWarn => OctoTypeOK'
  BY <1>1 DEF EntryAges, ClearWarn, NoEntry, OctoInv, OctoTypeOK
<1> QED
  BY <1>3, <1>4, <1>5, <1>6, <1>7, <1>8, <1>9, <1>10, <1>11, <1>12, <1>13 DEF OctoNext, OctoJob

\* A write of the table of mutes is to be told, and telling empties the entry.
LEMMA CacheKept == OctoInv /\ OctoNext => MuteCacheIsTrue'
<1> SUFFICES ASSUME OctoInv, OctoNext PROVE MuteCacheIsTrue'
  OBVIOUS
<1>1. MuteCacheIsTrue /\ job \in [Jobs -> [pc : {"idle", "warn", "count", "apply", "tell", "reload", "swap"},
                                           read : 0 .. MaxEdits]]
  BY DEF OctoInv, OctoTypeOK, ModerationIsCurrent
<1>2. ASSUME NEW j \in Jobs, NEW m \in Mutes, applyMute(j, m) \/ removeMute(j, m)
      PROVE  MuteCacheIsTrue'
  BY <1>1, <1>2 DEF applyMute, removeMute, Go, Busy, MuteCacheIsTrue
<1>3. ASSUME NEW j \in Jobs, purgeExpiredMutes(j) PROVE MuteCacheIsTrue'
  BY <1>1, <1>3 DEF purgeExpiredMutes, Go, Busy, MuteCacheIsTrue
<1>4. ASSUME NEW j \in Jobs, invalidateMuteCache(j) PROVE MuteCacheIsTrue'
  BY <1>4 DEF invalidateMuteCache, NoEntry, MuteCacheIsTrue
<1>5. ASSUME NEW j \in Jobs,
             \/ InsertWarn(j) \/ CountWarns(j) \/ ReadRules(j) \/ SwapRules(j) \/ ReloadFails(j)
             \/ JobFails(j) \/ Warn(j) \/ OrderMute(j) \/ EditRules(j)
      PROVE  MuteCacheIsTrue'
  <2>1. UNCHANGED <<rows, over, entry>>
    BY <1>5 DEF InsertWarn, CountWarns, ReadRules, SwapRules, ReloadFails, JobFails, Warn, OrderMute, EditRules
  <2>2. Busy({"tell"}) => Busy({"tell"})'
    BY <1>1, <1>5 DEF InsertWarn, CountWarns, ReadRules, SwapRules, ReloadFails, JobFails, Warn,
                      OrderMute, EditRules, At, Go, Busy, NoJob
  <2> QED
    BY <1>1, <2>1, <2>2 DEF MuteCacheIsTrue, Active
<1>6. ASSUME NEW c \in Checks, AskMutes(c) \/ loadActiveMutes(c) \/ CheckFails(c) PROVE MuteCacheIsTrue'
  BY <1>1, <1>6 DEF AskMutes, loadActiveMutes, CheckFails, MuteCacheIsTrue, Active, Busy
<1>7. ASSUME NEW c \in Checks, KeepMutes(c) PROVE MuteCacheIsTrue'
  BY <1>7 DEF KeepMutes, MuteCacheIsTrue, Active
<1>8. ASSUME NEW m \in Mutes, MuteExpires(m) PROVE MuteCacheIsTrue'
  BY <1>1, <1>8 DEF MuteExpires, MuteCacheIsTrue, Active, Busy
<1>9. EntryAges \/ ClearWarn => MuteCacheIsTrue'
  BY <1>1 DEF EntryAges, ClearWarn, NoEntry, MuteCacheIsTrue, Active, Busy
<1> QED
  BY <1>2, <1>3, <1>4, <1>5, <1>6, <1>7, <1>8, <1>9 DEF OctoNext, OctoJob

\* A warning is counted by the job that wrote it.
LEMMA EscalationKept == OctoInv /\ OctoNext => EscalationNotMissed'
<1> SUFFICES ASSUME OctoInv, OctoNext PROVE EscalationNotMissed'
  OBVIOUS
<1>1. /\ EscalationNotMissed /\ warns \in Nat /\ Threshold \in Nat
      /\ job \in [Jobs -> [pc : {"idle", "warn", "count", "apply", "tell", "reload", "swap"},
                           read : 0 .. MaxEdits]]
  BY OctoAssumption DEF OctoAssumption, OctoInv, OctoTypeOK, ModerationIsCurrent
<1>2. ASSUME NEW j \in Jobs, InsertWarn(j) PROVE EscalationNotMissed'
  BY <1>1, <1>2 DEF InsertWarn, Go, Busy, EscalationNotMissed
<1>3. ASSUME NEW j \in Jobs, CountWarns(j) PROVE EscalationNotMissed'
  <2>1. CASE warns >= Threshold
    BY <1>3, <2>1 DEF CountWarns, EscalationNotMissed
  <2>2. CASE ~(warns >= Threshold)
    BY <1>3, <2>2 DEF CountWarns, EscalationNotMissed
  <2> QED
    BY <2>1, <2>2
<1>4. ASSUME NEW j \in Jobs, JobFails(j) PROVE EscalationNotMissed'
  BY <1>4 DEF JobFails, EscalationNotMissed
<1>5. ASSUME UNCHANGED <<warns, escalated, jobFailed>>, Busy({"count"}) => Busy({"count"})'
      PROVE  EscalationNotMissed'
  BY <1>1, <1>5 DEF EscalationNotMissed
<1>6. ASSUME NEW j \in Jobs, NEW m \in Mutes, applyMute(j, m) \/ removeMute(j, m)
      PROVE  EscalationNotMissed'
  BY <1>1, <1>5, <1>6 DEF applyMute, removeMute, At, Go, Busy
<1>7. ASSUME NEW j \in Jobs,
             \/ invalidateMuteCache(j) \/ ReadRules(j) \/ SwapRules(j) \/ ReloadFails(j)
             \/ Warn(j) \/ OrderMute(j) \/ purgeExpiredMutes(j) \/ EditRules(j)
      PROVE  EscalationNotMissed'
  <2>1. UNCHANGED <<warns, escalated, jobFailed>>
    BY <1>7 DEF invalidateMuteCache, ReadRules, SwapRules, ReloadFails, Warn, OrderMute, purgeExpiredMutes,
                    EditRules
  <2>2. Busy({"count"}) => Busy({"count"})'
    BY <1>1, <1>7 DEF invalidateMuteCache, ReadRules, SwapRules, ReloadFails, Warn, OrderMute,
                      purgeExpiredMutes, EditRules, At, Go, Busy, NoJob
  <2> QED
    BY <1>5, <2>1, <2>2
<1>8. ASSUME NEW c \in Checks, AskMutes(c) \/ loadActiveMutes(c) \/ CheckFails(c) \/ KeepMutes(c)
      PROVE  EscalationNotMissed'
  BY <1>5, <1>8 DEF AskMutes, loadActiveMutes, CheckFails, KeepMutes, Busy
<1>9. ASSUME NEW m \in Mutes, MuteExpires(m) PROVE EscalationNotMissed'
  BY <1>5, <1>9 DEF MuteExpires, Busy
<1>10. EntryAges => EscalationNotMissed'
  BY <1>5 DEF EntryAges, Busy
<1>11. ClearWarn => EscalationNotMissed'
  BY <1>1 DEF ClearWarn, Busy, EscalationNotMissed
<1> QED
  BY <1>2, <1>3, <1>4, <1>6, <1>7, <1>8, <1>9, <1>10, <1>11 DEF OctoNext, OctoJob

\* A reload that ends well without having been overtaken has read the last edit.
LEMMA RulesKept == OctoInv /\ OctoNext => RulesAreCurrent' /\ ReadsThePast'
<1> SUFFICES ASSUME OctoInv, OctoNext PROVE RulesAreCurrent' /\ ReadsThePast'
  OBVIOUS
<1>1. /\ RulesAreCurrent /\ ReadsThePast /\ table \in Nat
      /\ job \in [Jobs -> [pc : {"idle", "warn", "count", "apply", "tell", "reload", "swap"},
                           read : 0 .. MaxEdits]]
      /\ \A j \in Jobs : job[j].read \in Nat
  BY OctoAssumption DEF OctoAssumption, OctoInv, OctoTypeOK, ModerationIsCurrent
<1>2. ASSUME NEW j \in Jobs, EditRules(j) PROVE RulesAreCurrent' /\ ReadsThePast'
  BY <1>1, <1>2 DEF EditRules, At, Go, Busy, RulesAreCurrent, ReadsThePast
<1>3. ASSUME NEW j \in Jobs, ReadRules(j) PROVE RulesAreCurrent' /\ ReadsThePast'
  <2>1. job'[j] = [pc |-> "swap", read |-> table] /\ \A k \in Jobs \ {j} : job'[k] = job[k]
    BY <1>1, <1>3 DEF ReadRules
  <2>2. table' = table /\ Busy({"reload", "swap"})'
    BY <1>3, <2>1 DEF ReadRules, Busy
  <2> QED
    BY <1>1, <2>1, <2>2 DEF At, RulesAreCurrent, ReadsThePast
<1>4. ASSUME NEW j \in Jobs, SwapRules(j) PROVE RulesAreCurrent' /\ ReadsThePast'
  <2>1. /\ rules' = job[j].read /\ table' = table /\ job[j].read <= table
        /\ job[j].read < table => behind'
    BY <1>1, <1>4 DEF SwapRules, ReadsThePast
  <2>2. RulesAreCurrent'
    BY <1>1, <2>1 DEF RulesAreCurrent
  <2>3. ReadsThePast'
    BY <1>1, <1>4, <2>1 DEF SwapRules, At, NoJob, ReadsThePast
  <2> QED
    BY <2>2, <2>3
<1>5. ASSUME NEW j \in Jobs, ReloadFails(j) PROVE RulesAreCurrent' /\ ReadsThePast'
  <2>1. RulesAreCurrent'
    BY <1>5 DEF ReloadFails, RulesAreCurrent
  <2>2. ReadsThePast'
    BY <1>1, <1>5 DEF ReloadFails, At, NoJob, ReadsThePast
  <2> QED
    BY <2>1, <2>2
<1>6. ASSUME UNCHANGED <<table, rules, behind>>, Busy({"reload", "swap"}) => Busy({"reload", "swap"})',
             \A j \in Jobs : At(j, "swap")' => At(j, "swap") /\ job'[j].read = job[j].read
      PROVE  RulesAreCurrent' /\ ReadsThePast'
  BY <1>1, <1>6 DEF RulesAreCurrent, ReadsThePast
<1>7. ASSUME NEW j \in Jobs, NEW m \in Mutes, applyMute(j, m) \/ removeMute(j, m)
      PROVE  RulesAreCurrent' /\ ReadsThePast'
  BY <1>1, <1>6, <1>7 DEF applyMute, removeMute, At, Go, Busy
<1>8. ASSUME NEW j \in Jobs,
             \/ invalidateMuteCache(j) \/ InsertWarn(j) \/ CountWarns(j) \/ JobFails(j)
             \/ Warn(j) \/ OrderMute(j) \/ purgeExpiredMutes(j)
      PROVE  RulesAreCurrent' /\ ReadsThePast'
  <2>1. UNCHANGED <<table, rules, behind>>
    BY <1>8 DEF invalidateMuteCache, InsertWarn, CountWarns, JobFails, Warn, OrderMute, purgeExpiredMutes
  <2>2. PICK pc : pc \notin {"reload", "swap"} /\ Go(j, pc)
    BY <1>8 DEF invalidateMuteCache, InsertWarn, CountWarns, JobFails, Warn, OrderMute, purgeExpiredMutes
  <2>3. job[j].pc \notin {"reload", "swap"}
    BY <1>8 DEF invalidateMuteCache, InsertWarn, CountWarns, JobFails, Warn, OrderMute, purgeExpiredMutes, At
  <2> QED
    BY <1>1, <1>6, <2>1, <2>2, <2>3 DEF At, Go, Busy
<1>9. ASSUME NEW c \in Checks, AskMutes(c) \/ loadActiveMutes(c) \/ CheckFails(c) \/ KeepMutes(c)
      PROVE  RulesAreCurrent' /\ ReadsThePast'
  BY <1>6, <1>9 DEF AskMutes, loadActiveMutes, CheckFails, KeepMutes, At, Busy
<1>10. ASSUME NEW m \in Mutes, MuteExpires(m) PROVE RulesAreCurrent' /\ ReadsThePast'
  BY <1>6, <1>10 DEF MuteExpires, At, Busy
<1>11. EntryAges \/ ClearWarn => RulesAreCurrent' /\ ReadsThePast'
  BY <1>6 DEF EntryAges, ClearWarn, At, Busy
<1> QED
  BY <1>2, <1>3, <1>4, <1>5, <1>7, <1>8, <1>9, <1>10, <1>11 DEF OctoNext, OctoJob

LEMMA OctoSteps == OctoInv /\ [OctoNext]_octoVars => OctoInv'
<1>1. OctoInv /\ UNCHANGED octoVars => OctoInv'
  BY DEF octoVars, OctoInv, OctoTypeOK, ReadsThePast, At, ModerationIsCurrent, MuteCacheIsTrue,
         EscalationNotMissed, RulesAreCurrent, Busy, Active
<1>2. OctoInv /\ OctoNext => OctoInv'
  BY TypesKept, CacheKept, EscalationKept, RulesKept DEF OctoInv, ModerationIsCurrent
<1> QED
  BY <1>1, <1>2

\* The cache of mutes, the escalation of warnings and the rules in memory
\* (mutes.ts, pipeline.ts, cache.ts) agree with the tables in the way the run
\* checks, for any number of jobs and checks at a time.
THEOREM ModerationKeepsUp == OctoSpec => []ModerationIsCurrent
<1>1. OctoInv => ModerationIsCurrent
  BY DEF OctoInv
<1> QED
  BY <1>1, OctoSteps, InitModeration, PTL DEF OctoSpec

-----------------------------------------------------------------------------
(* ChatQueue.  A message that no two passes have read, and whose answer    *)
(* was not lost, is in one place: in its first dispatch, in the queue, or  *)
(* in the batch of one pass, with one entry (that is in the queue too      *)
(* until the pass removes it).  There it was never sent.                   *)

InBatch(e) == \E w \in Passes : e \in pass[w].batch
Around(m) == m \in direct \/ \E n \in 0 .. MaxAttempts : <<m, n>> \in outbox \/ InBatch(<<m, n>>)

OnePlace == \A m \in Messages \ doubtful :
    /\ m \in direct => \A n \in 0 .. MaxAttempts : <<m, n>> \notin outbox /\ ~InBatch(<<m, n>>)
    /\ \A k, n \in 0 .. MaxAttempts :
         (<<m, k>> \in outbox \/ InBatch(<<m, k>>)) /\ (<<m, n>> \in outbox \/ InBatch(<<m, n>>)) => k = n
    /\ \A n \in 0 .. MaxAttempts, v, w \in Passes :
         <<m, n>> \in pass[v].batch /\ <<m, n>> \in pass[w].batch => v = w

\* Where a pass is with an entry.
HandsFit == \A w \in Passes : \A e \in pass[w].batch : e[1] \notin doubtful =>
    /\ pass[w].pc \in {"read", "work"}
    /\ pass[w].pc = "read" => e \in outbox
    /\ pass[w].pc = "work" => e \notin outbox

NotSentYet == \A m \in Messages \ doubtful :
    /\ sent[m] <= 1
    /\ Around(m) => sent[m] = 0
    /\ sent[m] = 1 => m \in settled

ChatQueueInv ==
    /\ ChatTypeOK
    /\ OnePlace
    /\ HandsFit
    /\ NotSentYet

LEMMA InitChat == ChatInit => ChatQueueInv
<1> SUFFICES ASSUME ChatInit PROVE ChatQueueInv
  OBVIOUS
<1>1. MaxOutages \in Nat /\ 0 \in 0 .. MaxOutages
  BY ChatAssumption DEF ChatAssumption
<1>2. ChatTypeOK
  BY <1>1 DEF ChatInit, ChatTypeOK, IdlePass
<1> QED
  BY <1>2 DEF ChatInit, IdlePass, ChatQueueInv, OnePlace, HandsFit, NotSentYet, Around, InBatch

LEMMA EntriesAre == \A e \in Entries : e = <<e[1], e[2]>> /\ e[1] \in Messages /\ e[2] \in 0 .. MaxAttempts
  BY DEF Entries

LEMMA RelayKeepsOne ==
    ASSUME ChatQueueInv, NEW m \in Messages, Relay(m) PROVE ChatQueueInv'
<1>1. /\ UNCHANGED <<outbox, pass, sent, settled, doubtful, inHand, outages>>
      /\ direct' = direct \cup {m} /\ m \notin Seen
  BY DEF Relay
<1>2. ChatTypeOK'
  BY <1>1 DEF ChatQueueInv, ChatTypeOK
<1>3. ASSUME m \notin doubtful, NEW n \in 0 .. MaxAttempts
      PROVE  <<m, n>> \notin outbox /\ ~InBatch(<<m, n>>)
  <2>1. <<m, n>> \notin outbox
    BY <1>1 DEF Seen, Open, Queued
  <2>2. ASSUME NEW w \in Passes, <<m, n>> \in pass[w].batch PROVE FALSE
    <3>1. pass[w].pc = "work"
      BY <1>3, <2>1, <2>2 DEF ChatQueueInv, HandsFit
    <3>2. m \in Held(w)
      BY <2>2 DEF Held
    <3> QED
      BY <1>1, <3>1, <3>2 DEF Seen, Open, Removed
  <2> QED
    BY <2>1, <2>2 DEF InBatch
<1>4. OnePlace'
  BY <1>1, <1>3 DEF ChatQueueInv, OnePlace, InBatch
<1>5. m \notin doubtful => sent[m] = 0
  BY <1>1 DEF Seen, ChatQueueInv, ChatTypeOK, NotSentYet
<1>6. NotSentYet'
  BY <1>1, <1>5 DEF ChatQueueInv, NotSentYet, Around, InBatch
<1>7. HandsFit'
  BY <1>1 DEF ChatQueueInv, HandsFit
<1> QED
  BY <1>2, <1>4, <1>6, <1>7 DEF ChatQueueInv

LEMMA DirectKeepsOne ==
    ASSUME ChatQueueInv, NEW m \in Messages, DirectEnds(m) \/ Enqueue(m) PROVE ChatQueueInv'
<1>1. CASE DirectEnds(m)
  <2>1. /\ UNCHANGED <<outbox, pass, doubtful, inHand, outages>> /\ m \in direct
        /\ direct' = direct \ {m} /\ settled' = settled \cup {m}
        /\ sent' = sent \/ sent' = [sent EXCEPT ![m] = @ + 1]
    BY <1>1 DEF DirectEnds
  <2>2. sent \in [Messages -> Nat] /\ sent' \in [Messages -> Nat]
        /\ \A k \in Messages \ {m} : sent'[k] = sent[k]
    BY <2>1 DEF ChatQueueInv, ChatTypeOK
  <2>3. ChatTypeOK'
    BY <2>1, <2>2 DEF ChatQueueInv, ChatTypeOK
  <2>4. OnePlace' /\ HandsFit'
    BY <2>1 DEF ChatQueueInv, OnePlace, HandsFit, InBatch
  <2>5. ASSUME m \notin doubtful PROVE ~Around(m)' /\ sent'[m] <= 1 /\ m \in settled'
    <3>1. sent[m] = 0
      BY <2>1, <2>5 DEF ChatQueueInv, NotSentYet, Around
    <3>2. sent'[m] <= 1 /\ m \in settled'
      BY <2>1, <2>2, <3>1
    <3>3. ~Around(m)'
      BY <2>1, <2>5 DEF ChatQueueInv, OnePlace, Around, InBatch
    <3> QED
      BY <3>2, <3>3
  <2>6. ASSUME NEW k \in Messages \ doubtful, k # m
        PROVE  sent'[k] <= 1 /\ (Around(k)' => sent'[k] = 0) /\ (sent'[k] = 1 => k \in settled')
    BY <2>1, <2>2, <2>6 DEF ChatQueueInv, NotSentYet, Around, InBatch
  <2> QED
    BY <2>1, <2>3, <2>4, <2>5, <2>6 DEF ChatQueueInv, NotSentYet
<1>2. CASE Enqueue(m)
  <2>1. /\ UNCHANGED <<pass, sent, settled, doubtful, inHand, outages>> /\ m \in direct
        /\ direct' = direct \ {m} /\ outbox' = outbox \cup {<<m, 0>>}
    BY <1>2 DEF Enqueue
  <2>2. 0 \in 0 .. MaxAttempts
    BY ChatAssumption DEF ChatAssumption
  <2>3. ChatTypeOK'
    BY <2>1, <2>2 DEF ChatQueueInv, ChatTypeOK, Entries
  <2>4. m \notin doubtful => \A n \in 0 .. MaxAttempts : <<m, n>> \notin outbox /\ ~InBatch(<<m, n>>)
    BY <2>1 DEF ChatQueueInv, OnePlace
  <2>5. OnePlace'
    BY <2>1, <2>2, <2>4 DEF ChatQueueInv, OnePlace, InBatch
  <2>6. HandsFit'
    BY <2>1, <2>2, <2>4 DEF ChatQueueInv, HandsFit, InBatch
  <2>7. NotSentYet'
    BY <2>1 DEF ChatQueueInv, NotSentYet, Around, InBatch
  <2> QED
    BY <2>3, <2>5, <2>6, <2>7 DEF ChatQueueInv
<1> QED
  BY <1>1, <1>2

LEMMA ReadKeepsOne ==
    ASSUME ChatQueueInv, NEW w \in Passes, NEW due \in SUBSET outbox, ReadDue(w, due)
    PROVE  ChatQueueInv'
<1>1. /\ UNCHANGED <<outbox, direct, sent, settled, inHand, outages>>
      /\ pass'[w] = [pc |-> "read", batch |-> due] /\ \A v \in Passes \ {w} : pass'[v] = pass[v]
      /\ pass' \in [Passes -> [pc : {"idle", "read", "work"}, batch : SUBSET Entries]]
      /\ doubtful' = doubtful \cup {e[1] : e \in due \cap UNION {pass[v].batch : v \in Passes}}
  BY DEF ReadDue, ChatQueueInv, ChatTypeOK
<1>2. doubtful \subseteq doubtful' /\ doubtful' \subseteq Messages
  BY <1>1, EntriesAre DEF ChatQueueInv, ChatTypeOK
<1>3. ChatTypeOK'
  BY <1>1, <1>2 DEF ChatQueueInv, ChatTypeOK
<1>4. ASSUME NEW e \in due, e[1] \notin doubtful', NEW v \in Passes PROVE e \notin pass[v].batch
  BY <1>1, <1>4
<1>5. ASSUME NEW e, InBatch(e)' PROVE e \in outbox \/ InBatch(e)
  BY <1>1, <1>5 DEF InBatch
<1>6. OnePlace'
  <2> SUFFICES ASSUME NEW m \in Messages, m \notin doubtful'
               PROVE  /\ m \in direct => \A n \in 0 .. MaxAttempts : <<m, n>> \notin outbox /\ ~InBatch(<<m, n>>)'
                      /\ \A k, n \in 0 .. MaxAttempts :
                           (<<m, k>> \in outbox \/ InBatch(<<m, k>>)') /\ (<<m, n>> \in outbox \/ InBatch(<<m, n>>)') => k = n
                      /\ \A n \in 0 .. MaxAttempts, u, v \in Passes :
                           <<m, n>> \in pass'[u].batch /\ <<m, n>> \in pass'[v].batch => u = v
    BY <1>1 DEF OnePlace
  <2>1. m \notin doubtful
    BY <1>2
  <2>2. m \in direct => \A n \in 0 .. MaxAttempts : <<m, n>> \notin outbox /\ ~InBatch(<<m, n>>)'
    BY <1>5, <2>1 DEF ChatQueueInv, OnePlace
  <2>3. \A k, n \in 0 .. MaxAttempts :
          (<<m, k>> \in outbox \/ InBatch(<<m, k>>)') /\ (<<m, n>> \in outbox \/ InBatch(<<m, n>>)') => k = n
    BY <1>5, <2>1 DEF ChatQueueInv, OnePlace
  <2>4. ASSUME NEW n \in 0 .. MaxAttempts, NEW u \in Passes, NEW v \in Passes,
               <<m, n>> \in pass'[u].batch, <<m, n>> \in pass'[v].batch
        PROVE  u = v
    BY <1>1, <1>4, <2>1, <2>4 DEF ChatQueueInv, OnePlace
  <2> QED
    BY <2>2, <2>3, <2>4
<1>7. HandsFit'
  <2> SUFFICES ASSUME NEW v \in Passes, NEW e \in pass'[v].batch, e[1] \notin doubtful'
               PROVE  /\ pass'[v].pc \in {"read", "work"}
                      /\ pass'[v].pc = "read" => e \in outbox
                      /\ pass'[v].pc = "work" => e \notin outbox
    BY <1>1 DEF HandsFit
  <2> QED
    BY <1>1, <1>2 DEF ChatQueueInv, HandsFit
<1>8. NotSentYet'
  <2> SUFFICES ASSUME NEW m \in Messages, m \notin doubtful'
               PROVE  /\ sent[m] <= 1
                      /\ Around(m)' => sent[m] = 0
                      /\ sent[m] = 1 => m \in settled
    BY <1>1 DEF NotSentYet
  <2>1. Around(m)' => Around(m)
    BY <1>1, <1>5 DEF Around
  <2> QED
    BY <1>2, <2>1 DEF ChatQueueInv, NotSentYet
<1> QED
  BY <1>3, <1>6, <1>7, <1>8 DEF ChatQueueInv

LEMMA RemoveKeepsOne ==
    ASSUME ChatQueueInv, NEW w \in Passes, RemoveDue(w) PROVE ChatQueueInv'
<1>1. /\ UNCHANGED <<direct, sent, settled, doubtful, inHand, outages>>
      /\ pass[w].pc = "read" /\ outbox' = outbox \ pass[w].batch
      /\ pass'[w].pc = "work" /\ pass'[w].batch = pass[w].batch
      /\ \A v \in Passes \ {w} : pass'[v] = pass[v]
      /\ pass' \in [Passes -> [pc : {"idle", "read", "work"}, batch : SUBSET Entries]]
  BY DEF RemoveDue, ChatQueueInv, ChatTypeOK
<1>2. \A v \in Passes : pass'[v].batch = pass[v].batch
  BY <1>1
<1>3. ChatTypeOK'
  BY <1>1 DEF ChatQueueInv, ChatTypeOK
<1>4. OnePlace'
  BY <1>1, <1>2 DEF ChatQueueInv, OnePlace, InBatch
<1>5. HandsFit'
  <2> SUFFICES ASSUME NEW v \in Passes, NEW e \in pass[v].batch, e[1] \notin doubtful
               PROVE  /\ pass'[v].pc \in {"read", "work"}
                      /\ pass'[v].pc = "read" => e \in outbox'
                      /\ pass'[v].pc = "work" => e \notin outbox'
    BY <1>1, <1>2 DEF HandsFit
  <2>1. e \in Entries
    BY DEF ChatQueueInv, ChatTypeOK
  <2>2. e \in pass[w].batch => v = w
    BY <2>1, EntriesAre DEF ChatQueueInv, OnePlace
  <2> QED
    BY <1>1, <2>2 DEF ChatQueueInv, HandsFit
<1>6. NotSentYet'
  BY <1>1, <1>2 DEF ChatQueueInv, NotSentYet, Around, InBatch
<1> QED
  BY <1>3, <1>4, <1>5, <1>6 DEF ChatQueueInv

\* An entry leaves a batch: dropped, sent, or with one attempt more in the queue.
LEMMA LeavingKeepsOne ==
    ASSUME ChatQueueInv, NEW w \in Passes, NEW e \in pass[w].batch, pass[w].pc = "work", Next1(w, e),
           UNCHANGED <<direct, inHand, outages>>,
           settled' \in {settled, settled \cup {e[1]}}, doubtful' \in {doubtful, doubtful \cup {e[1]}},
           sent' \in {sent, [sent EXCEPT ![e[1]] = @ + 1]},
           \/ outbox' = outbox
           \/ outbox' = outbox \cup {<<e[1], e[2] + 1>>} /\ e[2] + 1 \in 0 .. MaxAttempts,
           e[1] \notin doubtful' /\ sent' # sent => settled' = settled \cup {e[1]} /\ outbox' = outbox
    PROVE  ChatQueueInv'
<1> DEFINE m == e[1]
<1>1. e \in Entries /\ e = <<m, e[2]>> /\ m \in Messages /\ e[2] \in 0 .. MaxAttempts
  BY EntriesAre DEF ChatQueueInv, ChatTypeOK
<1>2. /\ pass'[w].batch = pass[w].batch \ {e} /\ pass'[w].pc \in {"idle", "work"}
      /\ pass'[w].batch # {} => pass'[w].pc = "work"
      /\ \A v \in Passes \ {w} : pass'[v] = pass[v]
      /\ pass' \in [Passes -> [pc : {"idle", "read", "work"}, batch : SUBSET Entries]]
  BY DEF Next1, IdlePass, ChatQueueInv, ChatTypeOK
<1>3. sent' \in [Messages -> Nat] /\ \A k \in Messages \ {m} : sent'[k] = sent[k]
  BY <1>1 DEF ChatQueueInv, ChatTypeOK
<1>4. ChatTypeOK'
  BY <1>1, <1>2, <1>3 DEF ChatQueueInv, ChatTypeOK, Entries
<1>5. ASSUME m \notin doubtful
      PROVE  /\ m \notin direct
             /\ \A n \in 0 .. MaxAttempts : <<m, n>> \notin outbox
             /\ \A v \in Passes, n \in 0 .. MaxAttempts : <<m, n>> \in pass[v].batch => v = w /\ n = e[2]
             /\ sent[m] = 0
  <2>1. InBatch(e)
    BY DEF InBatch
  <2>2. m \notin direct /\ e \notin outbox
    BY <1>1, <1>5, <2>1 DEF ChatQueueInv, OnePlace, HandsFit
  <2>3. \A n \in 0 .. MaxAttempts : <<m, n>> \in outbox \/ InBatch(<<m, n>>) => n = e[2]
    BY <1>1, <1>5, <2>1 DEF ChatQueueInv, OnePlace
  <2>4. \A v \in Passes : e \in pass[v].batch => v = w
    BY <1>1, <1>5 DEF ChatQueueInv, OnePlace
  <2>5. sent[m] = 0
    BY <1>1, <1>5, <2>1 DEF ChatQueueInv, NotSentYet, Around
  <2> QED
    BY <1>1, <2>2, <2>3, <2>4, <2>5 DEF InBatch
\* Nothing of the message is left but what went back to the queue.
<1>6. ASSUME m \notin doubtful
      PROVE  /\ \A n \in 0 .. MaxAttempts : ~InBatch(<<m, n>>)'
             /\ \A n \in 0 .. MaxAttempts : <<m, n>> \in outbox' => outbox' # outbox /\ n = e[2] + 1
  <2>1. ASSUME NEW n \in 0 .. MaxAttempts, NEW v \in Passes, <<m, n>> \in pass'[v].batch PROVE FALSE
    <3>1. <<m, n>> \in pass[v].batch
      BY <1>2, <2>1
    <3>2. v = w /\ <<m, n>> = e
      BY <1>1, <1>5, <1>6, <3>1
    <3> QED
      BY <1>2, <2>1, <3>2
  <2> QED
    BY <1>5, <1>6, <2>1 DEF InBatch
\* The other messages are where they were.
<1>7. ASSUME NEW k \in Messages, k # m, NEW n \in 0 .. MaxAttempts
      PROVE  /\ <<k, n>> \in outbox' <=> <<k, n>> \in outbox
             /\ \A v \in Passes : <<k, n>> \in pass'[v].batch <=> <<k, n>> \in pass[v].batch
             /\ InBatch(<<k, n>>)' <=> InBatch(<<k, n>>)
  <2>1. <<k, n>> # e
    BY <1>7
  <2> QED
    BY <1>2, <1>7, <2>1 DEF InBatch
<1>8. OnePlace'
  <2>1. ASSUME m \notin doubtful'
        PROVE  /\ m \notin direct'
               /\ \A a, n \in 0 .. MaxAttempts :
                    (<<m, a>> \in outbox \/ InBatch(<<m, a>>))' /\ (<<m, n>> \in outbox \/ InBatch(<<m, n>>))' => a = n
               /\ \A n \in 0 .. MaxAttempts, v \in Passes : <<m, n>> \notin pass'[v].batch
    BY <1>5, <1>6, <2>1 DEF InBatch
  <2>2. ASSUME NEW k \in Messages \ doubtful', k # m
        PROVE  /\ k \in direct' => \A n \in 0 .. MaxAttempts : <<k, n>> \notin outbox' /\ ~InBatch(<<k, n>>)'
               /\ \A a, n \in 0 .. MaxAttempts :
                    (<<k, a>> \in outbox \/ InBatch(<<k, a>>))' /\ (<<k, n>> \in outbox \/ InBatch(<<k, n>>))' => a = n
               /\ \A n \in 0 .. MaxAttempts, u, v \in Passes :
                    <<k, n>> \in pass'[u].batch /\ <<k, n>> \in pass'[v].batch => u = v
    BY <1>7, <2>2 DEF ChatQueueInv, OnePlace
  <2> QED
    BY <2>1, <2>2 DEF OnePlace
<1>9. HandsFit'
  <2> SUFFICES ASSUME NEW v \in Passes, NEW f \in pass'[v].batch, f[1] \notin doubtful'
               PROVE  /\ pass'[v].pc \in {"read", "work"}
                      /\ pass'[v].pc = "read" => f \in outbox'
                      /\ pass'[v].pc = "work" => f \notin outbox'
    BY DEF HandsFit
  <2>1. f \in Entries /\ f = <<f[1], f[2]>> /\ f[1] \in Messages /\ f[2] \in 0 .. MaxAttempts
    BY <1>2, EntriesAre
  <2>2. f[1] # m
    BY <1>6, <2>1 DEF InBatch
  <2>3. f \in pass[v].batch /\ (f \in outbox' <=> f \in outbox)
    BY <1>7, <2>1, <2>2
  <2>4. pass'[v].pc = pass[v].pc
    BY <1>2
  <2> QED
    BY <2>3, <2>4 DEF ChatQueueInv, HandsFit
<1>10. NotSentYet'
  <2>1. ASSUME m \notin doubtful'
        PROVE  sent'[m] <= 1 /\ (Around(m)' => sent'[m] = 0) /\ (sent'[m] = 1 => m \in settled')
    <3>1. sent[m] = 0 /\ m \notin direct'
      BY <1>5, <2>1
    <3>2. CASE sent' = sent
      BY <3>1, <3>2
    <3>3. CASE sent' # sent
      <4>1. sent'[m] = 1 /\ m \in settled' /\ outbox' = outbox
        BY <1>1, <2>1, <3>1, <3>3 DEF ChatQueueInv, ChatTypeOK
      <4>2. \A n \in 0 .. MaxAttempts : <<m, n>> \notin outbox' /\ ~InBatch(<<m, n>>)'
        BY <1>6, <2>1, <4>1
      <4>3. ~Around(m)'
        BY <3>1, <4>2 DEF Around
      <4> QED
        BY <4>1, <4>3
    <3> QED
      BY <3>2, <3>3
  <2>2. ASSUME NEW k \in Messages \ doubtful', k # m
        PROVE  sent'[k] <= 1 /\ (Around(k)' => sent'[k] = 0) /\ (sent'[k] = 1 => k \in settled')
    <3>1. Around(k)' => Around(k)
      BY <1>7, <2>2 DEF Around
    <3> QED
      BY <1>3, <2>2, <3>1 DEF ChatQueueInv, NotSentYet
  <2> QED
    BY <2>1, <2>2 DEF NotSentYet
<1> QED
  BY <1>4, <1>8, <1>9, <1>10 DEF ChatQueueInv

LEMMA WorkKeepsOne ==
    ASSUME ChatQueueInv, NEW w \in Passes, Work(w) PROVE ChatQueueInv'
<1>1. ASSUME NEW e \in pass[w].batch,
             GiveUp(w, e) \/ Sent(w, e) \/ Refused(w, e) \/ RateLimited(w, e) \/ Throws(w, e)
      PROVE  ChatQueueInv'
  <2>1. e \in Entries /\ e[1] \in Messages /\ e[2] \in 0 .. MaxAttempts /\ MaxAttempts \in Nat
    BY EntriesAre, ChatAssumption DEF ChatAssumption, ChatQueueInv, ChatTypeOK
  <2>2. CASE GiveUp(w, e) \/ Refused(w, e)
    BY <2>2, LeavingKeepsOne DEF GiveUp, Refused, Sending, Drop
  <2>3. CASE Sent(w, e)
    BY <2>3, LeavingKeepsOne DEF Sent, Sending
  <2>4. CASE RateLimited(w, e)
    <3>1. e[2] + 1 \in 0 .. MaxAttempts
      BY <2>1, <2>4 DEF RateLimited, Sending
    <3> QED
      BY <2>4, <3>1, LeavingKeepsOne DEF RateLimited, Sending, Reschedule
  <2>5. CASE Throws(w, e)
    <3>1. e[2] + 1 \in 0 .. MaxAttempts
      BY <2>1, <2>5 DEF Throws, Sending
    <3> QED
      BY <2>5, <3>1, LeavingKeepsOne DEF Throws, Sending, Reschedule
  <2> QED
    BY <1>1, <2>2, <2>3, <2>4, <2>5
<1> QED
  BY <1>1, ReadKeepsOne, RemoveKeepsOne DEF Work

LEMMA OutageKeepsOne ==
    ASSUME ChatQueueInv, (\E w \in Passes : PassDies(w)) \/ Crash PROVE ChatQueueInv'
<1>1. /\ UNCHANGED <<outbox, sent, settled, doubtful>> /\ direct' \subseteq direct
      /\ \A v \in Passes : pass'[v] = pass[v] \/ pass'[v].batch = {}
      /\ pass' \in [Passes -> [pc : {"idle", "read", "work"}, batch : SUBSET Entries]]
  BY DEF PassDies, Crash, IdlePass, ChatQueueInv, ChatTypeOK
<1>2. ChatTypeOK'
  <2>1. outages' \in 0 .. MaxOutages
    BY ChatAssumption DEF ChatAssumption, PassDies, Crash, ChatQueueInv, ChatTypeOK
  <2>2. \A v \in Passes : Held(v) \subseteq Messages
    BY EntriesAre DEF Held, ChatQueueInv, ChatTypeOK
  <2>3. inHand' \subseteq Messages
    BY <2>2 DEF PassDies, Crash, Removed, ChatQueueInv, ChatTypeOK
  <2> QED
    BY <1>1, <2>1, <2>3 DEF ChatQueueInv, ChatTypeOK
<1>3. \A e : InBatch(e)' => InBatch(e)
  BY <1>1 DEF InBatch
<1>4. OnePlace'
  <2> SUFFICES ASSUME NEW m \in Messages, m \notin doubtful
               PROVE  /\ m \in direct' => \A n \in 0 .. MaxAttempts : <<m, n>> \notin outbox /\ ~InBatch(<<m, n>>)'
                      /\ \A k, n \in 0 .. MaxAttempts :
                           (<<m, k>> \in outbox \/ InBatch(<<m, k>>)') /\ (<<m, n>> \in outbox \/ InBatch(<<m, n>>)') => k = n
                      /\ \A n \in 0 .. MaxAttempts, u, v \in Passes :
                           <<m, n>> \in pass'[u].batch /\ <<m, n>> \in pass'[v].batch => u = v
    BY <1>1 DEF OnePlace
  <2> QED
    BY <1>1, <1>3 DEF ChatQueueInv, OnePlace
<1>5. HandsFit'
  BY <1>1 DEF ChatQueueInv, HandsFit
<1>6. NotSentYet'
  <2>1. \A m \in Messages : Around(m)' => Around(m)
    BY <1>1, <1>3 DEF Around
  <2> QED
    BY <1>1, <2>1 DEF ChatQueueInv, NotSentYet
<1> QED
  BY <1>2, <1>4, <1>5, <1>6 DEF ChatQueueInv

LEMMA ChatSteps == ChatQueueInv /\ [ChatNext]_chatVars => ChatQueueInv'
<1>1. ChatQueueInv /\ UNCHANGED chatVars => ChatQueueInv'
  BY DEF chatVars, ChatQueueInv, ChatTypeOK, OnePlace, HandsFit, NotSentYet, Around, InBatch
<1>2. ChatQueueInv /\ ChatNext => ChatQueueInv'
  BY RelayKeepsOne, DirectKeepsOne, WorkKeepsOne, OutageKeepsOne DEF ChatNext
<1> QED
  BY <1>1, <1>2

\* The worker's passes overlap (chatOutboundQueue.ts starts one every two
\* seconds), retry and die, and Twitch takes no message twice but for the two
\* ways the history records, for any number of messages, passes and attempts.
THEOREM NoMessageTwice == ChatSpec => []SentOnce
<1>1. ChatQueueInv => SentOnce
  BY DEF ChatQueueInv, NotSentYet, SentOnce
<1> QED
  BY <1>1, ChatSteps, InitChat, PTL DEF ChatSpec

-----------------------------------------------------------------------------
(* Soundboard.  An add that has passed the key has it until it is over, so *)
(* that an address has one add at a time; whatever takes entries off the   *)
(* queue leaves a sequence of some of them.  The limits are totals: of the *)
(* entries of a kind, and of the adds on their way to be one.              *)

UnderWay == {a \in Adders : adder[a].pc \in {"scan", "push"}}

TracksNamed ==
    /\ \A a \in UnderWay : adder[a].track \in Tracks
    /\ \A o \in Overlays : ender[o].pc \in {"resolve", "note"} => ender[o].track \in Tracks

OneAddEach ==
    /\ \A a \in UnderWay : IpOf[a] \in rateKey
    /\ \A a, b \in UnderWay : IpOf[a] = IpOf[b] => a = b

EntryOf(A, a) == [track |-> A[a].track, ip |-> IpOf[a], sight |-> A[a].sight]
Spots(q, S) == {i \in 1 .. Len(q) : q[i] \in S}
Coming(A, S) == {a \in Adders : A[a].pc = "push" /\ EntryOf(A, a) \in S}
Total(q, A, S) == Cardinality(Spots(q, S)) + Cardinality(Coming(A, S))

SeenEntries == {e \in QueueEntry : e.sight # "blind"}
SeenOf(ip) == {e \in SeenEntries : e.ip = ip}
AloneOf(t) == {e \in QueueEntry : e.sight = "alone" /\ e.track = t}

WithinLimits(q, A) ==
    /\ \A ip \in Ips : Total(q, A, SeenOf(ip)) <= MaxSimult
    /\ Total(q, A, SeenEntries) < MaxQueue + Cardinality(Ips)
    /\ \A t \in Tracks : Total(q, A, AloneOf(t)) <= 1

SoundInv ==
    /\ SoundTypeOK
    /\ TracksNamed
    /\ OneAddEach
    /\ WithinLimits(queue, adder)

LEMMA SpotsAreFinite ==
    ASSUME NEW q \in Seq(QueueEntry), NEW S
    PROVE  IsFiniteSet(Spots(q, S)) /\ Cardinality(Spots(q, S)) \in Nat /\ Len(q) \in Nat
<1>1. Len(q) \in Nat
  OBVIOUS
<1>2. IsFiniteSet(1 .. Len(q))
  BY <1>1, FS_Interval
<1>3. Spots(q, S) \in SUBSET (1 .. Len(q))
  BY DEF Spots
<1> QED
  BY <1>1, <1>2, <1>3, FS_Subset, FS_CardinalityType

\* A sequence of some of the entries has no more of any kind.
LEMMA FewerSpots ==
    ASSUME NEW q \in Seq(QueueEntry), NEW r \in Seq(QueueEntry), NEW f \in [1 .. Len(r) -> 1 .. Len(q)],
           \A i, j \in 1 .. Len(r) : f[i] = f[j] => i = j, \A i \in 1 .. Len(r) : r[i] = q[f[i]], NEW S
    PROVE  Cardinality(Spots(r, S)) <= Cardinality(Spots(q, S))
<1> DEFINE g == [i \in Spots(r, S) |-> f[i]]
<1>1. g \in [Spots(r, S) -> Spots(q, S)]
  BY DEF Spots
<1>2. g \in Injection(Spots(r, S), Spots(q, S))
  BY <1>1 DEF Spots, Injection, IsInjective
<1> HIDE DEF g
<1> QED
  BY <1>2, SpotsAreFinite, FS_Injection

LEMMA OneSpotMore ==
    ASSUME NEW q \in Seq(QueueEntry), NEW e \in QueueEntry, NEW S
    PROVE  Cardinality(Spots(Append(q, e), S)) = Cardinality(Spots(q, S)) + (IF e \in S THEN 1 ELSE 0)
<1> DEFINE r == Append(q, e)
<1>1. /\ Len(q) \in Nat /\ Len(r) = Len(q) + 1 /\ r[Len(q) + 1] = e
      /\ \A i \in 1 .. Len(q) : r[i] = q[i]
  BY AppendProperties
<1>2. 1 .. Len(r) = 1 .. Len(q) \cup {Len(q) + 1} /\ Len(q) + 1 \notin 1 .. Len(q)
  BY <1>1
<1>3. Len(q) + 1 \notin Spots(q, S)
  BY <1>2 DEF Spots
<1> HIDE DEF r
<1>4. CASE e \in S
  <2>1. Spots(r, S) = Spots(q, S) \cup {Len(q) + 1}
    BY <1>1, <1>2, <1>4 DEF Spots
  <2> QED
    BY <1>3, <1>4, <2>1, SpotsAreFinite, FS_AddElement DEF r
<1>5. CASE e \notin S
  <2>1. Spots(r, S) = Spots(q, S)
    BY <1>1, <1>2, <1>5 DEF Spots
  <2> QED
    BY <1>5, <2>1, SpotsAreFinite DEF r
<1> QED
  BY <1>4, <1>5

LEMMA ComingAreFinite ==
    ASSUME NEW A, NEW S
    PROVE  IsFiniteSet(Coming(A, S)) /\ Cardinality(Coming(A, S)) \in Nat
<1>1. Coming(A, S) \in SUBSET Adders
  BY DEF Coming
<1> QED
  BY <1>1, SoundAssumption, FS_Subset, FS_CardinalityType DEF SoundAssumption

LEMMA TotalsAreNumbers ==
    ASSUME NEW q \in Seq(QueueEntry), NEW A, NEW S PROVE Total(q, A, S) \in Nat
<1>1. Cardinality(Spots(q, S)) \in Nat /\ Cardinality(Coming(A, S)) \in Nat
  BY SpotsAreFinite, ComingAreFinite
<1> QED
  BY <1>1 DEF Total

\* Entries that are taken off and adds that are given up break no limit.
LEMMA LessKeepsLimits ==
    ASSUME NEW q \in Seq(QueueEntry), NEW r \in Seq(QueueEntry), NEW A, NEW B,
           \A S : Cardinality(Spots(r, S)) <= Cardinality(Spots(q, S)),
           \A a \in Adders : B[a].pc = "push" => A[a].pc = "push" /\ A[a] = B[a],
           WithinLimits(q, A)
    PROVE  WithinLimits(r, B)
<1>1. ASSUME NEW S PROVE Total(r, B, S) <= Total(q, A, S)
  <2>1. Coming(B, S) \in SUBSET Coming(A, S)
    BY DEF Coming, EntryOf
  <2>2. Cardinality(Coming(B, S)) <= Cardinality(Coming(A, S))
    BY <2>1, ComingAreFinite, FS_Subset
  <2>3. /\ Cardinality(Coming(A, S)) \in Nat /\ Cardinality(Coming(B, S)) \in Nat
        /\ Cardinality(Spots(q, S)) \in Nat /\ Cardinality(Spots(r, S)) \in Nat
        /\ Cardinality(Spots(r, S)) <= Cardinality(Spots(q, S))
    BY ComingAreFinite, SpotsAreFinite
  <2> QED
    BY <2>2, <2>3 DEF Total
<1>2. \A S : Total(r, B, S) \in Nat /\ Total(q, A, S) \in Nat
  BY TotalsAreNumbers
<1>3. MaxQueue \in Nat /\ MaxSimult \in Nat /\ Cardinality(Ips) \in Nat
  BY SoundAssumption, FS_CardinalityType DEF SoundAssumption
<1>4. \A ip \in Ips : Total(r, B, SeenOf(ip)) <= MaxSimult
  <2> SUFFICES ASSUME NEW ip \in Ips PROVE Total(r, B, SeenOf(ip)) <= MaxSimult
    OBVIOUS
  <2>1. Total(q, A, SeenOf(ip)) <= MaxSimult
    BY DEF WithinLimits
  <2> QED
    BY <1>1, <1>2, <1>3, <2>1
<1>5. Total(r, B, SeenEntries) < MaxQueue + Cardinality(Ips)
  <2>1. Total(q, A, SeenEntries) < MaxQueue + Cardinality(Ips)
    BY DEF WithinLimits
  <2> QED
    BY <1>1, <1>2, <1>3, <2>1
<1>6. \A t \in Tracks : Total(r, B, AloneOf(t)) <= 1
  <2> SUFFICES ASSUME NEW t \in Tracks PROVE Total(r, B, AloneOf(t)) <= 1
    OBVIOUS
  <2>1. Total(q, A, AloneOf(t)) <= 1
    BY DEF WithinLimits
  <2> QED
    BY <1>1, <1>2, <2>1
<1> QED
  BY <1>4, <1>5, <1>6 DEF WithinLimits

\* There is one add at most under way for each address.
LEMMA AddsAreFew ==
    ASSUME SoundInv
    PROVE  /\ \A T \in SUBSET Adders : IsFiniteSet(T) /\ Cardinality(T) \in Nat
           /\ \A T \in SUBSET UnderWay : Cardinality(T) <= Cardinality(Ips)
           /\ Cardinality(Ips) \in Nat
<1>1. IsFiniteSet(Adders) /\ IsFiniteSet(Ips) /\ IpOf \in [Adders -> Ips]
  BY SoundAssumption DEF SoundAssumption
<1>2. ASSUME NEW T \in SUBSET Adders PROVE IsFiniteSet(T) /\ Cardinality(T) \in Nat
  BY <1>1, <1>2, FS_Subset, FS_CardinalityType
<1>3. ASSUME NEW T \in SUBSET UnderWay PROVE Cardinality(T) <= Cardinality(Ips)
  <2> DEFINE g == [a \in T |-> IpOf[a]]
  <2>1. g \in [T -> Ips]
    BY <1>1, <1>3 DEF UnderWay
  <2>2. g \in Injection(T, Ips)
    BY <1>3, <2>1 DEF Injection, IsInjective, SoundInv, OneAddEach
  <2> HIDE DEF g
  <2> QED
    BY <1>1, <2>2, FS_Injection
<1> QED
  BY <1>1, <1>2, <1>3, FS_CardinalityType

\* The totals are those of the run's properties.
LEMMA LimitsAreKept == SoundInv => QueueWithinLimits
<1> SUFFICES ASSUME SoundInv PROVE QueueWithinLimits
  OBVIOUS
<1>1. \A i \in Places : queue[i] \in QueueEntry
  BY ElementOfSeq DEF Places, SoundInv, SoundTypeOK
<1>2. \A a \in Pushing : EntryOf(adder, a) \in QueueEntry
  BY SoundAssumption DEF SoundAssumption, Pushing, UnderWay, EntryOf, QueueEntry, Adds, SoundInv, SoundTypeOK,
                         TracksNamed
<1>3. InSight = Spots(queue, SeenEntries) /\ Seeing = Coming(adder, SeenEntries)
  BY <1>1, <1>2 DEF InSight, Seeing, Pushing, Places, Spots, Coming, EntryOf, SeenEntries
<1>4. ASSUME NEW ip \in Ips
      PROVE  /\ InSight \cap QueuedFrom(ip) = Spots(queue, SeenOf(ip))
             /\ {a \in Seeing : IpOf[a] = ip} = Coming(adder, SeenOf(ip))
  BY <1>1, <1>2 DEF InSight, Seeing, Pushing, Places, QueuedFrom, Spots, Coming, EntryOf, SeenEntries, SeenOf
<1>5. ASSUME NEW t \in Tracks
      PROVE  /\ {i \in QueuedTrack(t) : queue[i].sight = "alone"} = Spots(queue, AloneOf(t))
             /\ {a \in Pushing : adder[a].track = t /\ adder[a].sight = "alone"} = Coming(adder, AloneOf(t))
  BY <1>1, <1>2 DEF Pushing, Places, QueuedTrack, Spots, Coming, EntryOf, AloneOf
<1>6. ASSUME NEW ip \in Ips PROVE Cardinality({a \in Pushing : IpOf[a] = ip}) <= 1
  <2> DEFINE from == {a \in Pushing : IpOf[a] = ip}
  <2>1. \A a, b \in from : a = b
    BY DEF SoundInv, OneAddEach, UnderWay, Pushing
  <2> HIDE DEF from
  <2>2. CASE from = {}
    BY <2>2, FS_EmptySet DEF from
  <2>3. CASE from # {}
    <3>1. PICK a : from = {a}
      BY <2>1, <2>3
    <3> QED
      BY <3>1, FS_Singleton DEF from
  <2> QED
    BY <2>2, <2>3
<1>7. CapPerAddress
  BY <1>4, <1>6 DEF CapPerAddress, SoundInv, WithinLimits, Total
<1>8. LengthIsBounded
  BY <1>3 DEF LengthIsBounded, SoundInv, WithinLimits, Total
<1>9. OncePerTrack
  BY <1>5 DEF OncePerTrack, SoundInv, WithinLimits, Total
<1> QED
  BY <1>7, <1>8, <1>9 DEF QueueWithinLimits

LEMMA InitSound == SoundInit => SoundInv
<1> SUFFICES ASSUME SoundInit PROVE SoundInv
  OBVIOUS
<1>1. SoundTypeOK
  BY DEF SoundInit, SoundTypeOK, NoAdd, NoEnd, Adds, Sights
<1>2. \A S : Spots(queue, S) = {} /\ Coming(adder, S) = {}
  BY DEF SoundInit, Spots, Coming, NoAdd
<1>3. /\ MaxQueue \in Nat /\ MaxSimult \in Nat /\ Cardinality(Ips) \in Nat
      /\ Cardinality(Ips) # 0 /\ Cardinality({}) = 0
  BY SoundAssumption, FS_EmptySet, FS_CardinalityType DEF SoundAssumption
<1>4. \A S : Total(queue, adder, S) = 0
  BY <1>2, <1>3 DEF Total
<1>5. WithinLimits(queue, adder)
  BY <1>3, <1>4 DEF WithinLimits
<1> QED
  BY <1>1, <1>5 DEF SoundInv, SoundInit, TracksNamed, OneAddEach, UnderWay, NoAdd, NoEnd

\* The queue is as it was, and no add is let in.
LEMMA AddsKeepLimits ==
    ASSUME SoundInv, UNCHANGED queue,
           \A b \in Adders : adder'[b].pc = "push" => adder[b].pc = "push" /\ adder[b] = adder'[b]
    PROVE  WithinLimits(queue', adder')
<1>1. queue \in Seq(QueueEntry) /\ queue' = queue
  BY DEF SoundInv, SoundTypeOK
<1>2. \A S : Cardinality(Spots(queue, S)) <= Cardinality(Spots(queue, S))
  <2> SUFFICES ASSUME NEW S PROVE Cardinality(Spots(queue, S)) <= Cardinality(Spots(queue, S))
    OBVIOUS
  <2>1. Cardinality(Spots(queue, S)) \in Nat
    BY <1>1, SpotsAreFinite
  <2> QED
    BY <2>1
<1>3. WithinLimits(queue, adder)
  BY DEF SoundInv
<1>4. WithinLimits(queue, adder')
  BY <1>1, <1>2, <1>3, LessKeepsLimits
<1> QED
  BY <1>1, <1>4

LEMMA AdmitKeeps ==
    ASSUME SoundInv, NEW a \in Adders, NEW t \in Tracks, Admit(a, t) PROVE SoundInv'
<1>1. /\ UNCHANGED <<queue, plays, ender, nowPlaying>>
      /\ adder[a].pc = "idle" /\ IpOf[a] \notin rateKey /\ rateKey' = rateKey \cup {IpOf[a]}
      /\ adder'[a] = [pc |-> "scan", track |-> t, sight |-> "alone"]
      /\ \A b \in Adders \ {a} : adder'[b] = adder[b]
      /\ adder' \in [Adders -> Adds]
      /\ IpOf[a] \in Ips
  BY SoundAssumption DEF SoundAssumption, Admit, Adding, SoundInv, SoundTypeOK, Adds, Sights
<1>2. SoundTypeOK'
  BY <1>1 DEF SoundInv, SoundTypeOK
<1>3. UnderWay' = UnderWay \cup {a} /\ a \notin UnderWay
  BY <1>1 DEF UnderWay
<1>4. TracksNamed'
  BY <1>1, <1>3 DEF SoundInv, TracksNamed, UnderWay
<1>5. OneAddEach'
  BY <1>1, <1>3 DEF SoundInv, OneAddEach
<1>6. WithinLimits(queue', adder')
  BY <1>1, AddsKeepLimits
<1> QED
  BY <1>2, <1>4, <1>5, <1>6 DEF SoundInv

\* An add that is over, with or without its key.
LEMMA OverKeeps ==
    ASSUME SoundInv, NEW a \in Adders, a \in UnderWay, UNCHANGED <<queue, plays, ender, nowPlaying>>,
           adder' = [adder EXCEPT ![a] = NoAdd], rateKey' \in {rateKey, rateKey \ {IpOf[a]}}
    PROVE  SoundInv'
<1>1. /\ adder'[a] = NoAdd /\ \A b \in Adders \ {a} : adder'[b] = adder[b]
      /\ adder' \in [Adders -> Adds]
  BY DEF NoAdd, Adds, Sights, SoundInv, SoundTypeOK
<1>2. SoundTypeOK'
  BY <1>1 DEF SoundInv, SoundTypeOK
<1>3. UnderWay' = UnderWay \ {a}
  BY <1>1 DEF UnderWay, NoAdd
<1>4. TracksNamed'
  BY <1>1, <1>3 DEF SoundInv, TracksNamed, UnderWay
<1>5. OneAddEach'
  BY <1>1, <1>3 DEF SoundInv, OneAddEach
<1>6. WithinLimits(queue', adder')
  BY <1>1, AddsKeepLimits DEF NoAdd
<1> QED
  BY <1>2, <1>4, <1>5, <1>6 DEF SoundInv

LEMMA RefuseKeeps ==
    ASSUME SoundInv, NEW a \in Adders, Refuse(a) \/ PushFails(a) PROVE SoundInv'
<1>1. a \in UnderWay
  BY DEF Refuse, PushFails, Adding, UnderWay
<1>2. /\ UNCHANGED <<queue, plays, ender, nowPlaying>>
      /\ adder' = [adder EXCEPT ![a] = NoAdd] /\ rateKey' \in {rateKey, rateKey \ {IpOf[a]}}
  BY DEF Refuse, PushFails
<1> QED
  BY <1>1, <1>2, OverKeeps

LEMMA KeyKeeps ==
    ASSUME SoundInv, NEW ip \in Ips, RateKeyExpires(ip) PROVE SoundInv'
<1>1. /\ UNCHANGED <<queue, adder, plays, ender, nowPlaying>>
      /\ rateKey' = rateKey \ {ip} /\ \A a \in UnderWay : IpOf[a] # ip
  BY DEF RateKeyExpires, UnderWay
<1>2. UNCHANGED UnderWay
  BY <1>1 DEF UnderWay
<1>3. WithinLimits(queue', adder')
  BY <1>1, AddsKeepLimits
<1> QED
  BY <1>1, <1>2, <1>3 DEF SoundInv, SoundTypeOK, TracksNamed, OneAddEach

\* An add that is let in counts in the totals its entry counts in.
LEMMA ComingGrows ==
    ASSUME SoundInv, NEW a \in Adders, adder[a].pc = "scan",
           adder'[a].pc = "push", \A b \in Adders \ {a} : adder'[b] = adder[b], UNCHANGED queue, NEW S
    PROVE  /\ EntryOf(adder', a) \in S => Coming(adder', S) = Coming(adder, S) \cup {a}
           /\ EntryOf(adder', a) \in S => Total(queue', adder', S) = Total(queue, adder, S) + 1
           /\ EntryOf(adder', a) \notin S => Total(queue', adder', S) = Total(queue, adder, S)
<1>1. \A b \in Adders \ {a} : b \in Coming(adder', S) <=> b \in Coming(adder, S)
  BY DEF Coming, EntryOf
<1>2. a \notin Coming(adder, S) /\ (a \in Coming(adder', S) <=> EntryOf(adder', a) \in S)
  BY DEF Coming
<1>3. \A A : Coming(A, S) \subseteq Adders
  BY DEF Coming
<1>4. /\ EntryOf(adder', a) \in S => Coming(adder', S) = Coming(adder, S) \cup {a}
      /\ EntryOf(adder', a) \notin S => Coming(adder', S) = Coming(adder, S)
  BY <1>1, <1>2, <1>3
<1>5. /\ IsFiniteSet(Coming(adder, S)) /\ Cardinality(Coming(adder, S)) \in Nat
      /\ Cardinality(Spots(queue, S)) \in Nat
  BY ComingAreFinite, SpotsAreFinite DEF SoundInv, SoundTypeOK
<1>6. Cardinality(Coming(adder, S) \cup {a}) = Cardinality(Coming(adder, S)) + 1
  BY <1>2, <1>5, FS_AddElement
<1> QED
  BY <1>4, <1>5, <1>6 DEF Total

\* An add that has seen the queue: its address has no other one, the queue has
\* room, and the track is not there.
LEMMA AcceptKeeps ==
    ASSUME SoundInv, NEW a \in Adders, Accept(a) PROVE SoundInv'
<1>1. /\ UNCHANGED <<queue, rateKey, plays, ender, nowPlaying>>
      /\ adder[a].pc = "scan" /\ adder'[a].pc = "push" /\ adder'[a].track = adder[a].track
      /\ adder'[a].sight = IF Beside(a) THEN "beside" ELSE "alone"
      /\ \A b \in Adders \ {a} : adder'[b] = adder[b]
      /\ adder' \in [Adders -> Adds]
  BY DEF Accept, Adding, SoundInv, SoundTypeOK, Adds, Sights
<1>2. SoundTypeOK'
  BY <1>1 DEF SoundInv, SoundTypeOK
<1>3. UnderWay' = UnderWay /\ a \in UnderWay
  BY <1>1 DEF UnderWay
<1>4. TracksNamed' /\ OneAddEach'
  BY <1>1, <1>3 DEF SoundInv, TracksNamed, OneAddEach, UnderWay
<1>5. /\ MaxQueue \in Nat /\ MaxSimult \in Nat /\ Cardinality(Ips) \in Nat
      /\ queue \in Seq(QueueEntry) /\ Len(queue) \in Nat
  BY SoundAssumption, AddsAreFew DEF SoundAssumption, SoundInv, SoundTypeOK
<1> DEFINE e == EntryOf(adder', a)
<1>6. e.ip = IpOf[a] /\ e.track = adder[a].track /\ e.sight \in {"beside", "alone"} /\ e \in QueueEntry
  <2>1. IpOf[a] \in Ips /\ adder[a].track \in Tracks
    BY <1>3, SoundAssumption DEF SoundAssumption, SoundInv, TracksNamed
  <2> QED
    BY <1>1, <2>1 DEF EntryOf, QueueEntry, Sights
<1> HIDE DEF e
<1>7. \A S : /\ e \in S => Coming(adder', S) = Coming(adder, S) \cup {a}
             /\ e \in S => Total(queue', adder', S) = Total(queue, adder, S) + 1
             /\ e \notin S => Total(queue', adder', S) = Total(queue, adder, S)
  BY <1>1, ComingGrows DEF e
<1>8. ASSUME NEW ip \in Ips PROVE Total(queue', adder', SeenOf(ip)) <= MaxSimult
  <2>1. CASE ip = IpOf[a]
    <3>1. Coming(adder, SeenOf(ip)) = {}
      <4> SUFFICES ASSUME NEW b \in Coming(adder, SeenOf(ip)) PROVE FALSE
        OBVIOUS
      <4>1. b \in UnderWay /\ IpOf[b] = ip /\ adder[b].pc = "push"
        BY DEF Coming, SeenOf, EntryOf, UnderWay
      <4> QED
        BY <1>1, <1>3, <2>1, <4>1 DEF SoundInv, OneAddEach
    <3>2. Spots(queue, SeenOf(ip)) \in SUBSET QueuedFrom(ip)
      BY DEF Spots, SeenOf, QueuedFrom, Places
    <3>3. IsFiniteSet(QueuedFrom(ip)) /\ Cardinality(QueuedFrom(ip)) \in Nat
      <4>1. QueuedFrom(ip) \in SUBSET (1 .. Len(queue)) /\ IsFiniteSet(1 .. Len(queue))
        BY <1>5, FS_Interval DEF QueuedFrom, Places
      <4> QED
        BY <4>1, FS_Subset, FS_CardinalityType
    <3>4. ~(Cardinality(QueuedFrom(ip)) >= MaxSimult)
      BY <2>1 DEF Accept, CapReached
    <3>5. /\ Cardinality(Spots(queue, SeenOf(ip))) <= Cardinality(QueuedFrom(ip))
          /\ Cardinality(Spots(queue, SeenOf(ip))) \in Nat
      BY <1>5, <3>2, <3>3, FS_Subset, SpotsAreFinite
    <3>6. Total(queue, adder, SeenOf(ip)) = Cardinality(Spots(queue, SeenOf(ip)))
      BY <3>1, <3>5, FS_EmptySet DEF Total
    <3>7. Total(queue', adder', SeenOf(ip)) = Total(queue, adder, SeenOf(ip)) + 1
      BY <1>6, <1>7, <2>1 DEF SeenOf, SeenEntries
    <3> QED
      BY <1>5, <3>3, <3>4, <3>5, <3>6, <3>7
  <2>2. CASE ip # IpOf[a]
    <3>1. e \notin SeenOf(ip)
      BY <1>6, <2>2 DEF SeenOf
    <3> QED
      BY <1>7, <3>1 DEF SoundInv, WithinLimits
  <2> QED
    BY <2>1, <2>2
<1>9. Total(queue', adder', SeenEntries) < MaxQueue + Cardinality(Ips)
  <2>1. Coming(adder', SeenEntries) \in SUBSET UnderWay
    BY <1>3 DEF Coming, UnderWay
  <2>2. Cardinality(Coming(adder', SeenEntries)) <= Cardinality(Ips)
    BY <2>1, AddsAreFew
  <2>3. Spots(queue, SeenEntries) \in SUBSET (1 .. Len(queue)) /\ IsFiniteSet(1 .. Len(queue))
    BY <1>5, FS_Interval DEF Spots
  <2>4. Cardinality(Spots(queue, SeenEntries)) <= Len(queue)
    <3>1. ASSUME NEW n \in Nat PROVE Cardinality(1 .. n) = n
      <4>1. Cardinality(1 .. n) = IF 1 > n THEN 0 ELSE n - 1 + 1
        BY FS_Interval
      <4> QED
        BY <4>1
    <3>2. Cardinality(1 .. Len(queue)) = Len(queue)
      BY <1>5, <3>1
    <3> QED
      BY <2>3, <3>2, FS_Subset
  <2>5. Len(queue) < MaxQueue
    BY <1>5 DEF Accept, QueueFull
  <2>6. Cardinality(Spots(queue, SeenEntries)) \in Nat /\ Cardinality(Coming(adder', SeenEntries)) \in Nat
    BY <1>5, SpotsAreFinite, ComingAreFinite
  <2> QED
    BY <1>1, <1>5, <2>2, <2>4, <2>5, <2>6 DEF Total
<1>10. ASSUME NEW t \in Tracks PROVE Total(queue', adder', AloneOf(t)) <= 1
  <2>1. CASE e \in AloneOf(t)
    <3>1. t = adder[a].track /\ ~Beside(a)
      BY <1>1, <1>6, <2>1 DEF AloneOf, e, EntryOf
    <3>2. Coming(adder, AloneOf(t)) = {}
      BY <3>1 DEF Coming, AloneOf, EntryOf, Beside, Pushing
    <3>3. Spots(queue, AloneOf(t)) = {}
      BY <3>1 DEF Accept, Duplicate, QueuedTrack, Places, Spots, AloneOf
    <3>4. Total(queue, adder, AloneOf(t)) = 0
      BY <3>2, <3>3, FS_EmptySet DEF Total
    <3> QED
      BY <1>7, <2>1, <3>4
  <2>2. CASE e \notin AloneOf(t)
    BY <1>7, <2>2 DEF SoundInv, WithinLimits
  <2> QED
    BY <2>1, <2>2
<1>11. WithinLimits(queue', adder')
  BY <1>8, <1>9, <1>10 DEF WithinLimits
<1> QED
  BY <1>2, <1>4, <1>11 DEF SoundInv

\* An add that could not see the queue counts in none of the totals.
LEMMA AcceptUnreadKeeps ==
    ASSUME SoundInv, NEW a \in Adders, AcceptUnread(a) PROVE SoundInv'
<1>1. /\ UNCHANGED <<queue, rateKey, plays, ender, nowPlaying>>
      /\ adder[a].pc = "scan" /\ adder'[a].pc = "push" /\ adder'[a].track = adder[a].track
      /\ adder'[a].sight = "blind"
      /\ \A b \in Adders \ {a} : adder'[b] = adder[b]
      /\ adder' \in [Adders -> Adds]
  BY DEF AcceptUnread, Adding, SoundInv, SoundTypeOK, Adds, Sights
<1>2. SoundTypeOK'
  BY <1>1 DEF SoundInv, SoundTypeOK
<1>3. UnderWay' = UnderWay /\ a \in UnderWay
  BY <1>1 DEF UnderWay
<1>4. TracksNamed' /\ OneAddEach'
  BY <1>1, <1>3 DEF SoundInv, TracksNamed, OneAddEach, UnderWay
<1>5. /\ EntryOf(adder', a) \notin SeenEntries
      /\ \A ip : EntryOf(adder', a) \notin SeenOf(ip)
      /\ \A t : EntryOf(adder', a) \notin AloneOf(t)
  BY <1>1 DEF EntryOf, SeenEntries, SeenOf, AloneOf
<1>6. \A S : EntryOf(adder', a) \notin S => Total(queue', adder', S) = Total(queue, adder, S)
  BY <1>1, ComingGrows
<1>7. WithinLimits(queue', adder')
  BY <1>5, <1>6 DEF SoundInv, WithinLimits
<1> QED
  BY <1>2, <1>4, <1>7 DEF SoundInv

\* What the add stood for, the entry stands for.
LEMMA PushKeeps ==
    ASSUME SoundInv, NEW a \in Adders, Push(a) PROVE SoundInv'
<1> DEFINE e == EntryOf(adder, a)
<1>1. /\ UNCHANGED <<rateKey, plays, ender, nowPlaying>>
      /\ adder[a].pc = "push" /\ adder'[a] = NoAdd
      /\ \A b \in Adders \ {a} : adder'[b] = adder[b]
      /\ adder' \in [Adders -> Adds]
      /\ queue' = Append(queue, e)
  BY DEF Push, Adding, NoAdd, SoundInv, SoundTypeOK, EntryOf, Adds, Sights
<1>2. UnderWay' = UnderWay \ {a} /\ a \in UnderWay
  BY <1>1 DEF UnderWay, NoAdd
<1>3. e \in QueueEntry /\ queue \in Seq(QueueEntry)
  <2>1. IpOf[a] \in Ips /\ adder[a].track \in Tracks /\ adder[a].sight \in Sights
    BY <1>2, SoundAssumption DEF SoundAssumption, SoundInv, SoundTypeOK, TracksNamed, Adds
  <2> QED
    BY <2>1 DEF EntryOf, QueueEntry, SoundInv, SoundTypeOK
<1>4. queue' \in Seq(QueueEntry)
  BY <1>1, <1>3, AppendProperties
<1>5. SoundTypeOK'
  BY <1>1, <1>4 DEF SoundInv, SoundTypeOK
<1>6. TracksNamed' /\ OneAddEach'
  BY <1>1, <1>2 DEF SoundInv, TracksNamed, OneAddEach, UnderWay
<1>7. ASSUME NEW S PROVE Total(queue', adder', S) = Total(queue, adder, S)
  <2>1. \A b \in Adders \ {a} : b \in Coming(adder', S) <=> b \in Coming(adder, S)
    BY <1>1 DEF Coming, EntryOf
  <2>2. a \notin Coming(adder', S) /\ (a \in Coming(adder, S) <=> e \in S)
    BY <1>1 DEF Coming, NoAdd
  <2>3. \A A : Coming(A, S) \subseteq Adders
    BY DEF Coming
  <2>4. Coming(adder', S) = Coming(adder, S) \ {a}
    BY <2>1, <2>2, <2>3
  <2>5. IsFiniteSet(Coming(adder, S)) /\ Cardinality(Coming(adder, S)) \in Nat
    BY ComingAreFinite
  <2> HIDE DEF e
  <2>6. Cardinality(Spots(queue', S)) = Cardinality(Spots(queue, S)) + (IF e \in S THEN 1 ELSE 0)
    BY <1>1, <1>3, OneSpotMore
  <2>7. Cardinality(Spots(queue, S)) \in Nat
    BY <1>3, SpotsAreFinite
  <2>8. Cardinality(Coming(adder', S)) = IF a \in Coming(adder, S) THEN Cardinality(Coming(adder, S)) - 1
                                                                ELSE Cardinality(Coming(adder, S))
    BY <2>4, <2>5, FS_RemoveElement
  <2>9. CASE e \in S
    BY <2>2, <2>5, <2>6, <2>7, <2>8, <2>9 DEF Total
  <2>10. CASE e \notin S
    BY <2>2, <2>5, <2>6, <2>7, <2>8, <2>10 DEF Total
  <2> QED
    BY <2>9, <2>10
<1>8. WithinLimits(queue', adder')
  BY <1>7 DEF SoundInv, WithinLimits
<1> QED
  BY <1>5, <1>6, <1>8 DEF SoundInv

\* What takes entries off the queue: f says where each of those left was.
LEMMA ShorterKeeps ==
    ASSUME SoundInv, queue' \in Seq(QueueEntry), UNCHANGED <<adder, rateKey>>,
           SoundTypeOK', TracksNamed',
           NEW f \in [1 .. Len(queue') -> 1 .. Len(queue)],
           \A i, j \in 1 .. Len(queue') : f[i] = f[j] => i = j,
           \A i \in 1 .. Len(queue') : queue'[i] = queue[f[i]]
    PROVE  SoundInv'
<1>1. queue \in Seq(QueueEntry)
  BY DEF SoundInv, SoundTypeOK
<1>2. \A S : Cardinality(Spots(queue', S)) <= Cardinality(Spots(queue, S))
  BY <1>1, FewerSpots
<1>3. WithinLimits(queue, adder) /\ adder' = adder
  BY DEF SoundInv
<1>4. WithinLimits(queue', adder)
  BY <1>1, <1>2, <1>3, LessKeepsLimits
<1>5. OneAddEach'
  BY DEF SoundInv, OneAddEach, UnderWay
<1> QED
  BY <1>3, <1>4, <1>5 DEF SoundInv

LEMMA RemoveKeeps ==
    ASSUME SoundInv, NEW t \in Tracks, removeFromQueue(t) PROVE SoundInv'
<1>1. PICK i \in 1 .. Len(queue) : queue' = SubSeq(queue, 1, i - 1) \o SubSeq(queue, i + 1, Len(queue))
  BY DEF removeFromQueue, QueuedTrack, Places
<1>2. UNCHANGED <<rateKey, adder, plays, ender, nowPlaying>>
  BY DEF removeFromQueue
<1> DEFINE n == Len(queue)
           front == SubSeq(queue, 1, i - 1)
           back == SubSeq(queue, i + 1, n)
           f == [k \in 1 .. n - 1 |-> IF k < i THEN k ELSE k + 1]
<1>3. queue \in Seq(QueueEntry) /\ n \in Nat /\ i \in Nat /\ 1 <= i /\ i <= n
  BY <1>1, LenProperties DEF SoundInv, SoundTypeOK
<1>4. /\ front \in Seq(QueueEntry) /\ Len(front) = i - 1
      /\ \A k \in 1 .. i - 1 : front[k] = queue[k]
  BY <1>3
<1>5. /\ back \in Seq(QueueEntry) /\ Len(back) = n - i
      /\ \A k \in 1 .. n - i : back[k] = queue[i + k]
  BY <1>3
<1> HIDE DEF front, back
<1>6. /\ queue' \in Seq(QueueEntry) /\ Len(queue') = n - 1
      /\ \A k \in 1 .. n - 1 : queue'[k] = IF k <= i - 1 THEN front[k] ELSE back[k - (i - 1)]
  <2>1. queue' = front \o back
    BY <1>1 DEF front, back
  <2>2. queue' \in Seq(QueueEntry) /\ Len(queue') = Len(front) + Len(back)
    BY <1>4, <1>5, <2>1, ConcatProperties
  <2>3. Len(queue') = n - 1
    BY <1>3, <1>4, <1>5, <2>2
  <2>4. ASSUME NEW k \in 1 .. n - 1
        PROVE  queue'[k] = IF k <= i - 1 THEN front[k] ELSE back[k - (i - 1)]
    BY <1>3, <1>4, <1>5, <2>1, <2>4, ConcatProperties
  <2> QED
    BY <2>2, <2>3, <2>4
<1>7. f \in [1 .. Len(queue') -> 1 .. n] /\ \A k, l \in 1 .. Len(queue') : f[k] = f[l] => k = l
  BY <1>3, <1>6
<1>8. ASSUME NEW k \in 1 .. Len(queue') PROVE queue'[k] = queue[f[k]]
  <2>1. k \in 1 .. n - 1
    BY <1>6
  <2>2. CASE k < i
    BY <1>3, <1>4, <1>6, <2>1, <2>2
  <2>3. CASE ~(k < i)
    <3>1. k - (i - 1) \in 1 .. n - i /\ i + (k - (i - 1)) = k + 1
      BY <1>3, <2>1, <2>3
    <3>2. queue'[k] = back[k - (i - 1)]
      BY <1>3, <1>6, <2>1, <2>3
    <3> QED
      BY <1>5, <2>1, <2>3, <3>1, <3>2
  <2> QED
    BY <2>2, <2>3
<1>9. SoundTypeOK' /\ TracksNamed'
  BY <1>2, <1>6 DEF SoundInv, SoundTypeOK, TracksNamed, UnderWay
<1>10. Len(queue') <= n
  BY <1>3, <1>6
<1> HIDE DEF f
<1> QED
  BY <1>2, <1>6, <1>7, <1>8, <1>9, <1>10, ShorterKeeps

LEMMA ClearQueueKeeps == SoundInv /\ clearQueue => SoundInv'
<1> SUFFICES ASSUME SoundInv, clearQueue PROVE SoundInv'
  OBVIOUS
<1>1. queue' = <<>> /\ UNCHANGED <<rateKey, adder, plays, ender, nowPlaying>>
  BY DEF clearQueue
<1>2. queue' \in Seq(QueueEntry) /\ Len(queue') = 0 /\ Len(queue) \in Nat
  BY <1>1 DEF SoundInv, SoundTypeOK
<1>3. SoundTypeOK' /\ TracksNamed'
  BY <1>1, <1>2 DEF SoundInv, SoundTypeOK, TracksNamed, UnderWay
<1> DEFINE f == [i \in {} |-> 0]
<1>4. f \in [1 .. Len(queue') -> 1 .. Len(queue)]
  BY <1>2
<1> HIDE DEF f
<1>5. /\ \A i, j \in 1 .. Len(queue') : f[i] = f[j] => i = j
      /\ \A i \in 1 .. Len(queue') : queue'[i] = queue[f[i]]
      /\ Len(queue') <= Len(queue)
  BY <1>2
<1> QED
  BY <1>1, <1>2, <1>3, <1>4, <1>5, ShorterKeeps

LEMMA PopKeeps ==
    ASSUME SoundInv, NEW o \in Overlays, popNext(o) PROVE SoundInv'
<1>1. UNCHANGED <<rateKey, adder, plays, nowPlaying>>
  BY DEF popNext
<1>2. CASE queue = <<>>
  <2>1. queue' = queue /\ ender' = [ender EXCEPT ![o] = NoEnd]
    BY <1>2 DEF popNext
  <2>2. SoundTypeOK' /\ TracksNamed'
    BY <1>1, <2>1 DEF NoEnd, SoundInv, SoundTypeOK, TracksNamed, UnderWay
  <2>3. UNCHANGED UnderWay
    BY <1>1 DEF UnderWay
  <2>4. WithinLimits(queue', adder')
    BY <1>1, <2>1, AddsKeepLimits
  <2> QED
    BY <1>1, <2>2, <2>3, <2>4 DEF SoundInv, OneAddEach
<1>3. CASE queue # <<>>
  <2>1. queue' = Tail(queue) /\ ender' = [ender EXCEPT ![o] = [pc |-> "resolve", track |-> Head(queue).track]]
    BY <1>3 DEF popNext
  <2>2. /\ queue \in Seq(QueueEntry) /\ Head(queue) \in QueueEntry /\ Len(queue) \in Nat
        /\ queue' \in Seq(QueueEntry) /\ Len(queue') = Len(queue) - 1 /\ Len(queue) >= 1
        /\ \A i \in 1 .. Len(queue') : queue'[i] = queue[i + 1]
    BY <1>3, <2>1, HeadTailProperties, LenProperties, EmptySeq DEF SoundInv, SoundTypeOK
  <2>3. Head(queue).track \in Tracks
    BY <2>2 DEF QueueEntry
  <2>4. SoundTypeOK' /\ TracksNamed'
    BY <1>1, <2>1, <2>2, <2>3 DEF SoundInv, SoundTypeOK, TracksNamed, UnderWay
  <2> DEFINE f == [i \in 1 .. Len(queue') |-> i + 1]
  <2>5. f \in [1 .. Len(queue') -> 1 .. Len(queue)] /\ \A i \in 1 .. Len(queue') : f[i] = i + 1
    BY <2>2
  <2> HIDE DEF f
  <2>6. \A i, j \in 1 .. Len(queue') : f[i] = f[j] => i = j
    BY <2>5
  <2>7. \A i \in 1 .. Len(queue') : queue'[i] = queue[f[i]]
    BY <2>2, <2>5
  <2>8. Len(queue') <= Len(queue)
    BY <2>2
  <2> QED
    BY <1>1, <2>2, <2>4, <2>5, <2>6, <2>7, <2>8, ShorterKeeps
<1> QED
  BY <1>2, <1>3

\* What the overlays and the deck do is no matter of the queue.
LEMMA PlayingKeeps ==
    ASSUME SoundInv,
           \/ StopAudio
           \/ \E t \in Tracks : PlayAudio(t)
           \/ \E o \in Overlays : AudioEnded(o) \/ resolveTrackForPlay(o) \/ NoteNowPlaying(o) \/ EndFails(o)
    PROVE  SoundInv'
<1>1. UNCHANGED <<queue, adder, rateKey>>
  BY DEF StopAudio, PlayAudio, AudioEnded, resolveTrackForPlay, NoteNowPlaying, EndFails
<1>2. UNCHANGED UnderWay
  BY <1>1 DEF UnderWay
<1>3. SoundTypeOK' /\ TracksNamed'
  <2>1. CASE StopAudio \/ \E t \in Tracks : PlayAudio(t)
    BY <1>2, <2>1 DEF StopAudio, PlayAudio, SoundInv, SoundTypeOK, TracksNamed
  <2>2. ASSUME NEW o \in Overlays, AudioEnded(o) PROVE SoundTypeOK' /\ TracksNamed'
    BY <1>2, <2>2 DEF AudioEnded, SoundInv, SoundTypeOK, TracksNamed
  <2>3. ASSUME NEW o \in Overlays, resolveTrackForPlay(o) PROVE SoundTypeOK' /\ TracksNamed'
    <3>1. ender[o].track \in Tracks
      BY <2>3 DEF resolveTrackForPlay, Ending, SoundInv, TracksNamed
    <3>2. /\ ender' = [ender EXCEPT ![o] = NoEnd] \/ ender' = [ender EXCEPT ![o].pc = "note"]
          /\ plays' = plays \/ plays' = [v \in Overlays |-> ender[o].track]
          /\ UNCHANGED <<queue, rateKey, adder, nowPlaying>>
      BY <2>3 DEF resolveTrackForPlay
    <3>3. ender' \in [Overlays -> [pc : {"idle", "pop", "resolve", "note"}, track : Tracks \cup {"none"}]]
      BY <3>2 DEF NoEnd, SoundInv, SoundTypeOK
    <3>4. plays' \in [Overlays -> Tracks \cup {"none"}]
      BY <3>1, <3>2 DEF SoundInv, SoundTypeOK
    <3>5. SoundTypeOK'
      BY <3>2, <3>3, <3>4 DEF SoundInv, SoundTypeOK
    <3>6. TracksNamed'
      BY <1>2, <3>1, <3>2 DEF NoEnd, SoundInv, SoundTypeOK, TracksNamed
    <3> QED
      BY <3>5, <3>6
  <2>4. ASSUME NEW o \in Overlays, NoteNowPlaying(o) PROVE SoundTypeOK' /\ TracksNamed'
    BY <1>2, <2>4 DEF NoteNowPlaying, NoEnd, SoundInv, SoundTypeOK, TracksNamed
  <2>5. ASSUME NEW o \in Overlays, EndFails(o) PROVE SoundTypeOK' /\ TracksNamed'
    BY <1>2, <2>5 DEF EndFails, NoEnd, SoundInv, SoundTypeOK, TracksNamed
  <2> QED
    BY <2>1, <2>2, <2>3, <2>4, <2>5
<1>4. WithinLimits(queue', adder')
  BY <1>1, AddsKeepLimits
<1> QED
  BY <1>1, <1>2, <1>3, <1>4 DEF SoundInv, OneAddEach

LEMMA SoundSteps == SoundInv /\ [SoundNext]_soundVars => SoundInv'
<1>1. SoundInv /\ UNCHANGED soundVars => SoundInv'
  <2> SUFFICES ASSUME SoundInv, UNCHANGED soundVars PROVE SoundInv'
    OBVIOUS
  <2>1. SoundTypeOK'
    BY DEF soundVars, SoundInv, SoundTypeOK
  <2>2. TracksNamed' /\ OneAddEach'
    BY DEF soundVars, SoundInv, TracksNamed, OneAddEach, UnderWay
  <2>3. WithinLimits(queue', adder')
    BY AddsKeepLimits DEF soundVars
  <2> QED
    BY <2>1, <2>2, <2>3 DEF SoundInv
<1>2. SoundInv /\ SoundNext => SoundInv'
  BY AdmitKeeps, RefuseKeeps, AcceptKeeps, AcceptUnreadKeeps, PushKeeps, KeyKeeps, RemoveKeeps,
     ClearQueueKeeps, PopKeeps, PlayingKeeps DEF SoundNext
<1> QED
  BY <1>1, <1>2

\* The cap of an address, the length and the duplicates of the sound queue
\* (soundboardQueueService.ts reads it in one call and appends in the next) are
\* kept by the adds that could read it, however they overlap and whatever those
\* that could not have put there, for any number of adds, addresses and tracks.
THEOREM QueueKeepsWithinLimits == SoundSpec => []QueueWithinLimits
<1> QED
  BY LimitsAreKept, SoundSteps, InitSound, PTL DEF SoundSpec

-----------------------------------------------------------------------------
(* MCHub.  One part runs and leaves the variables of the others alone.     *)

HubInv == ChatQueueInv /\ TokenInv /\ SoundInv /\ OctoInv

LEMMA HubSteps == HubInv /\ [HubNext]_hubVars => HubInv'
<1> SUFFICES ASSUME HubInv, [HubNext]_hubVars PROVE HubInv'
  OBVIOUS
<1>1. [ChatNext]_chatVars /\ [TokenNext]_tokenVars /\ [SoundNext]_soundVars /\ [OctoNext]_octoVars
  BY DEF HubNext, hubVars
<1> QED
  BY <1>1, ChatSteps, TokenSteps, SoundSteps, OctoSteps DEF HubInv

\* Whichever of the four services of the hub runs, its queues, calls, tokens,
\* jobs and histories stay what the model takes them for.
THEOREM HubTypeCorrect == HubSpec => []HubTypeOK
<1>1. HubInit => HubInv
  BY InitChat, InitTokens, InitSound, InitModeration DEF HubInit, HubInv
<1>2. HubInv => HubTypeOK
  BY DEF HubInv, HubTypeOK, ChatQueueInv, TokenInv, SoundInv, OctoInv
<1> QED
  BY <1>1, <1>2, HubSteps, PTL DEF HubSpec

=============================================================================
