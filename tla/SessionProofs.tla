---------------------------- MODULE SessionProofs ----------------------------
(***************************************************************************)
(* Proofs about Session, for any number of calls, users and token pairs,   *)
(* with either token storage and any number of reloads.                    *)
(***************************************************************************)
EXTENDS Session, TLAPS

\* A login whose pair has arrived and is not committed yet.
Pending(c) == call[c].request = "login" /\ call[c].phase = "ok"

\* Pairs that can be renewed, or cannot for a reason other than a rotation
\* whose successor the console was given.
Usable == live \cup Excused

\* What the store and the storage hold was issued; so was what is in flight.
KnownPairs ==
    /\ {tokens, storage, renewal.sent, renewal.got} \ {0} \subseteq Issued
    /\ renewal.phase = "ok" => renewal.got \in Usable
    /\ renewal.phase \in {"sent", "ok"} => renewal.sent # 0

\* A pair on its way from the server can be renewed, and nobody else has it:
\* no renewal can exchange it before login() commits it.
PendingPairsAreNew ==
    \A c \in Call : Pending(c) =>
        /\ call[c].pair \in Usable \cap Issued
        /\ call[c].pair \notin {tokens, storage, renewal.sent, renewal.got}
        /\ \A d \in Call \ {c} : Pending(d) => call[d].pair # call[c].pair

\* GET me is sent with a pair, never without one.
MeCarriesPair == \A c \in Call : call[c].request = "me" => call[c].pair \in Pair

IInv == TypeOK /\ MeCarriesPair /\ KnownPairs /\ PendingPairsAreNew /\ HeldPairIsUsable

-----------------------------------------------------------------------------
(* The shape of calls and renewals.                                        *)

CallRecord == [request : Request, phase : Phase, pair : 0 .. MaxPairs, retry : BOOLEAN]
RenewalRecord == [phase : {"none", "sent", "ok", "failed"},
                  sent : 0 .. MaxPairs, got : 0 .. MaxPairs]

LEMMA IdleType == Idle \in CallRecord /\ Idle.request = "none" /\ Idle.phase = "idle"
BY SessionAssumption DEF Idle, CallRecord, Request, Phase

LEMMA SentType ==
    ASSUME NEW request \in Request, NEW p \in 0 .. MaxPairs, NEW retry \in BOOLEAN
    PROVE  /\ Sent(request, p, retry) \in CallRecord
           /\ Sent(request, p, retry).request = request
           /\ Sent(request, p, retry).phase = "sent"
           /\ Sent(request, p, retry).pair = p
BY DEF Sent, CallRecord, Request, Phase

LEMMA NoRenewalType == NoRenewal \in RenewalRecord /\ NoRenewal.phase = "none"
                       /\ NoRenewal.sent = 0 /\ NoRenewal.got = 0
BY SessionAssumption DEF NoRenewal, RenewalRecord

LEMMA IssuedPairs == Issued \subseteq 1 .. MaxPairs /\ 0 \notin Issued
BY SessionAssumption DEF Issued, Pair

\* A call that is answered keeps its record's type and the other fields.
LEMMA AnsweredType ==
    ASSUME NEW c \in Call, NEW phase \in Phase, call \in [Call -> CallRecord],
           Answered(c, phase)
    PROVE  /\ call' \in [Call -> CallRecord]
           /\ call'[c].phase = phase
           /\ call'[c].request = call[c].request
           /\ call'[c].pair = call[c].pair
           /\ \A d \in Call \ {c} : call'[d] = call[d]
BY DEF Answered, CallRecord

LEMMA SendType ==
    ASSUME NEW c \in Call, NEW request \in Request, NEW p \in 0 .. MaxPairs,
           call \in [Call -> CallRecord], Send(c, request, p)
    PROVE  /\ call' \in [Call -> CallRecord]
           /\ call'[c].request = request /\ call'[c].phase = "sent" /\ call'[c].pair = p
           /\ \A d \in Call \ {c} : call'[d] = call[d]
BY SentType DEF Send

LEMMA ReturnType ==
    ASSUME NEW c \in Call, call \in [Call -> CallRecord], Return(c)
    PROVE  /\ call' \in [Call -> CallRecord]
           /\ call'[c].request = "none" /\ call'[c].phase = "idle"
           /\ \A d \in Call \ {c} : call'[d] = call[d]
BY IdleType DEF Return

-----------------------------------------------------------------------------
(* Most steps bring the console no pair and take no usable one from it.    *)

\* No login gets its pair, and none that has one loses it otherwise.
NoNewPending ==
    \A c \in Call : Pending(c)' => Pending(c) /\ call'[c].pair = call[c].pair

\* The console learns of no pair it did not hold, in the place it held it.
NothingNew ==
    /\ {tokens', storage'} \subseteq {tokens, storage, 0}
    /\ {renewal'.sent, renewal'.got} \subseteq {tokens, renewal.sent, renewal.got, 0}

\* The server goes on renewing what it renewed, or has excused it.
StaysUsable == Usable \subseteq Usable' /\ Issued \subseteq Issued'

\* A renewal does not succeed, and one that did is not dropped unexcused.
RenewalKept ==
    /\ renewal'.phase = "ok" => renewal' = renewal
    /\ renewal.phase = "ok" => renewal' = renewal \/ renewal.sent \in Usable'
    /\ renewal'.phase = "sent" => renewal'.sent # 0

QuietStep == NoNewPending /\ NothingNew /\ StaysUsable /\ RenewalKept

LEMMA PendingKept ==
    ASSUME IInv, NoNewPending, StaysUsable,
           {tokens', storage', renewal'.sent, renewal'.got}
               \subseteq {tokens, storage, renewal.sent, renewal.got, 0}
    PROVE  PendingPairsAreNew'
<1> SUFFICES ASSUME NEW c \in Call, Pending(c)'
             PROVE  /\ call'[c].pair \in Usable' \cap Issued'
                    /\ call'[c].pair \notin {tokens', storage', renewal'.sent, renewal'.got}
                    /\ \A d \in Call \ {c} : Pending(d)' => call'[d].pair # call'[c].pair
  BY DEF PendingPairsAreNew
<1>1. Pending(c) /\ call'[c].pair = call[c].pair
  BY DEF NoNewPending
<1>2. /\ call[c].pair \in Usable \cap Issued
      /\ call[c].pair \notin {tokens, storage, renewal.sent, renewal.got}
      /\ \A d \in Call \ {c} : Pending(d) => call[d].pair # call[c].pair
  BY <1>1 DEF IInv, PendingPairsAreNew
<1>3. call[c].pair # 0
  BY <1>2, IssuedPairs
<1>4. call[c].pair \in Usable' \cap Issued'
  BY <1>2 DEF StaysUsable
<1>5. call[c].pair \notin {tokens', storage', renewal'.sent, renewal'.got}
  BY <1>2, <1>3
<1>6. \A d \in Call \ {c} : Pending(d)' => call'[d].pair # call[c].pair
  BY <1>2 DEF NoNewPending
<1> QED
  BY <1>1, <1>4, <1>5, <1>6

LEMMA QuietStepKeepsInvariant ==
    ASSUME IInv, TypeOK', MeCarriesPair', QuietStep
    PROVE  IInv'
<1> USE DEF QuietStep
<1>1. KnownPairs'
  <2>1. {tokens', storage', renewal'.sent, renewal'.got} \ {0} \subseteq Issued'
    BY DEF IInv, KnownPairs, NothingNew, StaysUsable
  <2>2. renewal'.phase = "ok" => renewal'.got \in Usable'
    BY DEF IInv, KnownPairs, RenewalKept, StaysUsable
  <2> QED
    BY <2>1, <2>2 DEF IInv, KnownPairs, RenewalKept
<1>2. PendingPairsAreNew'
  BY PendingKept DEF NothingNew
<1>3. HeldPairIsUsable'
  <2> SUFFICES ASSUME NEW p \in {tokens', storage'}, p # 0
               PROVE  \/ p \in Usable'
                      \/ renewal'.phase = "ok" /\ p = renewal'.sent
    BY DEF HeldPairIsUsable, Usable
  <2>1. p \in {tokens, storage}
    BY DEF NothingNew
  <2>2. p \in Usable \/ (renewal.phase = "ok" /\ p = renewal.sent)
    BY <2>1 DEF IInv, HeldPairIsUsable, Usable
  <2> QED
    BY <2>2 DEF RenewalKept, StaysUsable
<1> QED
  BY <1>1, <1>2, <1>3 DEF IInv

-----------------------------------------------------------------------------
(* What the user and the page start, and what the network answers.         *)

LEMMA RestoreStep == ASSUME IInv, NEW c \in Call, Restore(c) PROVE IInv'
<1> USE DEF IInv, TypeOK, CallRecord, Restore, server
<1>1. CASE storage = 0
  <2>1. TypeOK'
    BY <1>1, Zenon DEF Issued, Waiting
  <2>2. QuietStep
    BY <1>1 DEF QuietStep, NoNewPending, NothingNew, StaysUsable, RenewalKept, Usable,
                Excused, Issued, Pending, KnownPairs
  <2>3. MeCarriesPair'
    BY <1>1 DEF MeCarriesPair
  <2> QED
    BY <2>1, <2>2, <2>3, QuietStepKeepsInvariant
<1>2. CASE storage # 0
  <2>1. Send(c, "me", storage)
    BY <1>2
  <2>2. /\ call' \in [Call -> CallRecord]
        /\ call'[c].phase = "sent" /\ call'[c].pair = storage
        /\ \A d \in Call \ {c} : call'[d] = call[d]
    BY <2>1, SendType DEF Request
  <2>3. TypeOK'
    BY <1>2, <2>2 DEF Issued, Waiting
  <2>4. QuietStep
    BY <1>2, <2>2 DEF QuietStep, NoNewPending, NothingNew, StaysUsable, RenewalKept, Usable,
                Excused, Issued, Pending, KnownPairs
  <2>5. MeCarriesPair'
    BY <1>2, <2>2 DEF MeCarriesPair, Pair
  <2> QED
    BY <2>3, <2>4, <2>5, QuietStepKeepsInvariant
<1> QED
  BY <1>1, <1>2

LEMMA LoginStep == ASSUME IInv, NEW c \in Call, Login(c) PROVE IInv'
<1> USE DEF IInv, TypeOK, CallRecord, Login, server
<1>1. /\ call' \in [Call -> CallRecord]
      /\ call'[c].request = "login" /\ call'[c].phase = "sent"
      /\ \A d \in Call \ {c} : call'[d] = call[d]
  BY SendType DEF Request
<1>2. TypeOK'
  BY <1>1 DEF Issued, Waiting
<1>3. QuietStep
  BY <1>1 DEF QuietStep, NoNewPending, NothingNew, StaysUsable, RenewalKept, Usable,
              Excused, Issued, Pending, KnownPairs
<1>4. MeCarriesPair'
  BY <1>1 DEF MeCarriesPair
<1> QED
  BY <1>2, <1>3, <1>4, QuietStepKeepsInvariant

LEMMA LogoutStep == ASSUME IInv, NEW c \in Call, Logout(c) PROVE IInv'
<1> USE DEF IInv, TypeOK, CallRecord, Logout, KeepSession, server
<1>1. /\ call' \in [Call -> CallRecord]
      /\ call'[c].request = "logout" /\ call'[c].phase = "sent"
      /\ \A d \in Call \ {c} : call'[d] = call[d]
  BY SendType DEF Request
<1>2. TypeOK'
  BY <1>1 DEF Issued, Waiting
<1>3. QuietStep
  BY <1>1 DEF QuietStep, NoNewPending, NothingNew, StaysUsable, RenewalKept, Usable,
              Excused, Issued, Pending, KnownPairs
<1>4. MeCarriesPair'
  BY <1>1 DEF MeCarriesPair
<1> QED
  BY <1>2, <1>3, <1>4, QuietStepKeepsInvariant

LEMMA QueryStep == ASSUME IInv, NEW c \in Call, Query(c) PROVE IInv'
<1> USE DEF IInv, TypeOK, CallRecord, Query, KeepSession, server
<1>1. /\ call' \in [Call -> CallRecord]
      /\ call'[c].request = "query" /\ call'[c].phase = "sent"
      /\ \A d \in Call \ {c} : call'[d] = call[d]
  BY SendType DEF Request
<1>2. TypeOK'
  BY <1>1 DEF Issued, Waiting
<1>3. QuietStep
  BY <1>1 DEF QuietStep, NoNewPending, NothingNew, StaysUsable, RenewalKept, Usable,
              Excused, Issued, Pending, KnownPairs
<1>4. MeCarriesPair'
  BY <1>1 DEF MeCarriesPair
<1> QED
  BY <1>2, <1>3, <1>4, QuietStepKeepsInvariant

LEMMA ReloadStep == ASSUME IInv, Reload PROVE IInv'
<1> USE DEF IInv, TypeOK, CallRecord, Reload
<1>1. /\ call' \in [Call -> CallRecord]
      /\ \A c \in Call : call'[c].request = "none" /\ call'[c].phase = "idle"
  BY IdleType
<1>2. renewal' \in RenewalRecord /\ renewal'.phase = "none"
      /\ renewal'.sent = 0 /\ renewal'.got = 0
  BY NoRenewalType
<1>3. renewal.phase = "ok" => renewal.sent \in Issued
  BY DEF KnownPairs
<1>4. /\ stranded \subseteq stranded' /\ stranded' \subseteq Issued
      /\ renewal.phase = "ok" => renewal.sent \in stranded'
  BY <1>3
<1>5. storage' \in {storage, 0} /\ reloads' \in 0 .. MaxReloads
  <2>1. reloads \in 0 .. MaxReloads /\ reloads < MaxReloads /\ reloads' = reloads + 1
    OBVIOUS
  <2>2. storage' = IF Persistent THEN storage ELSE 0
    OBVIOUS
  <2> HIDE DEF IInv, TypeOK, CallRecord, Reload
  <2>3. reloads' \in 0 .. MaxReloads
    BY <2>1, SessionAssumption
  <2> QED
    BY <2>2, <2>3
<1>6. Issued' = Issued
  BY DEF Issued
<1>7. 0 \in 0 .. MaxPairs
  BY SessionAssumption
<1>8. \A c \in Call : ~Pending(c)' /\ ~Waiting(c)'
  BY <1>1 DEF Pending, Waiting
<1>9. TypeOK'
  BY <1>1, <1>2, <1>4, <1>5, <1>6, <1>7, <1>8 DEF RenewalRecord
<1>10. QuietStep
  <2>1. NoNewPending
    BY <1>8 DEF NoNewPending
  <2>2. NothingNew
    BY <1>2, <1>5 DEF NothingNew
  <2>3. Usable \subseteq Usable'
    BY <1>4 DEF Usable, Excused
  <2>4. RenewalKept
    BY <1>2, <1>4 DEF RenewalKept, Usable, Excused
  <2> QED
    BY <1>6, <2>1, <2>2, <2>3, <2>4 DEF QuietStep, StaysUsable
<1>11. MeCarriesPair'
  BY <1>1 DEF MeCarriesPair
<1> QED
  BY <1>9, <1>10, <1>11, QuietStepKeepsInvariant

LEMMA ServeStep == ASSUME IInv, NEW c \in Call, Serve(c) PROVE IInv'
<1> USE DEF IInv, TypeOK, CallRecord, Serve, KeepSession
<1> DEFINE phase == IF call[c].pair \in valid THEN "ok" ELSE "401"
<1>1. phase \in Phase /\ ~(phase = "renewing") /\ Answered(c, phase)
  BY DEF Phase
<1>2. /\ call' \in [Call -> CallRecord]
      /\ call'[c].phase = phase
      /\ call'[c].request = call[c].request /\ call'[c].pair = call[c].pair
      /\ \A d \in Call \ {c} : call'[d] = call[d]
  BY <1>1, AnsweredType
<1> HIDE DEF phase
<1>3. ~Pending(c)' /\ ~Waiting(c)'
  BY <1>1, <1>2 DEF Pending, Waiting
<1> DEFINE revoked == IF call[c].request = "logout" /\ call[c].pair \in valid
                      THEN {call[c].pair} ELSE {}
<1>4. /\ valid' = valid \ revoked /\ live' = live \ revoked /\ ended' = ended \cup revoked
      /\ revoked \subseteq valid
  OBVIOUS
<1> HIDE DEF revoked
<1>5. TypeOK'
  BY <1>2, <1>3, <1>4 DEF Issued, Waiting
<1>6. QuietStep
  <2>1. Usable \subseteq Usable'
    BY <1>4 DEF Usable, Excused
  <2>2. NoNewPending
    BY <1>2, <1>3 DEF NoNewPending, Pending
  <2> QED
    BY <2>1, <2>2 DEF QuietStep, NothingNew, StaysUsable, RenewalKept, Issued, KnownPairs
<1>7. MeCarriesPair'
  BY <1>2 DEF MeCarriesPair
<1> QED
  BY <1>5, <1>6, <1>7, QuietStepKeepsInvariant

LEMMA LoseStep == ASSUME IInv, NEW c \in Call, Lose(c) PROVE IInv'
<1> USE DEF IInv, TypeOK, CallRecord, Lose, KeepSession, server
<1>1. /\ call' \in [Call -> CallRecord]
      /\ call'[c].request = call[c].request /\ call'[c].pair = call[c].pair
      /\ call'[c].phase = "failed"
      /\ \A d \in Call \ {c} : call'[d] = call[d]
  BY AnsweredType DEF Phase
<1>2. TypeOK'
  BY <1>1 DEF Issued, Waiting
<1>3. QuietStep
  BY <1>1 DEF QuietStep, NoNewPending, NothingNew, StaysUsable, RenewalKept, Usable,
              Excused, Issued, Pending, KnownPairs
<1>4. MeCarriesPair'
  BY <1>1 DEF MeCarriesPair
<1> QED
  BY <1>2, <1>3, <1>4, QuietStepKeepsInvariant

LEMMA ExpireStep == ASSUME IInv, NEW p \in Pair, Expire(p) PROVE IInv'
<1> USE DEF IInv, TypeOK, Expire, client
<1>1. TypeOK'
  BY DEF Issued, Waiting
<1>2. QuietStep
  BY DEF QuietStep, NoNewPending, NothingNew, StaysUsable, RenewalKept, Usable,
         Excused, Issued, Pending, KnownPairs
<1>3. MeCarriesPair'
  BY DEF MeCarriesPair
<1> QED
  BY <1>1, <1>2, <1>3, QuietStepKeepsInvariant

LEMMA RefuseRenewalStep == ASSUME IInv, RefuseRenewal PROVE IInv'
<1> USE DEF IInv, TypeOK, RefuseRenewal, server
<1>1. renewal' \in RenewalRecord /\ renewal'.phase = "failed"
      /\ renewal'.sent = renewal.sent /\ renewal'.got = renewal.got
  BY DEF RenewalRecord
<1>2. renewal' # NoRenewal
  BY <1>1, NoRenewalType
<1>3. TypeOK'
  BY <1>1, <1>2 DEF RenewalRecord, Issued, Waiting
<1>4. QuietStep
  BY <1>1 DEF QuietStep, NoNewPending, NothingNew, StaysUsable, RenewalKept, Usable,
              Excused, Issued, Pending
<1>5. MeCarriesPair'
  BY DEF MeCarriesPair
<1> QED
  BY <1>3, <1>4, <1>5, QuietStepKeepsInvariant

-----------------------------------------------------------------------------
(* Continuations that bring no pair.                                       *)

\* A call that ends, with the session as it was, identified, or cleared.
LEMMA ReturnStep ==
    ASSUME IInv, NEW c \in Call, Return(c),
           status' \in {"anonymous", "authenticating", "authenticated"},
           principal' \in User \cup {Nobody},
           tokens' \in {tokens, 0}, storage' \in {storage, 0},
           UNCHANGED <<mounted, reloads, renewal, server>>
    PROVE  IInv'
<1> USE DEF IInv, TypeOK, CallRecord, server
<1>1. /\ call' \in [Call -> CallRecord]
      /\ call'[c].request = "none" /\ call'[c].phase = "idle"
      /\ \A d \in Call \ {c} : call'[d] = call[d]
  BY ReturnType
<1>2. TypeOK'
  BY <1>1, SessionAssumption DEF Issued, Waiting
<1>3. QuietStep
  BY <1>1 DEF QuietStep, NoNewPending, NothingNew, StaysUsable, RenewalKept, Usable,
              Excused, Issued, Pending, KnownPairs
<1>4. MeCarriesPair'
  BY <1>1 DEF MeCarriesPair
<1> QED
  BY <1>2, <1>3, <1>4, QuietStepKeepsInvariant

LEMMA IdentifiedStep == ASSUME IInv, NEW c \in Call, Identified(c) PROVE IInv'
<1>1. principal' \in User \cup {Nobody}
  <2>1. call[c].pair \in Pair
    BY DEF IInv, MeCarriesPair, Identified
  <2> QED
    BY <2>1 DEF IInv, TypeOK, Identified
<1> QED
  BY <1>1, ReturnStep DEF Identified

LEMMA QueryDoneStep == ASSUME IInv, NEW c \in Call, QueryDone(c) PROVE IInv'
BY ReturnStep DEF IInv, TypeOK, QueryDone, KeepSession

LEMMA LoggedOutStep == ASSUME IInv, NEW c \in Call, LoggedOut(c) PROVE IInv'
BY ReturnStep DEF LoggedOut, ClearSession, CommitTokens

LEMMA FailedStep == ASSUME IInv, NEW c \in Call, Failed(c) PROVE IInv'
<1>1. Throw(c)
  BY DEF Failed
<1>2. CASE ClearSession
  BY <1>1, <1>2, ReturnStep DEF Throw, ClearSession, CommitTokens
<1>3. CASE KeepSession
  BY <1>1, <1>3, ReturnStep DEF IInv, TypeOK, Throw, KeepSession
<1> QED
  BY <1>1, <1>2, <1>3 DEF Throw

LEMMA UnauthorizedStep == ASSUME IInv, NEW c \in Call, Unauthorized(c) PROVE IInv'
<1> USE DEF IInv, TypeOK, CallRecord, Unauthorized, KeepSession, server
<1>1. /\ call' \in [Call -> CallRecord]
      /\ call'[c].request = call[c].request /\ call'[c].pair = call[c].pair
      /\ call'[c].phase = "renewing"
      /\ \A d \in Call \ {c} : call'[d] = call[d]
  BY AnsweredType DEF Phase
<1>2. \/ renewal # NoRenewal /\ renewal' = renewal
      \/ /\ renewal = NoRenewal /\ tokens # 0
         /\ renewal' = [phase |-> "sent", sent |-> tokens, got |-> 0]
  BY DEF RefreshOnce
<1>3. renewal' \in RenewalRecord /\ renewal' # NoRenewal
  BY <1>2, SessionAssumption DEF RenewalRecord, NoRenewal
<1>4. TypeOK'
  BY <1>1, <1>3 DEF RenewalRecord, Issued, Waiting
<1>5. RenewalKept
  BY <1>2, NoRenewalType DEF RenewalKept, KnownPairs
<1>6. NothingNew
  BY <1>2 DEF NothingNew
<1>7. NoNewPending
  BY <1>1 DEF NoNewPending, Pending
<1>8. StaysUsable
  BY DEF StaysUsable, Usable, Excused, Issued
<1>9. MeCarriesPair'
  BY <1>1 DEF MeCarriesPair
<1> QED
  BY <1>4, <1>5, <1>6, <1>7, <1>8, <1>9, QuietStepKeepsInvariant DEF QuietStep

LEMMA NotRenewedStep == ASSUME IInv, NotRenewed PROVE IInv'
<1> USE DEF IInv, TypeOK, CallRecord, NotRenewed, ClearSession, CommitTokens, server
<1>1. /\ call' \in [Call -> CallRecord]
      /\ \A c \in Call : ~Waiting(c)' /\ call'[c] \in {call[c], Idle}
  BY IdleType DEF Waiting
<1>2. renewal' \in RenewalRecord /\ renewal'.phase = "none"
      /\ renewal'.sent = 0 /\ renewal'.got = 0
  BY NoRenewalType
<1>3. TypeOK'
  BY <1>1, <1>2, SessionAssumption DEF RenewalRecord, Issued
<1>4. NoNewPending
  BY <1>1, IdleType DEF NoNewPending, Pending
<1>5. StaysUsable
  BY DEF StaysUsable, Usable, Excused, Issued
<1>6. NothingNew /\ RenewalKept
  BY <1>2 DEF NothingNew, RenewalKept
<1>7. MeCarriesPair'
  BY <1>1, IdleType DEF MeCarriesPair
<1> QED
  BY <1>3, <1>4, <1>5, <1>6, <1>7, QuietStepKeepsInvariant DEF QuietStep

-----------------------------------------------------------------------------
(* A pair is issued, and a pair arrives.                                   *)

\* What Issue adds: a pair nobody has seen.
LEMMA IssueType ==
    ASSUME TypeOK, NEW p \in Pair, NEW u \in User \cup {Nobody}, Issue(p, u)
    PROVE  /\ owner' \in [Pair -> User \cup {Nobody}]
           /\ p \notin Issued /\ Issued \subseteq Issued'
           /\ u # Nobody => p \in Issued'
           /\ p \in 0 .. MaxPairs /\ p # 0
BY SessionAssumption DEF TypeOK, Issue, Issued, Pair

LEMMA ServeLoginStep == ASSUME IInv, NEW c \in Call, ServeLogin(c) PROVE IInv'
<1> USE DEF IInv, KeepSession
<1>1. CASE Answered(c, "401") /\ UNCHANGED <<owner, valid, live>>
  <2>1. /\ call' \in [Call -> CallRecord]
        /\ call'[c].request = call[c].request /\ call'[c].pair = call[c].pair
        /\ call'[c].phase = "401"
        /\ \A d \in Call \ {c} : call'[d] = call[d]
    BY <1>1, AnsweredType DEF Phase, TypeOK, CallRecord
  <2>2. TypeOK'
    BY <1>1, <2>1 DEF ServeLogin, TypeOK, CallRecord, Issued, Waiting
  <2>3. QuietStep
    BY <1>1, <2>1 DEF ServeLogin, QuietStep, NoNewPending, NothingNew, StaysUsable,
                      RenewalKept, Usable, Excused, Issued, Pending, KnownPairs
  <2>4. MeCarriesPair'
    BY <2>1 DEF MeCarriesPair
  <2> QED
    BY <2>2, <2>3, <2>4, QuietStepKeepsInvariant
<1>2. ASSUME NEW p \in Pair, NEW u \in User, Issue(p, u), live' = live \cup {p},
             call' = [call EXCEPT ![c].phase = "ok", ![c].pair = p]
      PROVE  IInv'
  <2>1. /\ owner' \in [Pair -> User \cup {Nobody}]
        /\ p \notin Issued /\ Issued \subseteq Issued' /\ p \in Issued'
        /\ p \in 0 .. MaxPairs /\ p # 0
    BY <1>2, IssueType, SessionAssumption
  <2>2. /\ call' \in [Call -> CallRecord]
        /\ call'[c].request = "login" /\ call'[c].pair = p /\ call'[c].phase = "ok"
        /\ \A d \in Call \ {c} : call'[d] = call[d]
    BY <1>2, <2>1 DEF ServeLogin, TypeOK, CallRecord, Phase
  <2>3. valid' = valid \cup {p}
    BY <1>2 DEF Issue
  <2>4. TypeOK'
    BY <1>2, <2>1, <2>2, <2>3 DEF ServeLogin, TypeOK, CallRecord, Waiting
  <2>5. Usable' = Usable \cup {p}
    BY <1>2 DEF ServeLogin, Usable, Excused
  <2>6. KnownPairs'
    BY <2>1, <2>5 DEF ServeLogin, KnownPairs
  <2>7. HeldPairIsUsable'
    BY <2>5 DEF ServeLogin, HeldPairIsUsable, Usable
  <2>8. MeCarriesPair'
    BY <2>2 DEF MeCarriesPair
  <2>9. p \notin {tokens, storage, renewal.sent, renewal.got}
    BY <2>1 DEF KnownPairs
  <2>10. \A d \in Call \ {c} : Pending(d)' => /\ Pending(d) /\ call'[d].pair = call[d].pair
                                             /\ call[d].pair # p
    BY <2>1, <2>2 DEF Pending, PendingPairsAreNew
  <2>11. ASSUME NEW d \in Call, Pending(d)'
         PROVE  /\ call'[d].pair \in Usable' \cap Issued'
                /\ call'[d].pair \notin {tokens', storage', renewal'.sent, renewal'.got}
                /\ \A e \in Call \ {d} : Pending(e)' => call'[e].pair # call'[d].pair
    <3>1. CASE d = c
      BY <3>1, <2>1, <2>2, <2>5, <2>9, <2>10 DEF ServeLogin
    <3>2. CASE d # c
      <4>1. Pending(d) /\ call'[d].pair = call[d].pair /\ call[d].pair # p
        BY <3>2, <2>10, <2>11
      <4>2. /\ call[d].pair \in Usable \cap Issued
            /\ call[d].pair \notin {tokens, storage, renewal.sent, renewal.got}
            /\ \A e \in Call \ {d} : Pending(e) => call[e].pair # call[d].pair
        BY <4>1 DEF PendingPairsAreNew
      <4>3. \A e \in Call \ {d} : Pending(e)' => call'[e].pair # call[d].pair
        BY <4>1, <4>2, <2>2, <2>10
      <4> QED
        BY <4>1, <4>2, <4>3, <2>1, <2>5 DEF ServeLogin
    <3> QED
      BY <3>1, <3>2
  <2>12. PendingPairsAreNew'
    BY <2>11 DEF PendingPairsAreNew
  <2> QED
    BY <2>4, <2>6, <2>7, <2>8, <2>12
<1> QED
  BY <1>1, <1>2 DEF ServeLogin

LEMMA LoggedInStep == ASSUME IInv, NEW c \in Call, LoggedIn(c) PROVE IInv'
<1> USE DEF IInv
<1> DEFINE p == call[c].pair
<1>1. /\ p \in Usable \cap Issued
      /\ p \notin {tokens, storage, renewal.sent, renewal.got}
      /\ \A d \in Call \ {c} : Pending(d) => call[d].pair # p
  BY DEF LoggedIn, Pending, PendingPairsAreNew
<1>2. p \in 0 .. MaxPairs /\ p \in Pair
  BY <1>1 DEF TypeOK, Issued
<1>3. /\ call' \in [Call -> CallRecord]
      /\ call'[c].request = "me" /\ call'[c].phase = "sent" /\ call'[c].pair = p
      /\ \A d \in Call \ {c} : call'[d] = call[d]
  BY <1>2, SendType DEF LoggedIn, Request, TypeOK, CallRecord
<1>4. tokens' = p /\ storage' = p
  BY DEF LoggedIn, CommitTokens
<1>5. Usable' = Usable /\ Issued' = Issued
  BY DEF LoggedIn, Usable, Excused, Issued, server
<1> HIDE DEF p
<1>6. TypeOK'
  BY <1>2, <1>3, <1>4, <1>5 DEF LoggedIn, TypeOK, CallRecord, Waiting, server
<1>7. MeCarriesPair'
  BY <1>2, <1>3 DEF MeCarriesPair
<1>8. KnownPairs'
  BY <1>1, <1>4, <1>5 DEF LoggedIn, KnownPairs
<1>9. HeldPairIsUsable'
  BY <1>1, <1>4, <1>5 DEF HeldPairIsUsable, Usable
<1>10. PendingPairsAreNew'
  <2>1. \A d \in Call : Pending(d)' => d # c /\ Pending(d) /\ call'[d].pair = call[d].pair
    BY <1>3 DEF Pending
  <2> SUFFICES ASSUME NEW d \in Call, Pending(d)'
               PROVE  /\ call'[d].pair \in Usable' \cap Issued'
                      /\ call'[d].pair \notin {tokens', storage', renewal'.sent, renewal'.got}
                      /\ \A e \in Call \ {d} : Pending(e)' => call'[e].pair # call'[d].pair
    BY DEF PendingPairsAreNew
  <2>2. d # c /\ Pending(d) /\ call'[d].pair = call[d].pair
    BY <2>1
  <2>3. /\ call[d].pair \in Usable \cap Issued
        /\ call[d].pair \notin {tokens, storage, renewal.sent, renewal.got}
        /\ \A e \in Call \ {d} : Pending(e) => call[e].pair # call[d].pair
    BY <2>2 DEF PendingPairsAreNew
  <2>4. call[d].pair # p
    BY <2>2, <1>1
  <2>5. \A e \in Call \ {d} : Pending(e)' => call'[e].pair # call[d].pair
    BY <2>1, <2>3
  <2> QED
    BY <2>2, <2>3, <2>4, <2>5, <1>4, <1>5 DEF LoggedIn
<1> QED
  BY <1>6, <1>7, <1>8, <1>9, <1>10

LEMMA RenewedStep == ASSUME IInv, Renewed PROVE IInv'
<1> USE DEF IInv
<1>1. /\ renewal.got \in Usable /\ tokens' = renewal.got /\ storage' = renewal.got
      /\ \A c \in Call : call'[c] = IF Waiting(c)
                                    THEN Sent(call[c].request, renewal.got, TRUE) ELSE call[c]
  BY DEF Renewed, CommitTokens, KnownPairs
<1>2. Usable' = Usable /\ Issued' = Issued
  BY DEF Renewed, Usable, Excused, Issued, server
<1>3. renewal' \in RenewalRecord /\ renewal'.phase = "none"
      /\ renewal'.sent = 0 /\ renewal'.got = 0
  BY NoRenewalType DEF Renewed
<1>4. renewal.got \in 0 .. MaxPairs /\ renewal.got \in Issued
  BY <1>1 DEF TypeOK, Usable, Excused
<1>5. ASSUME NEW c \in Call
      PROVE  /\ Sent(call[c].request, renewal.got, TRUE) \in CallRecord
             /\ Sent(call[c].request, renewal.got, TRUE).phase = "sent"
             /\ Sent(call[c].request, renewal.got, TRUE).pair = renewal.got
  <2>1. call[c].request \in Request
    BY DEF TypeOK
  <2> QED
    BY <1>4, <2>1, SentType
<1>6. call' \in [Call -> CallRecord] /\ \A c \in Call : ~Waiting(c)'
  BY <1>1, <1>5 DEF Renewed, TypeOK, CallRecord, Waiting
<1>7. TypeOK'
  BY <1>1, <1>2, <1>3, <1>4, <1>6 DEF Renewed, TypeOK, CallRecord, RenewalRecord, server
<1>8. NoNewPending
  BY <1>1, <1>5 DEF NoNewPending, Pending
<1>9. PendingPairsAreNew'
  <2>1. StaysUsable
    BY <1>2 DEF StaysUsable
  <2> QED
    BY <1>1, <1>3, <1>8, <2>1, PendingKept
<1>10. KnownPairs'
  BY <1>1, <1>2, <1>3, <1>4 DEF KnownPairs
<1>11. HeldPairIsUsable'
  BY <1>1, <1>2 DEF HeldPairIsUsable, Usable
<1>12. MeCarriesPair'
  <2>1. renewal.got \in Pair
    BY <1>4 DEF Issued
  <2>2. \A c \in Call : Waiting(c) => call'[c].pair = renewal.got
    BY <1>1, <1>5 DEF Waiting
  <2>3. \A c \in Call : ~Waiting(c) => call'[c] = call[c]
    BY <1>1 DEF Waiting
  <2> QED
    BY <2>1, <2>2, <2>3 DEF MeCarriesPair
<1> QED
  BY <1>7, <1>9, <1>10, <1>11, <1>12

\* The exchange: the pair sent stops being usable, unless its answer was lost.
LEMMA ServeRenewalStep == ASSUME IInv, ServeRenewal PROVE IInv'
<1> USE DEF IInv
<1>1. renewal.phase = "sent" /\ renewal.sent \in live /\ renewal.sent # 0
  BY DEF ServeRenewal, KnownPairs
<1>2. PICK p \in Pair :
        /\ Issue(p, owner[renewal.sent])
        /\ live' = (live \ {renewal.sent}) \cup {p}
        /\ \/ renewal' = [renewal EXCEPT !.phase = "ok", !.got = p] /\ UNCHANGED stranded
           \/ /\ renewal' = [renewal EXCEPT !.phase = "failed"]
              /\ stranded' = stranded \cup {renewal.sent}
  BY DEF ServeRenewal
<1>3. renewal.sent \in Issued
  BY <1>1 DEF TypeOK
<1>4. owner[renewal.sent] \in User \cup {Nobody} /\ owner[renewal.sent] # Nobody
  BY <1>3 DEF TypeOK, Issued
<1>5. /\ owner' \in [Pair -> User \cup {Nobody}]
      /\ p \notin Issued /\ Issued \subseteq Issued' /\ p \in Issued'
      /\ p \in 0 .. MaxPairs /\ p # 0
  BY <1>2, <1>4, IssueType
<1>6. /\ call' = call /\ tokens' = tokens /\ storage' = storage /\ ended' = ended
      /\ valid' = valid \cup {p}
  BY <1>2 DEF ServeRenewal, Issue
<1>7. /\ renewal' \in RenewalRecord /\ renewal' # NoRenewal
      /\ renewal'.sent = renewal.sent
      /\ \/ renewal'.phase = "ok" /\ renewal'.got = p
         \/ /\ renewal'.phase = "failed" /\ renewal'.got = renewal.got
            /\ renewal.sent \in stranded'
  <2>1. renewal \in RenewalRecord
    BY DEF TypeOK, RenewalRecord
  <2> QED
    BY <1>2, <1>5, <2>1, NoRenewalType DEF RenewalRecord
<1>8. p \in Usable' /\ \A q \in Usable : q # renewal.sent => q \in Usable'
  BY <1>2, <1>6 DEF Usable, Excused
<1>9. renewal'.phase = "ok" \/ renewal.sent \in Usable'
  BY <1>7 DEF Usable, Excused
<1>10. stranded' \subseteq Issued'
  BY <1>2, <1>3, <1>5 DEF TypeOK
<1>11. TypeOK'
  <2>1. /\ valid' \subseteq Issued' /\ live' \subseteq Issued' /\ ended' \subseteq Issued'
    BY <1>2, <1>5, <1>6 DEF TypeOK
  <2>2. renewal' \in [phase : {"none", "sent", "ok", "failed"},
                      sent : 0 .. MaxPairs, got : 0 .. MaxPairs]
    BY <1>7 DEF RenewalRecord
  <2> QED
    BY <1>5, <1>6, <1>7, <1>10, <2>1, <2>2 DEF ServeRenewal, TypeOK, Waiting
<1>12. MeCarriesPair'
  BY <1>6 DEF MeCarriesPair
<1>13. KnownPairs'
  BY <1>1, <1>5, <1>6, <1>7, <1>8 DEF KnownPairs
<1>14. HeldPairIsUsable'
  BY <1>1, <1>6, <1>7, <1>8, <1>9 DEF HeldPairIsUsable, Usable
<1>15. PendingPairsAreNew'
  <2>1. \A c \in Call : Pending(c)' = Pending(c)
    BY <1>6 DEF Pending
  <2>2. p \notin {tokens, storage, renewal.sent, renewal.got}
    BY <1>5 DEF KnownPairs
  <2>3. ASSUME NEW c \in Call, Pending(c)
        PROVE  /\ call[c].pair \in Usable' \cap Issued'
               /\ call[c].pair \notin {tokens, storage, renewal.sent, renewal'.got}
               /\ \A d \in Call \ {c} : Pending(d) => call[d].pair # call[c].pair
    <3>1. /\ call[c].pair \in Usable \cap Issued
          /\ call[c].pair \notin {tokens, storage, renewal.sent, renewal.got}
          /\ \A d \in Call \ {c} : Pending(d) => call[d].pair # call[c].pair
      BY <2>3 DEF PendingPairsAreNew
    <3>2. call[c].pair # p
      BY <3>1, <1>5
    <3> QED
      BY <3>1, <3>2, <1>5, <1>7, <1>8
  <2> QED
    BY <2>1, <2>3, <1>6, <1>7 DEF PendingPairsAreNew
<1> QED
  BY <1>11, <1>12, <1>13, <1>14, <1>15

-----------------------------------------------------------------------------
(* The theorems.                                                           *)

LEMMA InitEstablishesInvariant == Init => IInv
<1> SUFFICES ASSUME Init PROVE IInv
  OBVIOUS
<1> USE DEF Init
<1>1. \A c \in Call : call[c] = Idle
  OBVIOUS
<1>2. call \in [Call -> CallRecord] /\ \A c \in Call : ~Pending(c) /\ ~Waiting(c)
  BY <1>1, IdleType DEF Pending, Waiting
<1>3. TypeOK
  <2>1. 0 \in 0 .. MaxPairs /\ 0 \in 0 .. MaxReloads
    BY SessionAssumption
  <2>2. owner \in [Pair -> User \cup {Nobody}]
    OBVIOUS
  <2> QED
    BY <1>2, <2>1, <2>2, NoRenewalType DEF TypeOK, CallRecord, RenewalRecord
<1>4. MeCarriesPair
  BY <1>1, IdleType DEF MeCarriesPair
<1>5. KnownPairs /\ HeldPairIsUsable
  BY NoRenewalType DEF KnownPairs, HeldPairIsUsable
<1>6. PendingPairsAreNew
  BY <1>2 DEF PendingPairsAreNew
<1> QED
  BY <1>3, <1>4, <1>5, <1>6 DEF IInv

LEMMA NextKeepsInvariant == IInv /\ [Next]_vars => IInv'
<1> SUFFICES ASSUME IInv, [Next]_vars PROVE IInv'
  OBVIOUS
<1>1. ASSUME NEW c \in Call, Restore(c) \/ Login(c) \/ Logout(c) \/ Query(c) PROVE IInv'
  BY <1>1, RestoreStep, LoginStep, LogoutStep, QueryStep
<1>2. ASSUME NEW c \in Call, Network(c) PROVE IInv'
  BY <1>2, ServeLoginStep, ServeStep, LoseStep DEF Network
<1>3. ASSUME NEW c \in Call, Continue(c) PROVE IInv'
  BY <1>3, LoggedInStep, IdentifiedStep, QueryDoneStep, LoggedOutStep, FailedStep,
     UnauthorizedStep DEF Continue
<1>4. CASE RenewalStep
  BY <1>4, ServeRenewalStep, RefuseRenewalStep, RenewedStep, NotRenewedStep DEF RenewalStep
<1>5. CASE Reload
  BY <1>5, ReloadStep
<1>6. ASSUME NEW p \in Pair, Expire(p) PROVE IInv'
  BY <1>6, ExpireStep
<1>7. CASE UNCHANGED vars
  BY <1>7 DEF vars, client, server, IInv, TypeOK, MeCarriesPair, KnownPairs, Usable,
          PendingPairsAreNew, HeldPairIsUsable, Excused, Issued, Pending, Waiting
<1> QED
  BY <1>1, <1>2, <1>3, <1>4, <1>5, <1>6, <1>7 DEF Next

LEMMA InvariantHolds == Spec => []IInv
<1>1. Init => IInv
  BY InitEstablishesInvariant
<1>2. IInv /\ [Next]_vars => IInv'
  BY NextKeepsInvariant
<1> QED
  BY <1>1, <1>2, PTL DEF Spec

\* The variables of the console and of the server stay in their ranges, and
\* nobody waits for a renewal that is not in flight (HttpClient.refreshOnce).
THEOREM TypeCorrect == Spec => []TypeOK
<1>1. IInv => TypeOK
  BY DEF IInv
<1> QED
  BY <1>1, InvariantHolds, PTL

\* Rotation never leaves the console with a pair it cannot renew, however many
\* logins, logouts, queries and reloads overlap (authStore, refresh handler).
THEOREM HeldPairsAreUsable == Spec => []HeldPairIsUsable
<1>1. IInv => HeldPairIsUsable
  BY DEF IInv
<1> QED
  BY <1>1, InvariantHolds, PTL

\* No refresh token is exchanged and then sent again: a renewal starts only
\* when none is in flight, and with a pair that is still usable
\* (HttpClient.refreshOnce).
THEOREM RotatedTokensAreNotResent == Spec => RotatedTokenNotResent
<1> DEFINE Started == renewal'.phase = "sent" /\ renewal' # renewal
<1>1. ASSUME IInv, Next, Started PROVE renewal'.sent \in live \cup Excused
  <2>1. PICK c \in Call : Unauthorized(c)
    <3>1. ~RenewalStep
      BY <1>1, NoRenewalType DEF RenewalStep, ServeRenewal, RefuseRenewal, Renewed, NotRenewed,
                                 IInv, TypeOK
    <3>2. ~Reload
      BY <1>1, NoRenewalType DEF Reload
    <3> QED
      BY <1>1, <3>1, <3>2 DEF Next, Restore, Login, Logout, Query, Network, ServeLogin, Serve,
         Lose, Continue, LoggedIn, Identified, QueryDone, LoggedOut, Failed, Throw, Expire, client
  <2>2. renewal = NoRenewal /\ tokens # 0 /\ renewal'.sent = tokens
    BY <2>1, <1>1 DEF Unauthorized, RefreshOnce
  <2> QED
    BY <2>2, <1>1, NoRenewalType DEF IInv, HeldPairIsUsable
<1>2. IInv /\ [Next]_vars => [Started => renewal'.sent \in live \cup Excused]_vars
  BY <1>1
<1> QED
  BY <1>2, InvariantHolds, PTL DEF Spec, RotatedTokenNotResent

=============================================================================
