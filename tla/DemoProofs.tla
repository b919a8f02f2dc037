----------------------------- MODULE DemoProofs -----------------------------
(***************************************************************************)
(* Idempotency keys of the payment application, for any number of          *)
(* concurrent requests, workers, accounts and payments: the authorizations *)
(* that share a key make one hold and name one payment.                    *)
(***************************************************************************)
EXTENDS Demo, TLAPS

-----------------------------------------------------------------------------
(* The invariant *)

Fields == {"in", "pc", "loc", "answer"}

\* The requests stay the same; only where their handlers are changes.
RequestsOK ==
    /\ reqs = [i \in DOMAIN reqs |-> reqs[i]]
    /\ \A i \in DOMAIN reqs : reqs[i] = [f \in Fields |-> reqs[i][f]]

Authorizes(i) == reqs[i].in.kind = "authorize"

\* i has acquired its key and has neither completed nor released it.
HasKey(i) == Authorizes(i) /\ reqs[i].pc \in {"hold", "insert", "complete"}

\* i's key is completed with the payment i was answered with.
Resolved(i) ==
    /\ reqs[i].in.key \in DOMAIN idempotency
    /\ idempotency[reqs[i].in.key] = Completed(reqs[i].answer.payment_id)

\* A key in progress has one owner, and a successful answer names the payment its
\* key was completed with.
KeysOK ==
    /\ \A key \in DOMAIN idempotency :
         idempotency[key] = InProgress \/ \E p : idempotency[key] = Completed(p)
    /\ \A i \in DOMAIN reqs : Authorizes(i) =>
         reqs[i].pc \in {"new", "hold", "insert", "complete", "done"}
    /\ \A i \in DOMAIN reqs : HasKey(i) =>
         reqs[i].in.key \in DOMAIN idempotency /\ idempotency[reqs[i].in.key] = InProgress
    /\ \A i, j \in DOMAIN reqs :
         HasKey(i) /\ HasKey(j) /\ reqs[i].in.key = reqs[j].in.key => i = j
    /\ \A i \in DOMAIN reqs : Authorizes(i) /\ reqs[i].answer.status = "ok" => Resolved(i)

KeyInv == RequestsOK /\ KeysOK

-----------------------------------------------------------------------------
(* Steps of handlers *)

\* A step of i leaves the other requests, and what i was asked, as they are.
Only(i) ==
    /\ RequestsOK'
    /\ DOMAIN reqs' = DOMAIN reqs
    /\ \A j \in DOMAIN reqs : j # i => reqs'[j] = reqs[j]
    /\ reqs'[i].in = reqs[i].in

LEMMA GotoOnly ==
    ASSUME RequestsOK, NEW i \in DOMAIN reqs
    PROVE  \A pc, loc : Goto(i, pc, loc) =>
               Only(i) /\ reqs'[i].pc = pc /\ reqs'[i].answer = reqs[i].answer
<1> SUFFICES ASSUME NEW pc, NEW loc, Goto(i, pc, loc)
             PROVE  Only(i) /\ reqs'[i].pc = pc /\ reqs'[i].answer = reqs[i].answer
  OBVIOUS
<1> DEFINE r == [reqs[i] EXCEPT !.pc = pc, !.loc = loc]
<1>1. reqs' = [reqs EXCEPT ![i] = r]
  BY Zenon DEF Goto, RequestsOK
<1>2. r = [f \in Fields |-> r[f]]
  BY Zenon DEF RequestsOK
<1>3. r.in = reqs[i].in /\ r.pc = pc /\ r.answer = reqs[i].answer
  BY DEF RequestsOK, Fields
<1> HIDE DEF r
<1> QED  BY Zenon, <1>1, <1>2, <1>3 DEF Only, RequestsOK

LEMMA RespondOnly ==
    ASSUME RequestsOK, NEW i \in DOMAIN reqs
    PROVE  \A answer : Respond(i, answer) =>
               Only(i) /\ reqs'[i].pc = "done" /\ reqs'[i].answer = answer
<1> SUFFICES ASSUME NEW answer, Respond(i, answer)
             PROVE  Only(i) /\ reqs'[i].pc = "done" /\ reqs'[i].answer = answer
  OBVIOUS
<1> DEFINE r == [reqs[i] EXCEPT !.pc = "done", !.answer = answer]
<1>1. reqs' = [reqs EXCEPT ![i] = r]
  BY Zenon DEF Respond, RequestsOK
<1>2. r = [f \in Fields |-> r[f]]
  BY Zenon DEF RequestsOK
<1>3. r.in = reqs[i].in /\ r.pc = "done" /\ r.answer = answer
  BY DEF RequestsOK, Fields
<1> HIDE DEF r
<1> QED  BY Zenon, <1>1, <1>2, <1>3 DEF Only, RequestsOK

\* A step of a request that is not an authorization does not touch the keys.
LEMMA OtherStep ==
    ASSUME KeyInv, NEW i \in DOMAIN reqs, ~ Authorizes(i), Only(i), idempotency' = idempotency
    PROVE  KeyInv'
<1>1. \A j \in DOMAIN reqs : Authorizes(j)' = Authorizes(j) /\ (Authorizes(j) => reqs'[j] = reqs[j])
  BY DEF Only, Authorizes
<1>2. \A j \in DOMAIN reqs : HasKey(j)' = HasKey(j)
  BY SMTT(30), <1>1 DEF HasKey
<1> QED  BY <1>1, <1>2 DEF KeyInv, KeysOK, Only, HasKey, Resolved, Completed, InProgress

\* The handlers other than handle_authorize.
Others(i) ==
    \/ SettleHoldBegin(i) \/ SettleHoldLedger(i) \/ DepositBegin(i) \/ DepositLedger(i)
    \/ WebhookReceive(i) \/ WebhookHold(i) \/ WebhookInsert(i) \/ WebhookPost(i)
    \/ SettleGather(i) \/ SettleAch(i) \/ SettleSolana(i) \/ SettleMmr(i)
    \/ SettleTransfers(i) \/ SettleStore(i) \/ SettleMark(i) \/ VerifyRead(i)
    \/ VerifyReceipt(i) \/ VerifyProof(i) \/ DriftStore(i) \/ ReconcilePayments(i)
    \/ ReconcileLedger(i) \/ ReconcileAudit(i) \/ DashboardPayments(i) \/ DashboardRoot(i)
    \/ DashboardReport(i) \/ SeedDeposits(i) \/ SeedAlloc(i) \/ SeedHold(i)
    \/ SeedSettle(i) \/ SeedInsert(i)

LEMMA OthersKeep ==
    ASSUME KeyInv, NEW i \in DOMAIN reqs, Others(i)
    PROVE  ~ Authorizes(i) /\ Only(i) /\ idempotency' = idempotency
<1>0. /\ RequestsOK
      /\ Authorizes(i) => reqs[i].pc \in {"new", "hold", "insert", "complete", "done"}
  BY DEF KeyInv, KeysOK
<1> USE <1>0, GotoOnly, RespondOnly DEF Start, At, gates, Authorizes
<1>1. CASE SettleHoldBegin(i)
  BY <1>1 DEF SettleHoldBegin
<1>2. CASE SettleHoldLedger(i)
  BY <1>2 DEF SettleHoldLedger
<1>3. CASE DepositBegin(i)
  BY <1>3 DEF DepositBegin
<1>4. CASE DepositLedger(i)
  BY <1>4 DEF DepositLedger
<1>5. CASE WebhookReceive(i)
  BY <1>5 DEF WebhookReceive
<1>6. CASE WebhookHold(i)
  BY <1>6 DEF WebhookHold
<1>7. CASE WebhookInsert(i)
  BY <1>7 DEF WebhookInsert
<1>8. CASE WebhookPost(i)
  BY <1>8 DEF WebhookPost
<1>9. CASE SettleGather(i)
  BY <1>9 DEF SettleGather
<1>10. CASE SettleAch(i)
  BY <1>10 DEF SettleAch
<1>11. CASE SettleSolana(i)
  BY <1>11 DEF SettleSolana
<1>12. CASE SettleMmr(i)
  BY <1>12 DEF SettleMmr
<1>13. CASE SettleTransfers(i)
  BY <1>13 DEF SettleTransfers
<1>14. CASE SettleStore(i)
  BY <1>14 DEF SettleStore
<1>15. CASE SettleMark(i)
  BY <1>15 DEF SettleMark
<1>16. CASE VerifyRead(i)
  BY <1>16 DEF VerifyRead
<1>17. CASE VerifyReceipt(i)
  BY <1>17 DEF VerifyReceipt
<1>18. CASE VerifyProof(i)
  BY <1>18 DEF VerifyProof
<1>19. CASE DriftStore(i)
  BY <1>19 DEF DriftStore
<1>20. CASE ReconcilePayments(i)
  BY <1>20 DEF ReconcilePayments
<1>21. CASE ReconcileLedger(i)
  BY <1>21 DEF ReconcileLedger
<1>22. CASE ReconcileAudit(i)
  BY <1>22 DEF ReconcileAudit
<1>23. CASE DashboardPayments(i)
  BY <1>23 DEF DashboardPayments
<1>24. CASE DashboardRoot(i)
  BY <1>24 DEF DashboardRoot
<1>25. CASE DashboardReport(i)
  BY <1>25 DEF DashboardReport
<1>26. CASE SeedDeposits(i)
  BY Zenon, <1>26 DEF SeedDeposits
<1>27. CASE SeedAlloc(i)
  BY <1>27 DEF SeedAlloc
<1>28. CASE SeedHold(i)
  BY <1>28 DEF SeedHold
<1>29. CASE SeedSettle(i)
  BY <1>29 DEF SeedSettle
<1>30. CASE SeedInsert(i)
  BY <1>30 DEF SeedInsert
<1> QED
  BY SMTT(30), <1>1, <1>2, <1>3, <1>4, <1>5, <1>6, <1>7, <1>8, <1>9, <1>10,
     <1>11, <1>12, <1>13, <1>14, <1>15, <1>16, <1>17, <1>18, <1>19, <1>20,
     <1>21, <1>22, <1>23, <1>24, <1>25, <1>26, <1>27, <1>28, <1>29, <1>30 DEF Others

-----------------------------------------------------------------------------
(* handle_authorize *)

\* The keys other than key are as they were.
OnlyKey(key) ==
    \A k : k # key =>
        /\ k \in DOMAIN idempotency' <=> k \in DOMAIN idempotency
        /\ k \in DOMAIN idempotency => idempotency'[k] = idempotency[k]

LEMMA EntriesDiffer ==
    /\ \A p : InProgress # Completed(p) /\ NoAnswer # Completed(p)
    /\ NoAnswer # InProgress
    /\ \A p, q : Completed(p) = Completed(q) => p = q
    /\ \A p : Completed(p).status = "Completed" /\ Completed(p).response = p
    /\ InProgress.status # "Completed" /\ NoAnswer.status # "Completed"
<1>1. \A p : Completed(p).status = "Completed" /\ Completed(p).response = p
  BY DEF Completed
<1>2. InProgress.status = "InProgress" /\ NoAnswer.status = "none"
  BY DEF InProgress, NoAnswer
<1> QED  BY <1>1, <1>2

\* A step of authorization i that touches at most its own key keeps the invariant
\* if it keeps it for i, and no other authorization of that key owns it or, unless
\* the entry stays, has been answered with a payment.
LEMMA AuthorizeStep ==
    ASSUME KeyInv, NEW i \in DOMAIN reqs, Authorizes(i), Only(i), NEW key, key = reqs[i].in.key,
           OnlyKey(key),
           key \in DOMAIN idempotency' =>
               \/ idempotency'[key] = InProgress
               \/ \E p : idempotency'[key] = Completed(p),
           reqs'[i].pc \in {"new", "hold", "insert", "complete", "done"},
           HasKey(i)' => key \in DOMAIN idempotency' /\ idempotency'[key] = InProgress,
           reqs'[i].answer.status = "ok" => Resolved(i)',
           \/ idempotency' = idempotency /\ (HasKey(i)' => HasKey(i))
           \/ \A j \in DOMAIN reqs : j # i /\ Authorizes(j) /\ reqs[j].in.key = key =>
                 ~ HasKey(j) /\ reqs[j].answer.status # "ok"
    PROVE  KeyInv'
<1>1. \A j \in DOMAIN reqs : j # i => /\ reqs'[j] = reqs[j]
                                     /\ Authorizes(j)' = Authorizes(j)
                                     /\ HasKey(j)' = HasKey(j)
  BY DEF Only, Authorizes, HasKey
<1>2. DOMAIN reqs' = DOMAIN reqs /\ reqs'[i].in.key = key /\ Authorizes(i)'
  BY DEF Only, Authorizes
<1>3. RequestsOK'
  BY DEF Only
<1>4. ASSUME NEW k \in DOMAIN idempotency'
      PROVE  idempotency'[k] = InProgress \/ \E p : idempotency'[k] = Completed(p)
  <2>1. CASE k = key
    BY <2>1
  <2>2. CASE k # key
    BY <2>2 DEF OnlyKey, KeyInv, KeysOK
  <2> QED  BY <2>1, <2>2
<1>5. ASSUME NEW j \in DOMAIN reqs, Authorizes(j)'
      PROVE  reqs'[j].pc \in {"new", "hold", "insert", "complete", "done"}
  BY SMTT(30), <1>1, <1>5 DEF KeyInv, KeysOK
<1>6. ASSUME NEW j \in DOMAIN reqs, HasKey(j)'
      PROVE  reqs'[j].in.key \in DOMAIN idempotency' /\ idempotency'[reqs'[j].in.key] = InProgress
  <2>1. CASE j = i
    BY <1>2, <1>6, <2>1
  <2>2. CASE j # i
    <3>1. HasKey(j) /\ Authorizes(j) /\ reqs'[j].in.key = reqs[j].in.key
      BY SMTT(30), <1>1, <1>6, <2>2 DEF HasKey
    <3>2. reqs[j].in.key \in DOMAIN idempotency /\ idempotency[reqs[j].in.key] = InProgress
      BY <3>1 DEF KeyInv, KeysOK
    <3> QED  BY SMTT(30), <2>2, <3>1, <3>2 DEF OnlyKey
  <2> QED  BY SMTT(30), <2>1, <2>2
<1>7. ASSUME NEW j \in DOMAIN reqs, NEW k \in DOMAIN reqs, HasKey(j)', HasKey(k)',
             reqs'[j].in.key = reqs'[k].in.key, j # k
      PROVE  FALSE
  <2>1. \A m \in DOMAIN reqs : m # i /\ HasKey(m)' /\ reqs'[m].in.key = key =>
          HasKey(m) /\ Authorizes(m) /\ reqs[m].in.key = key
    BY <1>1 DEF HasKey
  <2>2. \A m, n \in DOMAIN reqs :
          HasKey(m) /\ HasKey(n) /\ reqs[m].in.key = reqs[n].in.key => m = n
    BY DEF KeyInv, KeysOK
  <2>3. CASE j # i /\ k # i
    BY SMTT(30), <1>1, <1>7, <2>2, <2>3
  <2>4. ASSUME NEW m \in DOMAIN reqs, m # i, HasKey(m)', HasKey(i)', reqs'[m].in.key = key
        PROVE  FALSE
    BY <2>1, <2>2, <2>4
  <2> QED  BY SMTT(30), <1>2, <1>7, <2>3, <2>4
<1>8. ASSUME NEW j \in DOMAIN reqs, Authorizes(j)', reqs'[j].answer.status = "ok"
      PROVE  Resolved(j)'
  <2>1. CASE j = i
    BY SMTT(30), <1>2, <1>8, <2>1
  <2>2. CASE j # i
    <3>1. reqs'[j] = reqs[j] /\ Authorizes(j) /\ reqs[j].answer.status = "ok"
      BY <1>1, <1>8, <2>2
    <3>2. Resolved(j)
      BY <3>1 DEF KeyInv, KeysOK
    <3> QED  BY SMTT(30), <2>2, <3>1, <3>2 DEF OnlyKey, Resolved, Completed
  <2> QED  BY <2>1, <2>2
<1> QED  BY SMTT(30), <1>2, <1>3, <1>4, <1>5, <1>6, <1>7, <1>8 DEF KeyInv, KeysOK

\* The owner of a key is alone: nobody else owns it or was answered under it.
LEMMA OwnerAlone ==
    ASSUME KeyInv, NEW i \in DOMAIN reqs, HasKey(i)
    PROVE  /\ reqs[i].in.key \in DOMAIN idempotency
           /\ idempotency[reqs[i].in.key] = InProgress
           /\ \A j \in DOMAIN reqs : Authorizes(j) /\ reqs[j].in.key = reqs[i].in.key =>
                 (j # i => ~ HasKey(j)) /\ reqs[j].answer.status # "ok"
BY EntriesDiffer DEF KeyInv, KeysOK, Resolved

LEMMA BeginKeeps ==
    ASSUME KeyInv, NEW i \in DOMAIN reqs, AuthorizeBegin(i)
    PROVE  KeyInv'
<1> DEFINE key == reqs[i].in.key
<1>1. Authorizes(i) /\ ~ HasKey(i) /\ RequestsOK
  BY DEF AuthorizeBegin, Start, Authorizes, HasKey, KeyInv
<1>2. PICK found \in {try_acquire(key)} :
         \/ /\ found = InProgress
            /\ Respond(i, Error)
            /\ UNCHANGED idempotency
         \/ /\ found.status = "Completed"
            /\ Respond(i, [status |-> "ok", payment_id |-> found.response])
            /\ UNCHANGED idempotency
         \/ /\ found = NoAnswer
            /\ idempotency' = MapInsert(idempotency, key, InProgress)
            /\ \E loc : Goto(i, "hold", loc)
  BY SMTT(30) DEF AuthorizeBegin
<1>3. CASE found = InProgress /\ Respond(i, Error) /\ UNCHANGED idempotency
  <2>1. Only(i) /\ reqs'[i].pc = "done" /\ reqs'[i].answer.status # "ok" /\ ~ HasKey(i)'
    BY SMTT(30), <1>1, <1>3, RespondOnly DEF Error, HasKey
  <2> QED  BY SMTT(30), <1>1, <1>3, <2>1, AuthorizeStep DEF OnlyKey, KeyInv, KeysOK
<1>4. CASE /\ found.status = "Completed"
           /\ Respond(i, [status |-> "ok", payment_id |-> found.response])
           /\ UNCHANGED idempotency
  <2>1. Only(i) /\ reqs'[i].pc = "done" /\ reqs'[i].answer.payment_id = found.response /\ ~ HasKey(i)'
    BY <1>1, <1>4, RespondOnly DEF HasKey
  <2>2. key \in DOMAIN idempotency /\ found = idempotency[key]
    BY <1>4, EntriesDiffer DEF try_acquire
  <2>3. idempotency[key] = Completed(found.response)
    BY SMTT(30), <1>4, <2>2, EntriesDiffer DEF KeyInv, KeysOK
  <2>4. Resolved(i)'
    BY SMTT(30), <1>4, <2>1, <2>2, <2>3 DEF Resolved, Completed, Only
  <2> QED  BY SMTT(30), <1>1, <1>4, <2>1, <2>4, AuthorizeStep DEF OnlyKey, KeyInv, KeysOK
<1>5. CASE /\ found = NoAnswer
           /\ idempotency' = MapInsert(idempotency, key, InProgress)
           /\ \E loc : Goto(i, "hold", loc)
  <2>1. Only(i) /\ reqs'[i].pc = "hold" /\ reqs'[i].answer = reqs[i].answer
    BY SMTT(30), <1>1, <1>5, GotoOnly
  <2>2. key \notin DOMAIN idempotency
    BY <1>5, EntriesDiffer DEF try_acquire, KeyInv, KeysOK
  <2>3. \A j \in DOMAIN reqs : Authorizes(j) /\ reqs[j].in.key = key =>
          ~ HasKey(j) /\ reqs[j].answer.status # "ok"
    BY <2>2 DEF KeyInv, KeysOK, Resolved
  <2>4. OnlyKey(key) /\ key \in DOMAIN idempotency' /\ idempotency'[key] = InProgress
    BY <1>5 DEF MapInsert, OnlyKey
  <2> QED  BY SMTT(30), <1>1, <2>1, <2>3, <2>4, AuthorizeStep
<1> QED  BY SMTT(30), <1>2, <1>3, <1>4, <1>5

LEMMA HoldKeeps ==
    ASSUME KeyInv, NEW i \in DOMAIN reqs, AuthorizeHold(i)
    PROVE  KeyInv'
<1> DEFINE key == reqs[i].in.key
<1>1. Authorizes(i) /\ HasKey(i) /\ RequestsOK
  BY DEF AuthorizeHold, At, Authorizes, HasKey, KeyInv
<1>2. \/ UNCHANGED idempotency /\ \E loc : Goto(i, "insert", loc)
      \/ idempotency' = release_on_failure(key) /\ Respond(i, Error)
  BY DEF AuthorizeHold
<1>3. CASE UNCHANGED idempotency /\ \E loc : Goto(i, "insert", loc)
  <2>1. Only(i) /\ reqs'[i].pc = "insert" /\ reqs'[i].answer = reqs[i].answer
    BY SMTT(30), <1>1, <1>3, GotoOnly
  <2> QED  BY SMTT(30), <1>1, <1>3, <2>1, OwnerAlone, AuthorizeStep DEF OnlyKey
<1>4. CASE idempotency' = release_on_failure(key) /\ Respond(i, Error)
  <2>1. Only(i) /\ reqs'[i].pc = "done" /\ reqs'[i].answer.status # "ok" /\ ~ HasKey(i)'
    BY <1>1, <1>4, RespondOnly DEF Error, HasKey
  <2>2. OnlyKey(key) /\ key \notin DOMAIN idempotency'
    BY <1>4 DEF release_on_failure, OnlyKey
  <2> QED  BY SMTT(30), <1>1, <2>1, <2>2, OwnerAlone, AuthorizeStep
<1> QED  BY <1>2, <1>3, <1>4

LEMMA InsertKeeps ==
    ASSUME KeyInv, NEW i \in DOMAIN reqs, AuthorizeInsert(i)
    PROVE  KeyInv'
<1>1. Authorizes(i) /\ HasKey(i) /\ RequestsOK
  BY DEF AuthorizeInsert, At, Authorizes, HasKey, KeyInv
<1>2. Only(i) /\ reqs'[i].pc = "complete" /\ reqs'[i].answer = reqs[i].answer
  BY <1>1, GotoOnly DEF AuthorizeInsert
<1>3. UNCHANGED idempotency
  BY DEF AuthorizeInsert, gates
<1> QED  BY SMTT(30), <1>1, <1>2, <1>3, OwnerAlone, AuthorizeStep DEF OnlyKey

LEMMA CompleteKeeps ==
    ASSUME KeyInv, NEW i \in DOMAIN reqs, AuthorizeComplete(i)
    PROVE  KeyInv'
<1> DEFINE key == reqs[i].in.key
           payment_id == reqs[i].loc.payment_id
<1>1. Authorizes(i) /\ HasKey(i) /\ RequestsOK
  BY SMTT(30) DEF AuthorizeComplete, At, Authorizes, HasKey, KeyInv
<1>2. Only(i) /\ reqs'[i].pc = "done" /\ reqs'[i].answer.payment_id = payment_id /\ ~ HasKey(i)'
  BY <1>1, RespondOnly DEF AuthorizeComplete, HasKey
<1>3. OnlyKey(key) /\ key \in DOMAIN idempotency' /\ idempotency'[key] = Completed(payment_id)
  BY DEF AuthorizeComplete, MapInsert, OnlyKey
<1>4. Resolved(i)'
  BY SMTT(30), <1>2, <1>3 DEF Resolved, Completed, Only
<1> QED  BY SMTT(30), <1>1, <1>2, <1>3, <1>4, OwnerAlone, AuthorizeStep

-----------------------------------------------------------------------------
(* The theorem *)

LEMMA KeyInit == Init => KeyInv
<1> SUFFICES ASSUME Init PROVE KeyInv
  OBVIOUS
<1>1. PICK sc \in Scenario :
        reqs = [i \in DOMAIN sc |-> [in |-> sc[i], pc |-> "new", loc |-> NoAnswer,
                                     answer |-> NoAnswer]]
  BY DEF Init
<1>2. RequestsOK
  BY <1>1 DEF RequestsOK, Fields
<1>3. \A i \in DOMAIN reqs : reqs[i].pc = "new" /\ reqs[i].answer.status = "none"
  BY <1>1 DEF NoAnswer
<1>4. DOMAIN idempotency = {}
  BY DEF Init, EmptyMap
<1> QED  BY <1>2, <1>3, <1>4 DEF KeyInv, KeysOK, HasKey

LEMMA KeyStep == KeyInv /\ [Next]_vars => KeyInv'
<1> SUFFICES ASSUME KeyInv, [Next]_vars PROVE KeyInv'
  OBVIOUS
<1>1. CASE UNCHANGED <<reqs, idempotency>>
  BY <1>1 DEF KeyInv, RequestsOK, KeysOK, HasKey, Authorizes, Resolved, InProgress, Completed
<1>2. ASSUME NEW i \in DOMAIN reqs, Step(i)
      PROVE  KeyInv'
  <2>1. \/ AuthorizeBegin(i) \/ AuthorizeHold(i) \/ AuthorizeInsert(i)
        \/ AuthorizeComplete(i) \/ Others(i)
    BY <1>2, Zenon DEF Step, Others
  <2> QED  BY SMTT(30), <2>1, BeginKeeps, HoldKeeps, InsertKeeps, CompleteKeeps, OthersKeep, OtherStep
<1> QED  BY <1>1, <1>2 DEF Next, Idle, vars, gates

LEMMA KeySafe == KeyInv => OneHoldPerKey
<1> SUFFICES ASSUME KeyInv, NEW i \in DOMAIN reqs, NEW j \in DOMAIN reqs, i # j,
                    Authorizes(i), Authorizes(j), reqs[i].in.key = reqs[j].in.key
             PROVE  /\ ~ (reqs[i].pc \in {"insert", "complete"} /\ reqs[j].pc \in {"insert", "complete"})
                    /\ reqs[i].answer.status = "ok" /\ reqs[j].answer.status = "ok"
                         => reqs[i].answer.payment_id = reqs[j].answer.payment_id
  BY DEF OneHoldPerKey, Authorizes
<1>1. ~ (reqs[i].pc \in {"insert", "complete"} /\ reqs[j].pc \in {"insert", "complete"})
  BY DEF KeyInv, KeysOK, HasKey
<1>2. reqs[i].answer.status = "ok" /\ reqs[j].answer.status = "ok"
        => reqs[i].answer.payment_id = reqs[j].answer.payment_id
  BY EntriesDiffer DEF KeyInv, KeysOK, Resolved
<1> QED  BY <1>1, <1>2

\* IdempotencyStore does its job, whatever requests run side by side: of the
\* authorizations that carry one key no two are past their hold together, and all
\* that succeed answer with the same payment.
THEOREM OnePaymentPerKey == Spec => []OneHoldPerKey
<1>1. Init => KeyInv
  BY KeyInit
<1>2. KeyInv /\ [Next]_vars => KeyInv'
  BY KeyStep
<1>3. KeyInv => OneHoldPerKey
  BY KeySafe
<1> QED  BY <1>1, <1>2, <1>3, PTL DEF Spec
=============================================================================
