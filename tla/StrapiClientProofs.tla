------------------------- MODULE StrapiClientProofs -------------------------
(***************************************************************************)
(* Proofs about StrapiClient, for any finite set of workers and any number *)
(* of expired tokens.                                                      *)
(***************************************************************************)
EXTENDS StrapiClient, FiniteSetTheorems, TLAPS

-----------------------------------------------------------------------------
(* Facts about the history of drops. *)

(* Only finitely many tokens have been issued, so drops is finite. *)
LEMMA DropsFinite ==
  ASSUME TypeOK
  PROVE  /\ IsFiniteSet(expired)
         /\ IsFiniteSet(drops)
         /\ Cardinality(expired) \in Nat
         /\ Cardinality(drops) \in Nat
         /\ Cardinality(drops) <= Cardinality(Callers) * Cardinality(expired)
<1>1. IsFiniteSet(1..minted)
  BY FS_Interval DEF TypeOK
<1>2. IsFiniteSet(expired)
  BY <1>1, FS_Subset DEF TypeOK
<1>3. /\ IsFiniteSet(Callers \X expired)
      /\ Cardinality(Callers \X expired)
           = Cardinality(Callers) * Cardinality(expired)
  BY <1>2, FS_Product, CallersAssumption
<1>4. drops \in SUBSET (Callers \X expired)
  BY DEF TypeOK
<1>5. IsFiniteSet(drops) /\ Cardinality(drops) <= Cardinality(Callers \X expired)
  BY <1>3, <1>4, FS_Subset
<1> QED
  BY <1>2, <1>3, <1>5, FS_CardinalityType

(* A pair that was never dropped before adds one to the history. *)
LEMMA NewDrop ==
  ASSUME TypeOK, NEW w \in Callers, NEW t, <<w, t>> \notin drops
  PROVE  Cardinality(drops \cup {<<w, t>>}) = Cardinality(drops) + 1
BY DropsFinite, FS_AddElement

-----------------------------------------------------------------------------
(* The invariant holds at first: no token, no caller, no drop. *)
LEMMA InitIInv == Init => IInv
<1> SUFFICES ASSUME Init PROVE IInv
  OBVIOUS
<1>1. Cardinality(drops) = 0
  BY FS_EmptySet DEF Init
<1>2. TypeOK
  BY DEF Init, TypeOK, PC, Results, NoToken
<1> QED
  BY <1>1, <1>2, CallersAssumption
  DEF Init, IInv, LoginExclusive, LoginFillsEmptyCache, StoresNewest,
      CacheIsNewest, RetryIsFresh, DropsOnce, RejectedDropped, LoginsPaid, TransparentExpiry,
      FirstAttempt, NoToken

(* Type correctness is preserved with the help of two facts: a caller that
   stores holds a token in range, and one that invalidates was rejected. *)
LEMMA TypeOKStep ==
  ASSUME IInv, [Next]_vars
  PROVE  TypeOK'
<1> USE DEF TypeOK, PC, Results, NoToken, Goto, Return
<1>0. TypeOK
  BY DEF IInv
<1>1. ASSUME NEW w \in Callers, Call(w) PROVE TypeOK'
  BY <1>0, <1>1 DEF Call
<1>2. ASSUME NEW w \in Callers, AcquireCached(w) PROVE TypeOK'
  BY <1>0, <1>2 DEF AcquireCached
<1>3. ASSUME NEW w \in Callers, AcquireEmpty(w) PROVE TypeOK'
  BY <1>0, <1>3 DEF AcquireEmpty
<1>4. ASSUME NEW w \in Callers, LoginAnswered(w) PROVE TypeOK'
  BY <1>0, <1>4 DEF LoginAnswered
<1>5. ASSUME NEW w \in Callers, LoginFailed(w) PROVE TypeOK'
  BY <1>0, <1>5 DEF LoginFailed
<1>6. ASSUME NEW w \in Callers, StoreToken(w) PROVE TypeOK'
  BY <1>0, <1>6 DEF StoreToken
<1>7. ASSUME NEW w \in Callers, Request(w) PROVE TypeOK'
  BY <1>0, <1>7 DEF Request, Answered, SendFailed, Rejected, RejectedAgain
<1>8. ASSUME NEW w \in Callers, Invalidate(w) PROVE TypeOK'
  <2>1. rejected[w] \in expired
    BY <1>8 DEF Invalidate, IInv, RetryIsFresh
  <2> QED
    BY <1>0, <1>8, <2>1 DEF Invalidate
<1>9. ASSUME NEW t \in 1..minted, Expire(t) PROVE TypeOK'
  BY <1>0, <1>9 DEF Expire
<1>10. CASE UNCHANGED vars
  BY <1>0, <1>10 DEF vars
<1> QED
  BY <1>1, <1>2, <1>3, <1>4, <1>5, <1>6, <1>7, <1>8, <1>9, <1>10
  DEF Next, Locking, Login

-----------------------------------------------------------------------------
(* The mutex invariants: one login at a time, into an empty cache, so that
   what is stored is the newest token. *)
LockInv ==
  LoginExclusive /\ LoginFillsEmptyCache /\ StoresNewest /\ CacheIsNewest

(* The lock and the token: one login at a time, and what it stores is the
   newest. *)
LEMMA LockStep ==
  ASSUME IInv, [Next]_vars
  PROVE  LockInv'
<1> USE DEF LockInv, LoginExclusive, LoginFillsEmptyCache, StoresNewest,
            CacheIsNewest, NoToken, Goto, Return
<1>0. TypeOK /\ LockInv
  BY DEF IInv
<1> USE <1>0, CallersAssumption DEF TypeOK, PC
<1>1. ASSUME NEW w \in Callers, Call(w) PROVE LockInv'
  BY <1>1 DEF Call
<1>2. ASSUME NEW w \in Callers, AcquireCached(w) PROVE LockInv'
  BY <1>2 DEF AcquireCached
<1>3. ASSUME NEW w \in Callers, AcquireEmpty(w) PROVE LockInv'
  BY <1>3 DEF AcquireEmpty
<1>4. ASSUME NEW w \in Callers, LoginAnswered(w) PROVE LockInv'
  BY <1>4 DEF LoginAnswered
<1>5. ASSUME NEW w \in Callers, LoginFailed(w) PROVE LockInv'
  BY <1>5 DEF LoginFailed
<1>6. ASSUME NEW w \in Callers, StoreToken(w) PROVE LockInv'
  BY <1>6 DEF StoreToken
<1>7. ASSUME NEW w \in Callers, Request(w) PROVE LockInv'
  BY <1>7 DEF Request, Answered, SendFailed, Rejected, RejectedAgain
<1>8. ASSUME NEW w \in Callers, Invalidate(w) PROVE LockInv'
  BY <1>8 DEF Invalidate
<1>9. ASSUME NEW t \in 1..minted, Expire(t) PROVE LockInv'
  BY <1>9 DEF Expire
<1>10. CASE UNCHANGED vars
  BY <1>10 DEF vars
<1> QED
  BY <1>1, <1>2, <1>3, <1>4, <1>5, <1>6, <1>7, <1>8, <1>9, <1>10
  DEF Next, Locking, Login

(* The retry: what a rejected caller carries or can be given is newer. *)
LEMMA RetryStep ==
  ASSUME IInv, [Next]_vars
  PROVE  RetryIsFresh' /\ TransparentExpiry'
<1> DEFINE Goal == RetryIsFresh /\ TransparentExpiry
<1> USE DEF RetryIsFresh, TransparentExpiry, FirstAttempt, NoToken, Goto,
            Return
<1>0. TypeOK /\ LockInv /\ Goal
  BY DEF IInv, LockInv
<1> USE <1>0, CallersAssumption DEF TypeOK, PC
<1>1. ASSUME NEW w \in Callers, Call(w) PROVE Goal'
  BY <1>1 DEF Call
<1>2. ASSUME NEW w \in Callers, AcquireCached(w) PROVE Goal'
  BY <1>2 DEF AcquireCached
<1>3. ASSUME NEW w \in Callers, AcquireEmpty(w) PROVE Goal'
  BY <1>3 DEF AcquireEmpty, LockInv, LoginExclusive
<1>4. ASSUME NEW w \in Callers, LoginAnswered(w) PROVE Goal'
  BY <1>4 DEF LoginAnswered, LockInv, LoginExclusive, LoginFillsEmptyCache
<1>5. ASSUME NEW w \in Callers, LoginFailed(w) PROVE Goal'
  BY <1>5 DEF LoginFailed
<1>6. ASSUME NEW w \in Callers, StoreToken(w) PROVE Goal'
  BY <1>6 DEF StoreToken
<1>7. ASSUME NEW w \in Callers, Request(w) PROVE Goal'
  BY <1>7 DEF Request, Answered, SendFailed, Rejected, RejectedAgain
<1>8. ASSUME NEW w \in Callers, Invalidate(w) PROVE Goal'
  BY <1>8 DEF Invalidate, LockInv, LoginExclusive
<1>9. ASSUME NEW t \in 1..minted, Expire(t) PROVE Goal'
  BY <1>9 DEF Expire
<1>10. CASE UNCHANGED vars
  BY <1>10 DEF vars
<1> QED
  BY <1>1, <1>2, <1>3, <1>4, <1>5, <1>6, <1>7, <1>8, <1>9, <1>10
  DEF Next, Locking, Login

(* No caller drops the same token twice. *)
LEMMA DropsOnceStep ==
  ASSUME IInv, [Next]_vars
  PROVE  DropsOnce'
<1> USE DEF DropsOnce, NoToken, Goto, Return
<1>0. TypeOK /\ LockInv /\ RetryIsFresh /\ DropsOnce
  BY DEF IInv, LockInv
<1> USE <1>0, CallersAssumption DEF TypeOK, PC
<1>1. ASSUME NEW w \in Callers, Call(w) PROVE DropsOnce'
  BY <1>1 DEF Call
<1>2. ASSUME NEW w \in Callers, AcquireCached(w) PROVE DropsOnce'
  BY <1>2 DEF AcquireCached
<1>3. ASSUME NEW w \in Callers, AcquireEmpty(w) PROVE DropsOnce'
  BY <1>3 DEF AcquireEmpty
<1>4. ASSUME NEW w \in Callers, LoginAnswered(w) PROVE DropsOnce'
  BY <1>4 DEF LoginAnswered, LockInv, LoginExclusive, LoginFillsEmptyCache
<1>5. ASSUME NEW w \in Callers, LoginFailed(w) PROVE DropsOnce'
  BY <1>5 DEF LoginFailed
<1>6. ASSUME NEW w \in Callers, StoreToken(w) PROVE DropsOnce'
  BY <1>6 DEF StoreToken
<1>7. ASSUME NEW w \in Callers, Request(w) PROVE DropsOnce'
  <2>1. /\ UNCHANGED <<token, tok, expired, drops>>
        /\ \/ pc' = [pc EXCEPT ![w] = "idle"]
           \/ pc[w] = "send" /\ pc' = [pc EXCEPT ![w] = "invalidate"]
    BY <1>7 DEF Request, Answered, SendFailed, Rejected, RejectedAgain
  <2> QED
    BY <2>1
<1>8. ASSUME NEW w \in Callers, Invalidate(w) PROVE DropsOnce'
  BY <1>8 DEF Invalidate, LockInv, LoginExclusive, RetryIsFresh
<1>9. ASSUME NEW t \in 1..minted, Expire(t) PROVE DropsOnce'
  BY <1>9 DEF Expire
<1>10. CASE UNCHANGED vars
  BY <1>10 DEF vars
<1> QED
  BY <1>1, <1>2, <1>3, <1>4, <1>5, <1>6, <1>7, <1>8, <1>9, <1>10
  DEF Next, Locking, Login

(* A rejected caller goes on only by way of invalidate. *)
LEMMA RejectedDroppedStep ==
  ASSUME IInv, [Next]_vars
  PROVE  RejectedDropped'
<1> USE DEF RejectedDropped, FirstAttempt, NoToken, Goto, Return
<1>0. TypeOK /\ RejectedDropped
  BY DEF IInv
<1> USE <1>0 DEF TypeOK, PC
<1>1. ASSUME NEW w \in Callers, Call(w) PROVE RejectedDropped'
  BY <1>1 DEF Call
<1>2. ASSUME NEW w \in Callers, Locking(w) PROVE RejectedDropped'
  BY <1>2 DEF Locking, AcquireCached, AcquireEmpty, Invalidate
<1>3. ASSUME NEW w \in Callers, Login(w) PROVE RejectedDropped'
  BY <1>3 DEF Login, LoginAnswered, LoginFailed
<1>4. ASSUME NEW w \in Callers, StoreToken(w) PROVE RejectedDropped'
  BY <1>4 DEF StoreToken
<1>5. ASSUME NEW w \in Callers, Request(w) PROVE RejectedDropped'
  BY <1>5 DEF Request, Answered, SendFailed, Rejected, RejectedAgain
<1>6. ASSUME NEW t \in 1..minted, Expire(t) PROVE RejectedDropped'
  BY <1>6 DEF Expire
<1>7. CASE UNCHANGED vars
  BY <1>7 DEF vars
<1> QED
  BY <1>1, <1>2, <1>3, <1>4, <1>5, <1>6, <1>7 DEF Next

(* Every login after the first is paid for by a new drop. *)
LEMMA LoginsPaidStep ==
  ASSUME IInv, [Next]_vars
  PROVE  LoginsPaid'
<1> USE DEF LoginsPaid, NoToken, Goto, Return
<1>0. TypeOK /\ LockInv /\ LoginsPaid
  BY DEF IInv, LockInv
<1> DEFINE n == Cardinality(drops)
<1>n. n \in Nat
  BY <1>0, DropsFinite
<1> USE <1>0, <1>n, CallersAssumption DEF TypeOK, PC
<1>1. ASSUME NEW w \in Callers, Call(w) PROVE LoginsPaid'
  BY <1>1 DEF Call
<1>2. ASSUME NEW w \in Callers, AcquireCached(w) PROVE LoginsPaid'
  BY <1>2 DEF AcquireCached
<1>3. ASSUME NEW w \in Callers, AcquireEmpty(w) PROVE LoginsPaid'
  BY <1>3 DEF AcquireEmpty
<1>4. ASSUME NEW w \in Callers, LoginAnswered(w) PROVE LoginsPaid'
  BY <1>4 DEF LoginAnswered, LockInv, LoginExclusive, LoginFillsEmptyCache
<1>5. ASSUME NEW w \in Callers, LoginFailed(w) PROVE LoginsPaid'
  BY <1>5 DEF LoginFailed
<1>6. ASSUME NEW w \in Callers, StoreToken(w) PROVE LoginsPaid'
  BY <1>6 DEF StoreToken, LockInv, StoresNewest
<1>7. ASSUME NEW w \in Callers, Request(w) PROVE LoginsPaid'
  BY <1>7 DEF Request, Answered, SendFailed, Rejected, RejectedAgain
<1>8. ASSUME NEW w \in Callers, Invalidate(w) PROVE LoginsPaid'
  <2>1. /\ rejected[w] \in expired
        /\ rejected[w] = tok[w]
    BY <1>8 DEF Invalidate, IInv, RetryIsFresh
  <2>2. <<w, rejected[w]>> \notin drops
    BY <1>8, <2>1 DEF Invalidate, IInv, DropsOnce
  <2>3. Cardinality(drops') = n + 1
    BY <1>8, <2>2, NewDrop DEF Invalidate
  <2> QED
    BY <1>8, <2>3 DEF Invalidate
<1>9. ASSUME NEW t \in 1..minted, Expire(t) PROVE LoginsPaid'
  BY <1>9 DEF Expire
<1>10. CASE UNCHANGED vars
  BY <1>10 DEF vars
<1> QED
  BY <1>1, <1>2, <1>3, <1>4, <1>5, <1>6, <1>7, <1>8, <1>9, <1>10
  DEF Next, Locking, Login

-----------------------------------------------------------------------------
(* The inductive invariant holds in every reachable state. *)
THEOREM Invariance == Spec => []IInv
<1>1. IInv /\ [Next]_vars => IInv'
  BY TypeOKStep, LockStep, RetryStep, DropsOnceStep,
     RejectedDroppedStep, LoginsPaidStep
  DEF IInv, LockInv
<1> QED
  BY InitIInv, <1>1, PTL DEF Spec

(* Type correctness: every token in play was issued by Strapi. *)
THEOREM TypeCorrect == Spec => []TypeOK
<1>1. IInv => TypeOK
  BY DEF IInv
<1> QED
  BY Invariance, <1>1, PTL

(* tokenLocked never lets an older token replace a newer one. *)
THEOREM CacheNewest == Spec => []CacheIsNewest
<1>1. IInv => CacheIsNewest
  BY DEF IInv
<1> QED
  BY Invariance, <1>1, PTL

(* Do hands out a 401 only when both of its tokens died under it. *)
THEOREM ExpiryTransparent == Spec => []TransparentExpiry
<1>1. IInv => TransparentExpiry
  BY DEF IInv
<1> QED
  BY Invariance, <1>1, PTL

(* One login in steady state, at most one more per worker and expired
   token. *)
THEOREM LoginsAreBounded == Spec => []LoginsBounded
<1>1. ASSUME IInv PROVE LoginsBounded
  <2>1. TypeOK
    BY <1>1 DEF IInv
  <2>2. minted <= Cardinality(drops) + 1
    BY <1>1 DEF IInv, LoginsPaid
  <2>3. Cardinality(Callers) * Cardinality(expired) \in Nat
    BY <2>1, DropsFinite, FS_CardinalityType, CallersAssumption
  <2> QED
    BY <2>1, <2>2, <2>3, DropsFinite DEF LoginsBounded, TypeOK
<1> QED
  BY Invariance, <1>1, PTL

-----------------------------------------------------------------------------
(* The refinement.  Most steps are hidden; the others map to one action of the
   contract, whose guard follows from the invariant. *)
Asking == {w \in Callers : pc[w] # "idle"}

(* No call is under way at first. *)
LEMMA InitContract == Init => Contract!Init
BY DEF Init, Contract!Init

(* A step that ends the call of w, and nothing else, is a Return. *)
LEMMA ReturnContract ==
  ASSUME TypeOK, NEW w \in Callers, NEW r, pc[w] # "idle", Return(w, r),
         r \in {"answered", "error", "unauthorized"}, Contract!Justified(w, r),
         UNCHANGED <<drops, minted, expired>>
  PROVE  Contract!Next
<1>1. w \in Asking /\ Asking' = Asking \ {w}
  BY DEF Asking, Return, Goto, TypeOK
<1>2. Contract!Return(w, r)
  BY <1>1 DEF Contract!Return, Asking, Return
<1> QED
  BY <1>2 DEF Contract!Next

(* A step that ends no call and starts none leaves Asking alone. *)
LEMMA AskingStays ==
  ASSUME TypeOK, NEW w \in Callers, NEW l, l # "idle", pc[w] # "idle",
         Goto(w, l)
  PROVE  Asking' = Asking
BY DEF Asking, Goto, TypeOK

(* Every step of a worker or of Strapi is a step of the contract, or none. *)
LEMMA StepContract ==
  ASSUME IInv, [Next]_vars
  PROVE  [Contract!Next]_(Contract!callVars)
<1>0. TypeOK
  BY DEF IInv
<1> DEFINE Goal == [Contract!Next]_(Contract!callVars)
<1>1. ASSUME NEW w \in Callers, Call(w) PROVE Goal
  <2>1. w \notin Asking /\ Asking' = Asking \cup {w}
    BY <1>0, <1>1 DEF Asking, Call, Goto, TypeOK
  <2>2. Contract!Ask(w)
    BY <1>1, <2>1 DEF Contract!Ask, Asking, Call
  <2> QED
    BY <2>2 DEF Contract!Next
<1>2. ASSUME NEW w \in Callers, AcquireCached(w) \/ AcquireEmpty(w) \/ StoreToken(w)
      PROVE Goal
  <2>1. Asking' = Asking
    BY <1>0, <1>2, AskingStays DEF AcquireCached, AcquireEmpty, StoreToken
  <2> QED
    BY <1>2, <2>1
    DEF Contract!callVars, Asking, AcquireCached, AcquireEmpty, StoreToken
<1>3. ASSUME NEW w \in Callers, LoginAnswered(w) PROVE Goal
  <2>1. Asking' = Asking /\ w \in Asking
    BY <1>0, <1>3, AskingStays DEF LoginAnswered, Asking
  <2>2. minted <= Cardinality(drops)
    <3>1. mu = w /\ \A v \in Callers : pc[v] # "store"
      BY <1>3 DEF LoginAnswered, IInv, LoginExclusive
    <3>2. token = NoToken
      BY <3>1, CallersAssumption DEF IInv, LoginFillsEmptyCache
    <3> QED
      BY <3>1, <3>2 DEF IInv, LoginsPaid
  <2>3. Contract!Cardinality(drops) = Cardinality(drops)
    BY DEF Contract!Cardinality, Cardinality
  <2>4. Contract!Mint
    BY <1>3, <2>1, <2>2, <2>3 DEF Contract!Mint, Asking, LoginAnswered
  <2> QED
    BY <2>4 DEF Contract!Next
<1>4. ASSUME NEW w \in Callers, LoginFailed(w) \/ SendFailed(w) PROVE Goal
  <2>1. Contract!Justified(w, "error")
    BY DEF Contract!Justified
  <2> QED
    BY <1>0, <1>4, <2>1, ReturnContract DEF LoginFailed, SendFailed
<1>5. ASSUME NEW w \in Callers, Answered(w) PROVE Goal
  <2>1. tok[w] \in 1..minted \ expired
    BY <1>0, <1>5 DEF Answered, IInv, RetryIsFresh, TypeOK
  <2>2. Contract!Justified(w, "answered")
    BY <2>1 DEF Contract!Justified
  <2> QED
    BY <1>0, <1>5, <2>2, ReturnContract DEF Answered
<1>6. ASSUME NEW w \in Callers, RejectedAgain(w) PROVE Goal
  <2>1. /\ rejected[w] \in expired /\ tok[w] \in expired
        /\ rejected[w] < tok[w]
    BY <1>6 DEF RejectedAgain, IInv, RetryIsFresh
  <2>2. <<w, rejected[w]>> \in drops
    BY <1>6 DEF RejectedAgain, IInv, RejectedDropped
  <2>3. Contract!Justified(w, "unauthorized")
    BY <2>1, <2>2 DEF Contract!Justified
  <2> QED
    BY <1>0, <1>6, <2>3, ReturnContract DEF RejectedAgain
<1>7. ASSUME NEW w \in Callers, Rejected(w) PROVE Goal
  <2>1. Asking' = Asking
    BY <1>0, <1>7, AskingStays DEF Rejected
  <2> QED
    BY <1>7, <2>1 DEF Contract!callVars, Asking, Rejected
<1>8. ASSUME NEW w \in Callers, Invalidate(w) PROVE Goal
  <2>1. Asking' = Asking /\ w \in Asking
    BY <1>0, <1>8, AskingStays DEF Invalidate, Asking
  <2>2. rejected[w] \in expired /\ rejected[w] = tok[w]
    BY <1>8 DEF Invalidate, IInv, RetryIsFresh
  <2>3. <<w, rejected[w]>> \notin drops
    BY <1>0, <1>8, <2>2 DEF Invalidate, IInv, DropsOnce, TypeOK
  <2>4. Contract!Refuse(w, rejected[w])
    BY <1>8, <2>1, <2>2, <2>3 DEF Contract!Refuse, Asking, Invalidate
  <2> QED
    BY <2>2, <2>4 DEF Contract!Next
<1>9. ASSUME NEW t \in 1..minted, Expire(t) PROVE Goal
  <2>1. Contract!Expire(t)
    BY <1>9 DEF Contract!Expire, Expire
  <2> QED
    BY <2>1 DEF Contract!Next
<1>10. CASE UNCHANGED vars
  BY <1>10 DEF vars, Contract!callVars
<1> QED
  BY <1>1, <1>2, <1>3, <1>4, <1>5, <1>6, <1>7, <1>8, <1>9, <1>10
  DEF Next, Locking, Login, Request

(* The session of any number of workers implements the contract of Do. *)
THEOREM ContractKept == Spec => KeepsContract
<1> QED
  BY Invariance, InitContract, StepContract, PTL
  DEF Spec, KeepsContract, Contract!Spec
=============================================================================
