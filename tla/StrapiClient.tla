---------------------------- MODULE StrapiClient ----------------------------
(***************************************************************************)
(* The authenticated client of internal/clients/strapi/strapi.go.          *)
(*                                                                         *)
(* One Client value is shared by every reconcile worker that uses the same *)
(* credentials.  Each worker calls Do, which attaches the cached admin JWT *)
(* (logging in first when there is none) and, when Strapi answers 401,     *)
(* drops the cached JWT and sends the request once more.  The mutex mu     *)
(* guards the cached token and is held for the whole of a login.           *)
(*                                                                         *)
(* Tokens are numbered in the order Strapi issues them; 0 stands for the   *)
(* empty string, i.e. for "no token".  Request and response bodies are     *)
(* abstracted away.                                                        *)
(***************************************************************************)
EXTENDS Naturals, FiniteSets

CONSTANTS
  Callers,     \* the goroutines that may be inside Do at the same time
  NoCaller,    \* the value of mu when it is unlocked
  MaxExpired   \* bound: how many tokens Strapi rejects in a behaviour

ASSUME CallersAssumption == IsFiniteSet(Callers) /\ NoCaller \notin Callers
ASSUME MaxExpiredAssumption == MaxExpired \in Nat

VARIABLES
  mu,        \* the holder of Client.mu
  token,     \* Client.token
  pc,        \* where each caller is inside Do
  tok,       \* the token local to do: the one this attempt carries
  rejected,  \* the token of the first attempt once Strapi answered it 401
  result,    \* what the caller's last Do returned
  minted,    \* Strapi: number of tokens issued so far
  expired,   \* Strapi: tokens that are no longer accepted
  drops      \* history: the pairs <<w, t>> where w ran invalidate because of t

vars == <<mu, token, pc, tok, rejected, result, minted, expired, drops>>

NoToken == 0

PC == {"idle", "acquire", "login", "store", "send", "invalidate"}

Results == {"none", "answered", "error", "unauthorized"}

(***************************************************************************)
(* Types.  A caller's locals range over the tokens issued so far.          *)
(***************************************************************************)
TypeOK ==
  /\ mu \in Callers \cup {NoCaller}
  /\ minted \in Nat
  /\ token \in 0..minted
  /\ pc \in [Callers -> PC]
  /\ tok \in [Callers -> 0..minted]
  /\ rejected \in [Callers -> 0..minted]
  /\ result \in [Callers -> Results]
  /\ expired \subseteq 1..minted
  /\ drops \subseteq Callers \X expired

(* New does not log in: the token is fetched lazily on the first request. *)
Init ==
  /\ mu = NoCaller
  /\ token = NoToken
  /\ pc = [w \in Callers |-> "idle"]
  /\ tok = [w \in Callers |-> NoToken]
  /\ rejected = [w \in Callers |-> NoToken]
  /\ result = [w \in Callers |-> "none"]
  /\ minted = 0
  /\ expired = {}
  /\ drops = {}

Goto(w, l) == pc' = [pc EXCEPT ![w] = l]

(* The attempt w is in: do runs a second time only after a 401. *)
FirstAttempt(w) == rejected[w] = NoToken

-----------------------------------------------------------------------------
(***************************************************************************)
(* Do, tokenLocked, login, invalidate.                                     *)
(***************************************************************************)

Return(w, r) ==
  /\ Goto(w, "idle")
  /\ result' = [result EXCEPT ![w] = r]

Call(w) ==
  /\ pc[w] = "idle"
  /\ Goto(w, "acquire")
  /\ tok' = [tok EXCEPT ![w] = NoToken]
  /\ rejected' = [rejected EXCEPT ![w] = NoToken]
  /\ result' = [result EXCEPT ![w] = "none"]
  /\ UNCHANGED <<mu, token, minted, expired, drops>>

(* tokenLocked finds a cached token: lock, read and unlock in one step. *)
AcquireCached(w) ==
  /\ pc[w] = "acquire"
  /\ mu = NoCaller
  /\ token # NoToken
  /\ tok' = [tok EXCEPT ![w] = token]
  /\ Goto(w, "send")
  /\ UNCHANGED <<mu, token, rejected, result, minted, expired, drops>>

(* Mutant of AcquireEmpty: logs in without holding the lock. *)
AcquireEmptyUnlocked(w) ==
  /\ pc[w] = "acquire"
  /\ mu = NoCaller
  /\ token = NoToken
  /\ Goto(w, "login")
  /\ UNCHANGED <<mu, token, tok, rejected, result, minted, expired, drops>>

(* tokenLocked finds none: the lock is kept while login is in flight. *)
AcquireEmpty(w) ==
  /\ pc[w] = "acquire"
  /\ mu = NoCaller
  /\ token = NoToken
  /\ mu' = w
  /\ Goto(w, "login")
  /\ UNCHANGED <<token, tok, rejected, result, minted, expired, drops>>

LoginAnswered(w) ==
  /\ pc[w] = "login"
  /\ minted' = minted + 1
  /\ tok' = [tok EXCEPT ![w] = minted + 1]
  /\ Goto(w, "store")
  /\ UNCHANGED <<mu, token, rejected, result, expired, drops>>

(* Mutant of LoginFailed: the error path forgets to unlock. *)
LoginFailedLocked(w) ==
  /\ pc[w] = "login"
  /\ Return(w, "error")
  /\ UNCHANGED <<mu, token, tok, rejected, minted, expired, drops>>

(* Transport error, 30 s timeout, a status other than 200, a body without a
   token: the deferred Unlock runs and Do returns the error. *)
LoginFailed(w) ==
  /\ pc[w] = "login"
  /\ mu' = NoCaller
  /\ Return(w, "error")
  /\ UNCHANGED <<token, tok, rejected, minted, expired, drops>>

StoreToken(w) ==
  /\ pc[w] = "store"
  /\ token' = tok[w]
  /\ mu' = NoCaller
  /\ Goto(w, "send")
  /\ UNCHANGED <<tok, rejected, result, minted, expired, drops>>

(* Any status but 401 goes to the caller of Do as it is. *)
Answered(w) ==
  /\ pc[w] = "send"
  /\ tok[w] \notin expired
  /\ Return(w, "answered")
  /\ UNCHANGED <<mu, token, tok, rejected, minted, expired, drops>>

(* Transport error or 30 s timeout, on either attempt: no retry. *)
SendFailed(w) ==
  /\ pc[w] = "send"
  /\ Return(w, "error")
  /\ UNCHANGED <<mu, token, tok, rejected, minted, expired, drops>>

(* Mutant of Rejected: every answer to the first attempt counts as a 401. *)
RejectedWhateverStatus(w) ==
  /\ pc[w] = "send"
  /\ FirstAttempt(w)
  /\ rejected' = [rejected EXCEPT ![w] = tok[w]]
  /\ Goto(w, "invalidate")
  /\ UNCHANGED <<mu, token, tok, result, minted, expired, drops>>

(* 401 on the first attempt. *)
Rejected(w) ==
  /\ pc[w] = "send"
  /\ tok[w] \in expired
  /\ FirstAttempt(w)
  /\ rejected' = [rejected EXCEPT ![w] = tok[w]]
  /\ Goto(w, "invalidate")
  /\ UNCHANGED <<mu, token, tok, result, minted, expired, drops>>

(* 401 on the retry: it is handed to the caller like any other status. *)
RejectedAgain(w) ==
  /\ pc[w] = "send"
  /\ tok[w] \in expired
  /\ ~FirstAttempt(w)
  /\ Return(w, "unauthorized")
  /\ UNCHANGED <<mu, token, tok, rejected, minted, expired, drops>>

(* Mutant of Invalidate: the retry starts without dropping the token. *)
InvalidateNothing(w) ==
  /\ pc[w] = "invalidate"
  /\ mu = NoCaller
  /\ drops' = drops \cup {<<w, rejected[w]>>}
  /\ Goto(w, "acquire")
  /\ UNCHANGED <<mu, token, tok, rejected, result, minted, expired>>

(* invalidate clears whatever token is cached by now, which need not be the
   one that was rejected. *)
Invalidate(w) ==
  /\ pc[w] = "invalidate"
  /\ mu = NoCaller
  /\ token' = NoToken
  /\ drops' = drops \cup {<<w, rejected[w]>>}
  /\ Goto(w, "acquire")
  /\ UNCHANGED <<mu, tok, rejected, result, minted, expired>>

(* Strapi stops accepting a token: its lifetime ended, its session was
   revoked or the server's secret was rotated. *)
Expire(t) ==
  /\ t \in 1..minted \ expired
  /\ Cardinality(expired) < MaxExpired
  /\ expired' = expired \cup {t}
  /\ UNCHANGED <<mu, token, pc, tok, rejected, result, minted, drops>>

Locking(w) == AcquireCached(w) \/ AcquireEmpty(w) \/ Invalidate(w)

Login(w) == LoginAnswered(w) \/ LoginFailed(w)

Request(w) ==
  Answered(w) \/ SendFailed(w) \/ Rejected(w) \/ RejectedAgain(w)

Next ==
  \/ \E w \in Callers :
       Call(w) \/ Locking(w) \/ Login(w) \/ StoreToken(w) \/ Request(w)
  \/ \E t \in 1..minted : Expire(t)

Spec == Init /\ [][Next]_vars

(***************************************************************************)
(* Fairness.  Every HTTP exchange ends, by an answer or by the client's    *)
(* 30 s timeout: weak fairness of Login and Request.  Go's sync.Mutex      *)
(* hands the lock to a waiter that has starved for 1 ms, so a goroutine    *)
(* that keeps waiting gets it although others take it in between: strong   *)
(* fairness of Locking.  Nobody is obliged to call Do, and no token is     *)
(* obliged to expire.                                                      *)
(***************************************************************************)
Fairness ==
  \A w \in Callers :
    /\ SF_vars(Locking(w))
    /\ WF_vars(Login(w))
    /\ WF_vars(StoreToken(w))
    /\ WF_vars(Request(w))

FairSpec == Spec /\ Fairness

-----------------------------------------------------------------------------
(***************************************************************************)
(* Properties.                                                             *)
(***************************************************************************)

(* The cached token is always the last one Strapi issued: concurrent logins
   and late stores never put an older token back (tokenLocked holds mu for
   the whole of a login). *)
CacheIsNewest == token # NoToken => token = minted

(* A single expiry is invisible to the callers of Do: a call returns 401 only
   if two different tokens died under it, one per attempt.  In particular the
   retry never resends the token that was just rejected. *)
TransparentExpiry ==
  \A w \in Callers : result[w] = "unauthorized" =>
    /\ rejected[w] \in expired
    /\ tok[w] \in expired
    /\ tok[w] # rejected[w]

(* "One login per provider lifetime under steady state" (cache.go), made
   precise.  With no expiry there is one login however many workers start at
   once; and although invalidate may throw away a good token, one expired
   token costs at most one extra login per worker. *)
LoginsBounded ==
  minted <= 1 + Cardinality(Callers) * Cardinality(expired)

(* Every Do returns, although callers queue behind a login in flight, logins
   fail and tokens are dropped by others while a caller waits. *)
DoReturns == \A w \in Callers : pc[w] # "idle" ~> pc[w] = "idle"

(***************************************************************************)
(* The inductive invariant behind the safety properties.                   *)
(***************************************************************************)

(* mu is held exactly by the caller that is logging in, and the cache is
   empty while it does. *)
LoginExclusive ==
  \A w \in Callers : pc[w] \in {"login", "store"} <=> mu = w

LoginFillsEmptyCache == mu # NoCaller => token = NoToken

StoresNewest == \A w \in Callers : pc[w] = "store" => tok[w] = minted

(* A rejected caller still has to invalidate, or carries a token issued after
   the rejected one, or can only be given such a token. *)
RetryIsFresh ==
  \A w \in Callers :
    /\ pc[w] # "idle" => result[w] = "none"
    /\ pc[w] = "invalidate" => tok[w] = rejected[w]
    /\ pc[w] = "invalidate" => ~FirstAttempt(w)
    /\ ~FirstAttempt(w) => rejected[w] \in expired
    /\ pc[w] = "send" => rejected[w] < tok[w]
    /\ pc[w] \in {"acquire", "login", "store"} =>
         /\ token # NoToken => rejected[w] < token
         /\ \A v \in Callers : pc[v] = "store" => rejected[w] < tok[v]

(* Nobody carries, or can be given, a token it has already dropped. *)
DropsOnce ==
  \A w \in Callers, t \in expired : <<w, t>> \in drops =>
    /\ token # NoToken => t < token
    /\ \A v \in Callers : pc[v] = "store" => t < tok[v]
    /\ pc[w] \in {"send", "invalidate"} => t < tok[w]

(* What a retry was refused before is on record. *)
RejectedDropped ==
  \A w \in Callers :
    ~FirstAttempt(w) /\ pc[w] \in {"acquire", "login", "store", "send"} =>
      <<w, rejected[w]>> \in drops

(* Each token but the first replaces one that was dropped: while there is no
   token, cached or about to be stored, a login is due. *)
LoginsPaid ==
  /\ minted <= Cardinality(drops) + 1
  /\ token = NoToken /\ (\A w \in Callers : pc[w] # "store")
       => minted <= Cardinality(drops)

IInv ==
  /\ TypeOK
  /\ LoginExclusive
  /\ LoginFillsEmptyCache
  /\ StoresNewest
  /\ CacheIsNewest
  /\ RetryIsFresh
  /\ DropsOnce
  /\ RejectedDropped
  /\ LoginsPaid
  /\ TransparentExpiry

(***************************************************************************)
(* Do keeps its contract: lock, cached token and attempts are hidden.      *)
(***************************************************************************)
Contract == INSTANCE AuthenticatedCalls
  WITH asking <- {w \in Callers : pc[w] # "idle"}, refused <- drops

(* Seen from outside, every step of the session is a step of the contract or
   nothing: whatever the workers do in between, no login is unpaid for, nobody
   runs into one dead token twice, and a 401 means that two tokens died. *)
KeepsContract == Contract!Spec
=============================================================================
