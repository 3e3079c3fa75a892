------------------------- MODULE AuthenticatedCalls -------------------------
(***************************************************************************)
(* What Client.Do of internal/clients/strapi/strapi.go promises those who  *)
(* call it at the same time, without its lock, its cache and its attempts: *)
(* a call ends with an answer, an error or a 401, it may meet a refusal by *)
(* Strapi of a token that has expired, and each login after the first is   *)
(* paid for by a refusal that has not happened before.                     *)
(***************************************************************************)
EXTENDS Naturals, FiniteSets

CONSTANT Callers

VARIABLES
  asking,    \* the callers with a Do in progress
  result,    \* what each caller's last Do returned
  refused,   \* the pairs <<w, t>>: w was refused token t, and noticed
  minted,    \* Strapi: number of tokens issued so far
  expired    \* Strapi: tokens that are no longer accepted

callVars == <<asking, result, refused, minted, expired>>

Init ==
  /\ asking = {}
  /\ result = [w \in Callers |-> "none"]
  /\ refused = {}
  /\ minted = 0
  /\ expired = {}

Ask(w) ==
  /\ w \notin asking
  /\ asking' = asking \cup {w}
  /\ result' = [result EXCEPT ![w] = "none"]
  /\ UNCHANGED <<refused, minted, expired>>

(* Nobody is refused the same token twice. *)
Refuse(w, t) ==
  /\ w \in asking
  /\ t \in expired
  /\ <<w, t>> \notin refused
  /\ refused' = refused \cup {<<w, t>>}
  /\ UNCHANGED <<asking, result, minted, expired>>

(* There are never more tokens than refusals and one. *)
Mint ==
  /\ asking # {}
  /\ minted <= Cardinality(refused)
  /\ minted' = minted + 1
  /\ UNCHANGED <<asking, result, refused, expired>>

(* An answer takes a token that is still good, and a 401 a second token that
   expired, after one that w was refused. *)
Justified(w, r) ==
  \/ r = "answered" /\ 1..minted \ expired # {}
  \/ r = "error"
  \/ r = "unauthorized" /\ \E t, u \in expired : t < u /\ <<w, t>> \in refused

Return(w, r) ==
  /\ w \in asking
  /\ Justified(w, r)
  /\ asking' = asking \ {w}
  /\ result' = [result EXCEPT ![w] = r]
  /\ UNCHANGED <<refused, minted, expired>>

Expire(t) ==
  /\ t \in 1..minted \ expired
  /\ expired' = expired \cup {t}
  /\ UNCHANGED <<asking, result, refused, minted>>

Next ==
  \/ \E w \in Callers :
       \/ Ask(w)
       \/ \E t \in expired : Refuse(w, t)
       \/ \E r \in {"answered", "error", "unauthorized"} : Return(w, r)
  \/ Mint
  \/ \E t \in 1..minted : Expire(t)

Spec == Init /\ [][Next]_callVars
=============================================================================
