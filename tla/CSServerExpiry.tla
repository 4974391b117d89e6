--------------------------- MODULE CSServerExpiry ----------------------------
(***************************************************************************)
(* CSServer with the age of the results.  A result older than              *)
(* result_lifetime_sec_ is expired; CalcManager::cleanup_results removes    *)
(* those, and nothing calls it.                                            *)
(***************************************************************************)
EXTENDS CSServer

VARIABLE expired   \* the ids whose result is older than result_lifetime_sec_

expiryVars == <<vars, expired>>

\* What cleanup_results leaves of the results r when those in old are expired.
cleanup_results(r, old) ==
  IF size(r) >= MaxResults
    THEN [k \in Key |-> IF k \in old THEN NoEntry ELSE r[k]]
    ELSE r

\* Result::elapsed_time reaches result_lifetime_sec_.  Bound: not while a query
\* is being tested, so that what is expired then was so before the query came.
Expire(id) ==
  /\ \A h \in Handler : hpc[h] \notin {"checkQ", "checkR"}
  /\ id \in Keys(rque) \ expired
  /\ expired' = expired \cup {id}
  /\ UNCHANGED vars

\* A step of the server.  A result that replaces an expired one is new.
Serve ==
  /\ Next
  /\ expired' = {id \in expired : rque'[id] = rque[id]}

ExpiryInit == Init /\ expired = {}

ExpirySpec == ExpiryInit /\ [][Serve \/ \E id \in Key : Expire(id)]_expiryVars

\* Documented order (doc/spec-ja/source/03_system_detail.md:351): when the
\* results are at their limit the expired ones are removed, and only then is a
\* query refused for their number.
ExpiredMakeRoom ==
  [][\A h \in Handler :
       hpc[h] = "checkR" /\ hpc'[h] = "free"
         => size(cleanup_results(rque, expired)) >= MaxResults]_expiryVars
=============================================================================
