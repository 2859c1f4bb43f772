------------------------------ MODULE TokenMap ------------------------------
(***************************************************************************)
(* What the processing unit expects of the table of withheld tokens        *)
(* (processing_unit.c, trap mode): a map in which a token is put under a   *)
(* key, in place of any other, and from which it is taken out once.        *)
(***************************************************************************)

CONSTANTS Keys, Tokens, NoKey, NoToken

VARIABLES map,     \* the withheld tokens by key
          call,    \* what kh_put has been called with
          result   \* what the last look-up has found

vars == <<map, call, result>>

Nothing == [key |-> NoKey, val |-> NoToken]

Init == map = <<>> /\ call = Nothing /\ result = NoToken

CallPut(key, token) ==
    /\ call = Nothing
    /\ call' = [key |-> key, val |-> token]
    /\ UNCHANGED <<map, result>>

\* kh_put returns and its caller has assigned the token to kh_value.
Put ==
    /\ call # Nothing
    /\ call' = Nothing
    /\ map' = [k \in DOMAIN map \cup {call.key} |-> IF k = call.key THEN call.val ELSE map[k]]
    /\ UNCHANGED result

\* kh_get, kh_value and kh_del.
TakeOut(key) ==
    /\ call = Nothing
    /\ result' = IF key \in DOMAIN map THEN map[key] ELSE NoToken
    /\ map' = [k \in DOMAIN map \ {key} |-> map[k]]
    /\ UNCHANGED call

Next ==
    \/ Put
    \/ \E key \in Keys : TakeOut(key) \/ \E token \in Tokens : CallPut(key, token)

Spec == Init /\ [][Next]_vars
=============================================================================
