----------------------------- MODULE MCStorage -----------------------------
(* Instances of Storage: two requests of one client, in one worker. The rules  *)
(* that match the first set a counter to a negative number, expire and delete  *)
(* it; those that match the second count.                                     *)
EXTENDS Storage, TLC

CONSTANTS q1, q2, ip, k1, k2

MCMacroKey == q1 :> k1 @@ q2 :> k2

Do(action, col, key, n) == [action |-> action, col |-> col, key |-> key, n |-> n]

MCActions ==
    q1 :> {Do("setvar", ip, k1, -1), Do("expirevar", ip, k1, 0), Do("deletevar", ip, k1, 0),
           Do("setvar", "TX", k2, 1)}
    @@ q2 :> {Do("incvar", ip, k1, 1), Do("incvar", ip, k2, 1), Do("setmacro", ip, k2, 1)}

MCMaxHandlers == q1 :> 2 @@ q2 :> 1
MCMaxActions  == q1 :> 3 @@ q2 :> 2

MacroActions == [r \in Requests |-> {Do("setmacro", ip, k1, 1)}]
=============================================================================
