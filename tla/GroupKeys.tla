----------------------------- MODULE GroupKeys -----------------------------
(***************************************************************************)
(* The parts that keep a group's traffic secured, each from the states it  *)
(* can start in: the replay window on its own, registration with the key   *)
(* server, the keepers of a publisher and a subscriber over a rotation,    *)
(* and the session between the two while their keys change.                *)
(***************************************************************************)
EXTENDS RSession, Gdoi

VARIABLE part       \* which of them this behaviour is about

vars == <<part, windowVars, keyVars, sessVars, gdoiVars>>

(***************************************************************************)
(* Both members have registered with a group that lists its current key,   *)
(* which has `life' ticks left (0: all), and the next one, which the       *)
(* publisher's clock reaches first: delays travel rounded up to a second.  *)
(***************************************************************************)
KeysShared(life) ==
    LET ends == IF life = 0 THEN Never ELSE life
        now  == [act |-> 0, exp |-> ends, added |-> TRUE, active |-> TRUE, gen |-> 1,
                 egen |-> IF life = 0 THEN 0 ELSE 1]
        next == [act |-> 1, exp |-> Never, added |-> FALSE, active |-> FALSE, gen |-> 1, egen |-> 0]
        at   == [p \in Peer |-> IF p = Pub THEN 1 ELSE 2]
    IN  /\ kclock = 0 /\ nrot = 0
        /\ group = [s \in {1, 2} |-> [act |-> s - 1, exp |-> IF s = 1 THEN ends ELSE Never]]
        /\ pulled = [p \in Peer |-> NoPull]
        /\ keys = [p \in Peer |-> [s \in {1, 2} |-> IF s = 1 THEN now ELSE [next EXCEPT !.act = at[p]]]]
        /\ tasks = [p \in Peer |-> {activation(2, at[p], 1)}
                                      \cup {t \in {expiry(1, life, 1)} : life # 0}]
        /\ kstore = [p \in Peer |-> [ids |-> {1}, active |-> 1]]
        /\ nreg \in [Peer -> 1..MaxReg]
        /\ view = [p \in Peer |-> {1, 2}]
        /\ used = {1, 2}

(***************************************************************************)
(* Who still registers: as an expiring key is rotated, each member once or *)
(* the publisher twice; the publisher alone where withdrawn keys come      *)
(* back; nobody in the session.  One that does not has used up its         *)
(* registrations.                                                          *)
(***************************************************************************)
Registers(p, left) == nreg[p] = MaxReg - left

Init ==
    /\ part \in {"window", "keys", "session", "registration"}
    /\ WindowInit /\ (part # "window" => size = 1)
    /\ CASE part = "session" -> KeysShared(0) /\ reissued = FALSE /\ \A p \in Peer : Registers(p, 0)
         [] part = "keys" ->
              \/ reissued = FALSE /\ KeysInit /\ group[1].exp # Never
                  /\ \E k \in 0..1 : Registers(Sub, k) /\ Registers(Pub, 2 - k)
              \/ reissued = TRUE /\ KeysShared(Sec) /\ Registers(Pub, 2) /\ Registers(Sub, 0)
         [] OTHER -> reissued = FALSE /\ KeysInit /\ group[1].exp = Never /\ \A p \in Peer : Registers(p, 0)
    /\ SessInit /\ (part # "session" => policy = [secured |-> TRUE, allow_unsecured |-> FALSE, width |-> 1])
    /\ GdoiInit
    /\ part # "registration" =>
         teks = MaxTeks /\ \A m \in Member : terms[m] = "ok" /\ mbr[m].try = MaxTry

Next ==
    \/ part = "window" /\ WindowNext /\ UNCHANGED <<part, keyVars, sessVars, gdoiVars>>
    \/ part = "keys" /\ KeysNext /\ UNCHANGED <<part, windowVars, sessVars, gdoiVars>>
    \/ part = "session" /\ KeeperNext /\ UNCHANGED <<part, windowVars, sessVars, gdoiVars>>
    \/ part = "session" /\ SessNext /\ UNCHANGED <<part, windowVars, keyVars, gdoiVars>>
    \/ part = "registration" /\ GdoiNext /\ UNCHANGED <<part, windowVars, keyVars, sessVars>>

Spec == Init /\ [][Next]_vars

TypeOK == WindowTypeOK /\ KeysTypeOK /\ SessTypeOK /\ GdoiTypeOK

=============================================================================
