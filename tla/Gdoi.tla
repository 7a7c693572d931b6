-------------------------------- MODULE Gdoi --------------------------------
(***************************************************************************)
(* Registration with a key server (gdoi/member.rs, gdoi/server.rs): IKE    *)
(* main mode in three round trips, then GROUPKEY-PULL in two, over UDP.    *)
(* The member repeats a request until a reply its step accepts arrives or  *)
(* its attempts are used up; the server keeps a responder per initiator    *)
(* cookie and answers a repeated request with the reply it gave.           *)
(*                                                                         *)
(* A datagram is a record of what its receiver can tell: the exchange, the *)
(* cookies, the message ID, whether it is encrypted, and its place in the  *)
(* exchange.  Encrypted messages are chained by their initialisation       *)
(* vectors: one out of its place decrypts to garbage and fails its hash.   *)
(***************************************************************************)
EXTENDS Integers, FiniteSets, Sequences, Bags

CONSTANTS
    Member,         \* members of the group
    Attempts,       \* MemberConfig::attempts of each member
    Standing,       \* what the server may make of each member
    MaxTry,         \* bound: registrations of one member
    MaxPeers,       \* MAX_PEERS of the server
    MaxRc,          \* bound: responders the server creates
    MaxTeks         \* bound: changes of the group's keys

ASSUME GdoiAssumption ==
    /\ Attempts \in [Member -> Nat \ {0}] /\ MaxTry \in Nat /\ MaxPeers \in Nat \ {0}
    /\ MaxRc \in Nat /\ MaxTeks \in Nat

VARIABLES
    terms,          \* what the server makes of each member: "ok", "proposal", "psk", "group"
    mbr,            \* per member, its initiator
    peers,          \* the server's responders by initiator cookie: a partial function
    touched,        \* their cookies, the least recently active first
    nrc,            \* responder cookies given out
    wire,           \* the datagrams under way: a bag
    teks,           \* the group's current TEKs, as the number of its last change
    registered      \* observation: on_register calls, [ic, teks]

gdoiVars == <<terms, mbr, peers, touched, nrc, wire, teks, registered>>

-----------------------------------------------------------------------------
(***************************************************************************)
(* Messages.  `step' is the place in the exchange; body carries the TEKs   *)
(* of a policy or a key download, or the type of a notification.           *)
(***************************************************************************)
Msg(to, x, ic, rc, enc, step, body) ==
    [to |-> to, x |-> x, ic |-> ic, rc |-> rc, enc |-> enc, step |-> step, body |-> body]

request(m) ==
    LET r == mbr[m]
    IN  CASE r.stage = "sa"    -> Msg("server", "main", r.ic, 0, FALSE, "sa", 0)
          [] r.stage = "ke"    -> Msg("server", "main", r.ic, r.rc, FALSE, "ke", 0)
          [] r.stage = "auth"  -> Msg("server", "main", r.ic, r.rc, TRUE, "auth", 0)
          [] r.stage = "pull"  -> Msg("server", "pull", r.ic, r.rc, TRUE, "pull", 0)
          [] r.stage = "proof" -> Msg("server", "pull", r.ic, r.rc, TRUE, "proof", 0)

reply(ic, r, x, enc, step, body) == Msg(ic[1], x, ic, r.rc, enc, step, body)

informational(ic, r, kind) ==
    Msg(ic[1], "info", ic, r.rc, r.stage = "established", "notify", kind)

-----------------------------------------------------------------------------
(***************************************************************************)
(* The member.                                                             *)
(***************************************************************************)
Idle == [stage |-> "idle", try |-> 0, ic |-> <<>>, rc |-> 0, sends |-> 0, policy |-> 0, why |-> "none"]

(***************************************************************************)
(* register and phase1 up to the first round trip: a fresh socket, which   *)
(* what is under way to the old one does not reach, and a fresh cookie.    *)
(***************************************************************************)
BeginRegister(m) ==
    /\ mbr[m].stage \in {"idle", "done", "failed"} /\ mbr[m].try < MaxTry
    /\ LET k == mbr[m].try + 1
       IN  mbr' = [mbr EXCEPT ![m] = [Idle EXCEPT !.stage = "sa", !.try = k, !.ic = <<m, k>>]]
    /\ wire' = [h \in {x \in BagToSet(wire) : x.to # m} |-> wire[h]]
    /\ UNCHANGED <<terms, peers, touched, nrc, teks, registered>>

waiting(m) == mbr[m].stage \in {"sa", "ke", "auth", "pull", "proof"}

(***************************************************************************)
(* round_trip sends the request, again after each timeout.                 *)
(***************************************************************************)
Send(m) ==
    /\ waiting(m) /\ mbr[m].sends < Attempts[m]
    /\ mbr' = [mbr EXCEPT ![m].sends = @ + 1]
    /\ wire' = wire (+) SetToBag({request(m)})
    /\ UNCHANGED <<terms, peers, touched, nrc, teks, registered>>

fail(m, why) == [mbr EXCEPT ![m].stage = "failed", ![m].why = why]

Timeout(m) ==
    /\ waiting(m) /\ mbr[m].sends = Attempts[m]
    /\ mbr' = fail(m, "timeout")
    /\ UNCHANGED <<terms, peers, touched, nrc, wire, teks, registered>>

(***************************************************************************)
(* The `accept' of each round trip: what it tells a reply to this step by. *)
(***************************************************************************)
accepts(m, h) ==
    LET r == mbr[m]
    IN  CASE r.stage = "sa"   -> h.x = "main" /\ h.rc # 0 /\ ~h.enc
          [] r.stage = "ke"   -> h.x = "main" /\ h.rc = r.rc /\ ~h.enc /\ h.step # "sa"
          [] r.stage = "auth" -> h.x = "main" /\ h.rc = r.rc /\ h.enc
          [] OTHER            -> h.x = "pull" /\ h.rc = r.rc /\ h.enc

advanced(m, h) ==
    LET r == mbr[m]
        go(stage) == [mbr EXCEPT ![m].stage = stage, ![m].sends = 0]
    IN  IF h.step # r.stage THEN fail(m, "garbage")
        ELSE CASE r.stage = "sa"    -> [go("ke") EXCEPT ![m].rc = h.rc]
               [] r.stage = "ke"    -> go("auth")
               [] r.stage = "auth"  -> go("pull")
               [] r.stage = "pull"  -> [go("proof") EXCEPT ![m].policy = h.body]
               [] r.stage = "proof" -> IF h.body = r.policy THEN go("done")
                                       ELSE fail(m, "no keys for TEK")

(***************************************************************************)
(* A datagram arrives at the member: another exchange's is ignored, a      *)
(* notification it can read ends the registration (a protected one needs   *)
(* phase 1 to be complete), and what `accept' takes is opened.             *)
(***************************************************************************)
keyed(m) == mbr[m].stage \in {"pull", "proof"}

Arrive(m, h) ==
    /\ BagIn(h, wire) /\ h.to = m /\ waiting(m) /\ mbr[m].sends > 0
    /\ wire' = wire (-) SetToBag({h})
    /\ mbr' = IF h.ic # mbr[m].ic THEN mbr
              ELSE IF h.x = "info"
              THEN IF h.enc => keyed(m) THEN fail(m, "notify") ELSE mbr
              ELSE IF accepts(m, h) THEN advanced(m, h) ELSE mbr
    /\ UNCHANGED <<terms, peers, touched, nrc, teks, registered>>

-----------------------------------------------------------------------------
(***************************************************************************)
(* The server.                                                             *)
(***************************************************************************)
NewResponder(rc) ==
    [rc |-> rc, stage |-> "sa", last_req |-> <<>>, last_resp |-> <<>>,
     pulled |-> "none", policy |-> 0, preq |-> <<>>, presp |-> <<>>]

(***************************************************************************)
(* pull_step: message 1 snapshots the group; message 3 hands out the keys  *)
(* of that snapshot and reports the registration.  The result is the       *)
(* responder, the reply, the notification and whether it registered.  This *)
(* member makes one pull on a phase 1 SA, so `pulls' is one record.        *)
(***************************************************************************)
Out(r, rep, note, reg) == [r |-> r, rep |-> rep, note |-> note, reg |-> reg]

(***************************************************************************)
(* A bug: message 3 hands out the keys the group has by then.              *)
(***************************************************************************)
pull_Current(ic, r, h) ==
    IF h.step = "proof" /\ r.pulled = "policy"
    THEN LET rep == reply(ic, r, "pull", TRUE, "proof", teks)
         IN  Out([r EXCEPT !.pulled = "done", !.preq = h, !.presp = rep], rep, "none", TRUE)
    ELSE LET rep == reply(ic, r, "pull", TRUE, "pull", teks)
         IN  Out([r EXCEPT !.pulled = "policy", !.policy = teks, !.preq = h, !.presp = rep], rep, "none", FALSE)

pull(ic, r, h) ==
    IF r.preq # <<>> /\ h = r.preq THEN Out(r, r.presp, "none", FALSE)
    ELSE IF r.pulled = "done" THEN Out(r, <<>>, "malformed", FALSE)
    ELSE IF r.pulled = "none"
    THEN IF h.step # "pull" THEN Out(r, <<>>, "malformed", FALSE)
         ELSE IF terms[ic[1]] = "group" THEN Out(r, <<>>, "refused", FALSE)
         ELSE LET rep == reply(ic, r, "pull", TRUE, "pull", teks)
              IN  Out([r EXCEPT !.pulled = "policy", !.policy = teks, !.preq = h, !.presp = rep], rep, "none", FALSE)
    ELSE IF h.step # "proof" THEN Out(r, <<>>, "malformed", FALSE)
    ELSE LET rep == reply(ic, r, "pull", TRUE, "proof", r.policy)
         IN  Out([r EXCEPT !.pulled = "done", !.preq = h, !.presp = rep], rep, "none", TRUE)

(***************************************************************************)
(* Main mode.  The proposal is judged in message 1, the key exchange       *)
(* answered in message 3, and a wrong pre-shared key shows in message 5.   *)
(***************************************************************************)
answer(ic, r, enc, s) == Out(r, reply(ic, r, "main", enc, s, 0), "none", FALSE)

main_sa(ic, r) ==
    IF terms[ic[1]] = "proposal" THEN Out(r, <<>>, "refused", FALSE)
    ELSE answer(ic, r, FALSE, "sa")

main_ke(ic, r) == answer(ic, [r EXCEPT !.stage = "ke"], FALSE, "ke")

main_auth(ic, r) ==
    IF terms[ic[1]] = "psk" THEN Out(r, <<>>, "refused", FALSE)
    ELSE answer(ic, [r EXCEPT !.stage = "established"], TRUE, "auth")

(***************************************************************************)
(* Responder::step: what the stage and the header make of a message.       *)
(***************************************************************************)
step(ic, r, h) ==
    CASE h.x = "main" /\ r.stage = "sa" /\ h.rc = 0 -> main_sa(ic, r)
      [] h.x = "main" /\ r.stage = "sa" /\ h.rc # 0 -> main_ke(ic, r)
      [] h.x = "main" /\ r.stage = "ke" -> main_auth(ic, r)
      [] h.x = "pull" /\ r.stage = "established" -> pull(ic, r, h)
      [] OTHER -> Out(r, <<>>, "malformed", FALSE)

(***************************************************************************)
(* expire, run when a responder is created: some of the least recently     *)
(* active have been idle past the TTL, and there are fewer than MaxPeers.  *)
(***************************************************************************)
recency(ic) == SelectSeq(touched, LAMBDA c : c # ic) \o <<ic>>

kept == {n \in 0..Len(touched) : n < MaxPeers}

survivors(n) == SubSeq(touched, Len(touched) - n + 1, Len(touched))

(***************************************************************************)
(* Server::handle.                                                         *)
(***************************************************************************)
ignored(h) ==
    IF h.ic \notin DOMAIN peers THEN h.x # "main" \/ h.rc # 0
    ELSE h # peers[h.ic].last_req /\ h.rc # peers[h.ic].rc

HandleIgnored(h) ==
    /\ BagIn(h, wire) /\ h.to = "server" /\ ignored(h)
    /\ wire' = wire (-) SetToBag({h})
    /\ UNCHANGED <<terms, mbr, peers, touched, nrc, teks, registered>>

HandleRepeated(h) ==
    /\ BagIn(h, wire) /\ h.to = "server" /\ h.ic \in DOMAIN peers /\ h = peers[h.ic].last_req
    /\ wire' = (wire (-) SetToBag({h})) (+) SetToBag({peers[h.ic].last_resp})
    /\ touched' = recency(h.ic)
    /\ UNCHANGED <<terms, mbr, peers, nrc, teks, registered>>

Handle(h) ==
    /\ BagIn(h, wire) /\ h.to = "server" /\ ~ignored(h)
    /\ h.ic \in DOMAIN peers => h # peers[h.ic].last_req
    /\ LET created == h.ic \notin DOMAIN peers
       IN  /\ created => nrc < MaxRc
           /\ nrc' = IF created THEN nrc + 1 ELSE nrc
           /\ \E n \in IF created THEN kept ELSE {Len(touched)} :
              LET order == Append(SelectSeq(survivors(n), LAMBDA c : c # h.ic), h.ic)
                  r0    == IF created THEN NewResponder(nrc + 1) ELSE peers[h.ic]
                  out   == step(h.ic, r0, h)
                  ok    == out.rep # <<>>
                  r     == IF ok THEN [out.r EXCEPT !.last_req = h, !.last_resp = out.rep] ELSE out.r
                  gone  == ~ok /\ out.r.stage # "established"
                  say   == IF ok THEN {out.rep}
                           ELSE IF out.note = "refused" THEN {informational(h.ic, r, out.note)} ELSE {}
                  keep  == {order[i] : i \in 1..Len(order)} \ (IF gone THEN {h.ic} ELSE {})
              IN  /\ peers' = [c \in keep |-> IF c = h.ic THEN r ELSE peers[c]]
                  /\ touched' = SelectSeq(order, LAMBDA c : c \in keep)
                  /\ wire' = (wire (-) SetToBag({h})) (+) SetToBag(say)
                  /\ registered' = IF out.reg THEN Append(registered, [ic |-> h.ic, teks |-> out.r.policy])
                                   ELSE registered
    /\ UNCHANGED <<terms, mbr, teks>>

(***************************************************************************)
(* The operator rotates the group's keys (Group::add, Group::remove).      *)
(***************************************************************************)
Rotate ==
    /\ teks < MaxTeks
    /\ teks' = teks + 1
    /\ UNCHANGED <<terms, mbr, peers, touched, nrc, wire, registered>>

GdoiInit ==
    /\ terms \in [Member -> {"ok", "proposal", "psk", "group"}]
    /\ \A m \in Member : terms[m] \in Standing[m]
    /\ mbr \in [Member -> {Idle, [Idle EXCEPT !.try = MaxTry]}]
    /\ peers = [c \in {} |-> NewResponder(0)]
    /\ touched = <<>>
    /\ nrc = 0
    /\ wire = EmptyBag
    /\ teks \in 1..MaxTeks
    /\ registered = <<>>

MemberNext(m) == BeginRegister(m) \/ Send(m) \/ Timeout(m) \/ \E h \in BagToSet(wire) : Arrive(m, h)

GdoiNext ==
    \/ \E m \in Member : MemberNext(m)
    \/ \E h \in BagToSet(wire) : HandleIgnored(h) \/ HandleRepeated(h) \/ Handle(h)
    \/ Rotate

-----------------------------------------------------------------------------
GdoiTypeOK ==
    /\ \A m \in Member : mbr[m].sends \in 0..Attempts[m] /\ mbr[m].try \in 0..MaxTry
    /\ Cardinality(DOMAIN peers) <= MaxPeers
    /\ DOMAIN peers = {touched[i] : i \in 1..Len(touched)}
    /\ \A c \in DOMAIN peers : peers[c].rc \in 1..nrc

(***************************************************************************)
(* A completed registration holds the keys of one state of the group, the  *)
(* one the server reports having handed out, and the server reports it     *)
(* exactly once, however often requests and replies were repeated, lost or *)
(* overtaken and whenever the group's keys changed in between.             *)
(***************************************************************************)
RegisteredOnce ==
    \A m \in Member :
        mbr[m].stage = "done" =>
            Len(SelectSeq(registered, LAMBDA g : g = [ic |-> mbr[m].ic, teks |-> mbr[m].policy])) = 1

(***************************************************************************)
(* A member whose terms the server accepts is never told otherwise: its    *)
(* registration is not refused because a message was repeated, came late   *)
(* or met a responder that was dropped and made anew.                      *)
(***************************************************************************)
NotRefused ==
    \A m \in Member :
        /\ terms[m] = "ok" => mbr[m].why \notin {"notify", "no keys for TEK"}
        /\ mbr[m].stage = "done" => terms[m] = "ok"

(***************************************************************************)
(* What a registration comes to, at both ends.                             *)
(***************************************************************************)
RegistrationHolds == RegisteredOnce /\ NotRefused

(***************************************************************************)
(* A registration the server accepts fails only when its attempts run out: *)
(* both sides retransmit or answer retransmissions.  It does not: a reply  *)
(* that came twice passes the `accept' of a later step and fails there.    *)
(***************************************************************************)
CompletesOnRetransmission ==
    \A m \in Member : terms[m] = "ok" => mbr[m].why # "garbage"

=============================================================================
