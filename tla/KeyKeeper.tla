----------------------------- MODULE KeyKeeper -----------------------------
(***************************************************************************)
(* The keys of one group: the key server's list of them (gdoi/server.rs,   *)
(* Group), and at each member the keeper that registers, installs each key *)
(* when its activation delay has passed and removes it when it expires or  *)
(* is no longer listed (gdoi/keeper.rs), over the session's key store      *)
(* (rsession/keys.rs).                                                     *)
(*                                                                         *)
(* Activation and expiry are tasks that sleep until a time and then take   *)
(* the keeper's lock; aborting one stops it only while it sleeps.  The     *)
(* round trips of a registration are module Gdoi; here it takes a snapshot *)
(* of the group in one step and installs it, or fails, in a later one.     *)
(***************************************************************************)
EXTENDS Integers, FiniteSets

CONSTANTS
    Peer,       \* the members of the group
    Spi,        \* key identifiers
    Delay,      \* activation delays the key server uses, in ticks
    Lifetime,   \* lifetimes it uses, in ticks; 0 never expires
    Sec,        \* ticks of a second, the unit of the wire
    MaxTime,    \* bound: ticks
    MaxReg,     \* bound: registrations of one member
    MaxRotate   \* bound: keys the operator adds or withdraws

ASSUME KeeperAssumption ==
    /\ Spi \subseteq Nat \ {0}
    /\ Delay \subseteq Nat /\ Lifetime \subseteq Nat
    /\ Sec \in Nat \ {0} /\ MaxTime \in Nat /\ MaxReg \in Nat /\ MaxRotate \in Nat

VARIABLES
    kclock,     \* time in ticks
    group,      \* Group::teks: a partial function of Spi to [act, exp]
    nrot,       \* keys added or withdrawn so far
    reissued,   \* whether the operator may list a withdrawn key again
    pulled,     \* per member, the snapshot its registration under way has taken
    keys,       \* per member, Inner::keys: a partial function of Spi
    tasks,      \* per member, the activation and expiry tasks alive
    kstore,     \* per member, the key store: [ids, active]
    nreg,       \* per member, registrations so far
    view,       \* observation: per member, the Spis its registration listed
    used        \* observation: the Spis ever listed

keyVars == <<kclock, group, nrot, reissued, pulled, keys, tasks, kstore, nreg, view, used>>

Never == MaxTime + 100

(***************************************************************************)
(* A registration holds at least one key (sa_body refuses an empty group), *)
(* so the empty snapshot stands for none under way.                        *)
(***************************************************************************)
NoPull == [s \in {} |-> [delay |-> 0, life |-> 0]]

(***************************************************************************)
(* tek.rs, seconds: delays and lifetimes travel in whole seconds, rounded  *)
(* up.                                                                     *)
(***************************************************************************)
seconds(d) == ((d + Sec - 1) \div Sec) * Sec

without(f, K) == [s \in DOMAIN f \ K |-> f[s]]

-----------------------------------------------------------------------------
(***************************************************************************)
(* KeyStore::set_active.                                                   *)
(***************************************************************************)
set_active(st, spi) ==
    IF spi \in st.ids THEN [st EXCEPT !.active = spi] ELSE st

(***************************************************************************)
(* Inner::choose_active: the most recently activated key, the longest      *)
(* lived on a tie; any of the equal ones, as the map is unordered.         *)
(***************************************************************************)
best(ks) ==
    LET added == {s \in DOMAIN ks : ks[s].added}
        later(s, t) == \/ ks[s].act > ks[t].act
                       \/ ks[s].act = ks[t].act /\ ks[s].exp >= ks[t].exp
    IN  {s \in added : \A t \in added : later(s, t)}

choose_active(ks, st) ==
    IF best(ks) = {} THEN {<<[s \in DOMAIN ks |-> [ks[s] EXCEPT !.active = FALSE]], st>>}
    ELSE {<<[s \in DOMAIN ks |-> [ks[s] EXCEPT !.active = (s = b)]], set_active(st, b)>> : b \in best(ks)}

(***************************************************************************)
(* A bug: no other key becomes active when the active one goes.            *)
(***************************************************************************)
remove_locked_NoChoice(ks, st, gone) ==
    {<<without(ks, gone),
       [ids    |-> st.ids \ {s \in gone \cap DOMAIN ks : ks[s].added},
        active |-> IF st.active \in gone THEN 0 ELSE st.active]>>}

(***************************************************************************)
(* Inner::remove_locked for each of the keys `gone': they leave the map    *)
(* and the store, and when the active one is among them another becomes    *)
(* active.  The result is a set of <<keys, store>>, as choose_active may   *)
(* choose.                                                                 *)
(***************************************************************************)
remove_locked(ks, st, gone) ==
    LET rest == without(ks, gone)
        out  == [ids    |-> st.ids \ {s \in gone \cap DOMAIN ks : ks[s].added},
                 active |-> IF st.active \in gone THEN 0 ELSE st.active]
    IN  IF \E s \in gone \cap DOMAIN ks : ks[s].added /\ ks[s].active
        THEN choose_active(rest, out)
        ELSE {<<rest, out>>}

activation(spi, at, gen) == [spi |-> spi, kind |-> "activation", at |-> at, gen |-> gen, due |-> FALSE]
expiry(spi, at, gen) == [spi |-> spi, kind |-> "expiry", at |-> at, gen |-> gen, due |-> FALSE]

(***************************************************************************)
(* JoinHandle::abort reaches a task that still sleeps; one that has woken  *)
(* up and waits for the lock runs on.                                      *)
(***************************************************************************)
aborted(ts, kind, spi, gen) ==
    {t \in ts : ~(t.kind = kind /\ t.spi = spi /\ t.gen = gen /\ ~t.due)}

(***************************************************************************)
(* The activation handles remove_locked aborts when the keys K go.         *)
(***************************************************************************)
disarmed(ts, ks, K) ==
    {t \in ts : ~(t.kind = "activation" /\ ~t.due /\ t.spi \in K /\ t.gen = ks[t.spi].gen)}

-----------------------------------------------------------------------------
(***************************************************************************)
(* The group starts with its current key; the rotation adds the next.      *)
(***************************************************************************)
KeysInit ==
    /\ kclock = 0 /\ nrot = 0
    /\ \E s \in Spi, l \in Lifetime :
         /\ \A t \in Spi : s <= t
         /\ group = [x \in {s} |-> [act |-> 0, exp |-> IF l = 0 THEN Never ELSE l]]
         /\ used = {s}
    /\ pulled = [p \in Peer |-> NoPull]
    /\ keys = [p \in Peer |-> [s \in {} |-> 0]]
    /\ tasks = [p \in Peer |-> {}]
    /\ kstore = [p \in Peer |-> [ids |-> {}, active |-> 0]]
    /\ nreg \in [Peer -> 0..MaxReg]
    /\ view = [p \in Peer |-> {}]

(***************************************************************************)
(* Group::add, a key rotation; a Tek of Tek::new has a fresh Spi.          *)
(***************************************************************************)
AddTek(spi, delay, life) ==
    /\ nrot < MaxRotate /\ nrot' = nrot + 1
    /\ spi \notin DOMAIN group
    /\ reissued \/ spi \notin used
    /\ group' = [s \in DOMAIN group \cup {spi} |->
                    IF s # spi THEN group[s]
                    ELSE [act |-> kclock + delay,
                          exp |-> IF life = 0 THEN Never ELSE kclock + life]]
    /\ used' = used \cup {spi}
    /\ UNCHANGED <<kclock, reissued, pulled, keys, tasks, kstore, nreg, view>>

(***************************************************************************)
(* Group::remove, a withdrawal.                                            *)
(***************************************************************************)
RemoveTek(spi) ==
    /\ nrot < MaxRotate /\ nrot' = nrot + 1
    /\ spi \in DOMAIN group
    /\ group' = without(group, {spi})
    /\ UNCHANGED <<kclock, reissued, pulled, keys, tasks, kstore, nreg, view, used>>

(***************************************************************************)
(* Group::snapshot drops what has expired and gives what is left of each   *)
(* delay and lifetime, which reaches the member in seconds.                *)
(***************************************************************************)
valid(g) == without(g, {s \in DOMAIN g : g[s].exp <= kclock})

snapshot(g) ==
    [s \in DOMAIN valid(g) |->
        [delay |-> IF g[s].act > kclock THEN seconds(g[s].act - kclock) ELSE 0,
         life  |-> IF g[s].exp = Never THEN 0 ELSE seconds(g[s].exp - kclock)]]

(***************************************************************************)
(* Member::install: new keys wait for their activation, the expiry of      *)
(* every listed key is armed anew, and keys no longer listed are removed.  *)
(***************************************************************************)
installed(ks, teks, gen) ==
    [s \in DOMAIN ks \cup DOMAIN teks |->
        LET old == s \in DOMAIN ks
            ik  == IF old THEN ks[s]
                   ELSE [act |-> kclock + teks[s].delay, exp |-> Never, added |-> FALSE,
                         active |-> FALSE, gen |-> gen, egen |-> 0]
        IN  IF s \notin DOMAIN teks THEN ik
            ELSE IF teks[s].life = 0 THEN [ik EXCEPT !.exp = Never, !.egen = 0]
            ELSE [ik EXCEPT !.exp = kclock + teks[s].life, !.egen = gen]]

rearmed(ts, ks, teks, gen) ==
    {t \in ts : \A s \in DOMAIN teks \cap DOMAIN ks : t \in aborted(ts, "expiry", s, ks[s].egen)}
        \cup {activation(s, kclock + teks[s].delay, gen) : s \in DOMAIN teks \ DOMAIN ks}
        \cup {expiry(s, kclock + teks[s].life, gen) : s \in {x \in DOMAIN teks : teks[x].life # 0}}

(***************************************************************************)
(* register up to the key server's snapshot of the group.                  *)
(***************************************************************************)
Pull(p) ==
    /\ nreg[p] < MaxReg /\ pulled[p] = NoPull /\ snapshot(group) # NoPull
    /\ pulled' = [pulled EXCEPT ![p] = snapshot(group)]
    /\ nreg' = [nreg EXCEPT ![p] = @ + 1]
    /\ group' = valid(group)
    /\ UNCHANGED <<kclock, nrot, reissued, keys, tasks, kstore, view, used>>

(***************************************************************************)
(* register returns and `run' installs what it holds: the delays and the   *)
(* lifetimes of the snapshot count from now.                               *)
(***************************************************************************)
Install(p) ==
    /\ pulled[p] # NoPull
    /\ LET gen  == nreg[p]
           teks == pulled[p]
           ks   == installed(keys[p], teks, gen)
           gone == DOMAIN ks \ DOMAIN teks
       IN  /\ \E o \in remove_locked(ks, kstore[p], gone) :
                /\ keys' = [keys EXCEPT ![p] = o[1]]
                /\ kstore' = [kstore EXCEPT ![p] = o[2]]
           /\ tasks' = [tasks EXCEPT ![p] =
                           rearmed(disarmed(@, keys[p], gone), keys[p], teks, gen)]
           /\ view' = [view EXCEPT ![p] = DOMAIN teks]
    /\ pulled' = [pulled EXCEPT ![p] = NoPull]
    /\ UNCHANGED <<kclock, group, nrot, reissued, nreg, used>>

(***************************************************************************)
(* The registration fails after the snapshot; `run' waits and tries again. *)
(***************************************************************************)
PullFails(p) ==
    /\ pulled[p] # NoPull
    /\ pulled' = [pulled EXCEPT ![p] = NoPull]
    /\ UNCHANGED <<kclock, group, nrot, reissued, keys, tasks, kstore, nreg, view, used>>

(***************************************************************************)
(* A task's sleep ends; it runs when it gets the lock.                     *)
(***************************************************************************)
Wake(p, t) ==
    /\ t \in tasks[p] /\ ~t.due /\ t.at <= kclock
    /\ tasks' = [tasks EXCEPT ![p] = (@ \ {t}) \cup {[t EXCEPT !.due = TRUE]}]
    /\ UNCHANGED <<kclock, group, nrot, reissued, pulled, keys, kstore, nreg, view, used>>

(***************************************************************************)
(* Inner::activate.                                                        *)
(***************************************************************************)
Activate(p, t) ==
    /\ t \in tasks[p] /\ t.due /\ t.kind = "activation"
    /\ tasks' = [tasks EXCEPT ![p] = @ \ {t}]
    /\ IF t.spi \in DOMAIN keys[p] /\ ~keys[p][t.spi].added
       THEN \E o \in choose_active([keys[p] EXCEPT ![t.spi].added = TRUE],
                                   [kstore[p] EXCEPT !.ids = @ \cup {t.spi}]) :
                /\ keys' = [keys EXCEPT ![p] = o[1]]
                /\ kstore' = [kstore EXCEPT ![p] = o[2]]
       ELSE UNCHANGED <<keys, kstore>>
    /\ UNCHANGED <<kclock, group, nrot, reissued, pulled, nreg, view, used>>

(***************************************************************************)
(* The expiry task of install.                                             *)
(***************************************************************************)
Expire(p, t) ==
    /\ t \in tasks[p] /\ t.due /\ t.kind = "expiry"
    /\ \E o \in remove_locked(keys[p], kstore[p], {t.spi}) :
         /\ keys' = [keys EXCEPT ![p] = o[1]]
         /\ kstore' = [kstore EXCEPT ![p] = o[2]]
    /\ tasks' = [tasks EXCEPT ![p] = disarmed(@ \ {t}, keys[p], {t.spi} \cap DOMAIN keys[p])]
    /\ UNCHANGED <<kclock, group, nrot, reissued, pulled, nreg, view, used>>

(***************************************************************************)
(* Inner::remove_all when `cancel' resolves, which also drops the          *)
(* registration under way.                                                 *)
(***************************************************************************)
Stop(p) ==
    /\ nreg[p] > 0
    /\ pulled' = [pulled EXCEPT ![p] = NoPull]
    /\ keys' = [keys EXCEPT ![p] = [s \in {} |-> 0]]
    /\ \E o \in remove_locked(keys[p], kstore[p], DOMAIN keys[p]) :
         kstore' = [kstore EXCEPT ![p] = o[2]]
    /\ tasks' = [tasks EXCEPT ![p] =
                    {t \in disarmed(@, keys[p], DOMAIN keys[p]) :
                        ~(t.kind = "expiry" /\ ~t.due /\ t.spi \in DOMAIN keys[p]
                            /\ t.gen = keys[p][t.spi].egen)}]
    /\ nreg' = [nreg EXCEPT ![p] = MaxReg]
    /\ view' = [view EXCEPT ![p] = {}]
    /\ UNCHANGED <<kclock, group, nrot, reissued, used>>

(***************************************************************************)
(* Time.  A task whose time has come gets the lock before the clock goes   *)
(* on: nothing blocks while holding it.                                    *)
(***************************************************************************)
KeyTick ==
    /\ kclock < MaxTime
    /\ \A p \in Peer : \A t \in tasks[p] : t.at > kclock
    /\ kclock' = kclock + 1
    /\ UNCHANGED <<group, nrot, reissued, pulled, keys, tasks, kstore, nreg, view, used>>

RotateKeys ==
    \/ \E spi \in Spi, d \in Delay, l \in Lifetime : AddTek(spi, d, l)
    \/ \E spi \in Spi : RemoveTek(spi)

KeeperNext ==
    \/ \E p \in Peer : Pull(p) \/ Install(p) \/ PullFails(p) \/ Stop(p)
    \/ \E p \in Peer : \E t \in tasks[p] : Wake(p, t) \/ Activate(p, t) \/ Expire(p, t)
    \/ KeyTick

KeysNext == RotateKeys \/ KeeperNext

-----------------------------------------------------------------------------
TaskType == [spi : Spi, kind : {"activation", "expiry"}, at : Nat, gen : Nat, due : BOOLEAN]

KeysTypeOK ==
    /\ kclock \in 0..MaxTime
    /\ DOMAIN group \subseteq Spi
    /\ \A p \in Peer : DOMAIN keys[p] \subseteq Spi /\ tasks[p] \subseteq TaskType
    /\ \A p \in Peer : kstore[p].ids \subseteq Spi /\ kstore[p].active \in Spi \cup {0}

(***************************************************************************)
(* The key store is what the keeper thinks it is, and a publisher always   *)
(* sends with the most recently activated key it holds: it is without a    *)
(* key only when it holds none (choose_active after every change).         *)
(***************************************************************************)
ActiveIsNewest ==
    \A p \in Peer :
        LET st == kstore[p]
        IN  /\ st.ids = {s \in DOMAIN keys[p] : keys[p][s].added}
            /\ st.active = 0 <=> st.ids = {}
            /\ \A s \in st.ids : keys[p][s].act <= keys[p][st.active].act

(***************************************************************************)
(* Every key a member holds has a task that will end it, unless it never   *)
(* expires, and every key it waits for has a task that will install it: a  *)
(* registration, an expiry and an activation may interleave in any order   *)
(* without leaving a key behind.                                           *)
(***************************************************************************)
KeysHaveTasks ==
    \A p \in Peer : \A s \in DOMAIN keys[p] :
        /\ keys[p][s].exp # Never => \E t \in tasks[p] : t.kind = "expiry" /\ t.spi = s /\ t.at <= keys[p][s].exp
        /\ ~keys[p][s].added => \E t \in tasks[p] : t.kind = "activation" /\ t.spi = s

(***************************************************************************)
(* Two members whose last registration listed the same keys, with nothing  *)
(* due and nothing waiting for its activation, hold the same keys: the     *)
(* subscriber knows the key the publisher sends with, however their        *)
(* registrations, activations and the rotation interleaved.  Only while no *)
(* withdrawn key is listed again: remove_locked lets the expiry task of a  *)
(* withdrawn key run on, and it ends the key's second stay early           *)
(* (ExpiryIsOwn below).                                                    *)
(***************************************************************************)
atRest(p) ==
    /\ \A s \in DOMAIN keys[p] : keys[p][s].added /\ keys[p][s].exp > kclock
    /\ \A t \in tasks[p] : ~t.due

KeysAgree ==
    \A p, q \in Peer :
        (/\ ~reissued /\ atRest(p) /\ atRest(q)
         /\ view[p] = view[q] /\ view[p] \subseteq DOMAIN valid(group))
            => kstore[p].ids = kstore[q].ids

(***************************************************************************)
(* What a keeper promises of the keys it holds, alone and beside another.  *)
(***************************************************************************)
KeysKept == ActiveIsNewest /\ KeysHaveTasks /\ KeysAgree

(***************************************************************************)
(* A key leaves the keeper when it has expired, when the key server stops  *)
(* listing it or when the member stops, as the comment on Member says.  It *)
(* may also leave because an expiry task that had woken up before a new    *)
(* registration extended the key's life runs after it, or because the one  *)
(* of an earlier stay of a withdrawn key, which remove_locked detaches, is *)
(* still there when the key is listed again.                               *)
(***************************************************************************)
ExpiryIsOwn ==
    [][\A p \in Peer : \A s \in DOMAIN keys[p] \ DOMAIN keys'[p] :
          keys[p][s].exp <= kclock \/ s \notin view'[p]]_keyVars

(***************************************************************************)
(* A subscriber whose registration listed the key a publisher sends with   *)
(* accepts it: the documentation of Group and KeyStore say members that    *)
(* register before the change hold both keys.  They need not: delays travel *)
(* rounded up, so a member may wait for a key another sends with already.  *)
(***************************************************************************)
HoldsBoth ==
    \A p, q \in Peer :
        LET s == kstore[p].active
        IN  s # 0 /\ s \in view[q] /\ s \in DOMAIN valid(group) /\ s \in DOMAIN keys[q]
                => s \in kstore[q].ids

=============================================================================
