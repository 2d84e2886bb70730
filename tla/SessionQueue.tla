---------------------------- MODULE SessionQueue ----------------------------
(***************************************************************************)
(* The world's sessions and its login queue: World::AddSession_,           *)
(* AddQueuedPlayer, RemoveQueuedPlayer and UpdateSessions, with the parts  *)
(* of WorldSession they depend on.                                         *)
(*                                                                         *)
(* Network threads create sessions, hand them over through addSessQueue    *)
(* and close sockets at any moment; the world thread adds what it finds    *)
(* there and then visits every session once.  A session is let in by       *)
(* InitializeSession, whose database answer arrives at a later visit.      *)
(* A visit in which several things happen is modelled as visits of several *)
(* passes: a visit touches only its own session unless it ends it.         *)
(*                                                                         *)
(* m_sessions holds one session per account, so a session in it is named   *)
(* by its account, in the queue as well.                                   *)
(***************************************************************************)
EXTENDS Naturals, FiniteSets, Sequences, SequencesExt

CONSTANTS
    Accounts,
    Staff,        \* accounts above SEC_PLAYER
    Limits,       \* values m_playerLimit takes; 0 is no limit
    Tolerance,    \* DisconnectToleranceInterval is not 0
    MaxNew        \* bound: length of addSessQueue

ASSUME QueueAssumption ==
    /\ IsFiniteSet(Accounts) /\ Staff \subseteq Accounts
    /\ Limits \subseteq Nat /\ Limits # {}
    /\ Tolerance \in BOOLEAN /\ MaxNew \in Nat

VARIABLES
    addQ,         \* addSessQueue: new sessions, each with the state of its socket
    sess,         \* m_sessions: the WorldSession of an account
    queue,        \* m_QueuedPlayer
    limit,        \* m_playerLimit
    disc,         \* keys of m_disconnects
    todo,         \* accounts the current pass of UpdateSessions has to visit
    stop,         \* how far WorldRunnable::run is in shutting down
    raised,       \* history: the limit was raised over the head of the queue
    lowered       \* history: the limit was lowered below the players inside

vars == <<addQ, sess, queue, limit, disc, todo, stop, raised, lowered>>

-----------------------------------------------------------------------------
(* The fields of a WorldSession: m_inQueue, whether the account queries of *)
(* InitializeSession are under way, whether the socket is open, forceExit, *)
(* and m_playerLoading or _player.                                         *)
Session == [inQueue : BOOLEAN, init : BOOLEAN, open : BOOLEAN, forceExit : BOOLEAN,
            play : {"none", "loading", "in"}]

NoSession == [inQueue |-> FALSE, init |-> FALSE, open |-> FALSE, forceExit |-> FALSE,
              play |-> "deleted"]

NewSession(o) == [inQueue |-> FALSE, init |-> FALSE, open |-> o, forceExit |-> FALSE,
                  play |-> "none"]

Online(sn) == {a \in Accounts : sn[a] # NoSession}

(* World::GetActiveSessionCount.                                           *)
GetActiveSessionCount(w) == Cardinality(Online(w.sess)) - Len(w.queue)

(* Sessions left inside when a leaves, which is or is not in the queue.    *)
Left(a, w) ==
    LET active == GetActiveSessionCount(w)
    IN  IF Contains(w.queue, a) \/ active = 0 THEN active ELSE active - 1

HasRoom(n) == limit = 0 \/ n < limit

(* Faulty variant: the leaving session is counted as if it stayed.         *)
RemoveQueuedPlayer_CountsLeaver(a, w) ==
    LET q == RemoveFirst(w.queue, a)
        pop == HasRoom(GetActiveSessionCount(w)) /\ q # <<>>
        off == IF Contains(w.queue, a) THEN [w.sess EXCEPT ![a].inQueue = FALSE] ELSE w.sess
    IN  [found |-> Contains(w.queue, a),
         queue |-> IF pop THEN Tail(q) ELSE q,
         sess |-> IF pop THEN [off EXCEPT ![Head(q)].init = TRUE] ELSE off]

(* Faulty variant: the last in the queue is let in.                        *)
RemoveQueuedPlayer_TakesLast(a, w) ==
    LET q == RemoveFirst(w.queue, a)
        pop == HasRoom(Left(a, w)) /\ q # <<>>
        off == IF Contains(w.queue, a) THEN [w.sess EXCEPT ![a].inQueue = FALSE] ELSE w.sess
    IN  [found |-> Contains(w.queue, a),
         queue |-> IF pop THEN Front(q) ELSE q,
         sess |-> IF pop THEN [off EXCEPT ![Last(q)].init = TRUE] ELSE off]

(* Faulty variant: the first leaves the queue and is not let in.           *)
RemoveQueuedPlayer_NoInit(a, w) ==
    LET q == RemoveFirst(w.queue, a)
        pop == HasRoom(Left(a, w)) /\ q # <<>>
        off == IF Contains(w.queue, a) THEN [w.sess EXCEPT ![a].inQueue = FALSE] ELSE w.sess
    IN  [found |-> Contains(w.queue, a),
         queue |-> IF pop THEN Tail(q) ELSE q,
         sess |-> off]

(* World::RemoveQueuedPlayer for the session of a, from queue and sessions *)
(* w: it leaves the queue if it is there, and otherwise is not counted any *)
(* more; the first in the queue is let in if that leaves room.             *)
RemoveQueuedPlayer(a, w) ==
    LET q == RemoveFirst(w.queue, a)
        pop == HasRoom(Left(a, w)) /\ q # <<>>
        off == IF Contains(w.queue, a) THEN [w.sess EXCEPT ![a].inQueue = FALSE] ELSE w.sess
    IN  [found |-> Contains(w.queue, a),
         queue |-> IF pop THEN Tail(q) ELSE q,
         sess |-> IF pop THEN [off EXCEPT ![Head(q)].init = TRUE] ELSE off]

(* World::HasRecentlyDisconnected: an entry stays for ever, because the    *)
(* stored time minus the present one is never above the tolerance.         *)
HasRecentlyDisconnected(a) == Tolerance /\ a \in disc

(* The condition of AddSession_ under which a session has to wait: n       *)
(* others are inside or in the queue.                                      *)
MustQueue(a, n) ==
    /\ limit > 0 /\ n >= limit
    /\ a \notin Staff /\ ~HasRecentlyDisconnected(a)

-----------------------------------------------------------------------------
(* WorldSocket::HandleAuthSession on a network thread, authentication      *)
(* passed: a session is created and handed over (World::AddSession).       *)
AuthSession(a) ==
    /\ stop # "done" /\ Len(addQ) < MaxNew
    /\ addQ' = Append(addQ, [acct |-> a, open |-> TRUE])
    /\ UNCHANGED <<sess, queue, limit, disc, todo, stop>>

(* WorldSocket::handle_close on a network thread: the client went away,    *)
(* before or after its session was added.  A kick by a command or a check  *)
(* is a close after which expireTime does not matter.                      *)
CloseNew(i) ==
    /\ addQ[i].open
    /\ addQ' = [addQ EXCEPT ![i].open = FALSE]
    /\ UNCHANGED <<sess, queue, limit, disc, todo, stop>>

CloseSocket(a) ==
    /\ sess[a].open
    /\ sess' = [sess EXCEPT ![a].open = FALSE]
    /\ UNCHANGED <<addQ, queue, limit, disc, todo, stop>>

World == [found |-> FALSE, queue |-> queue, sess |-> sess]

(* Faulty variant: a replaced session stays in the queue.                  *)
AddSession_KeepsOld(a, o) ==
    LET sn == [sess EXCEPT ![a] = NewSession(o)]
        n == Cardinality(Online(sn)) - 1
        wait == MustQueue(a, n)
    IN  /\ queue' = IF wait THEN Append(queue, a) ELSE queue
        /\ sess' = [sn EXCEPT ![a].inQueue = wait, ![a].init = ~wait]

(* World::AddSession_ of a new session of account a, its socket open or    *)
(* not: deleted if the account's old session is loading a character;       *)
(* otherwise the old session is taken off the queue and deleted, and the   *)
(* new one waits or is let in.                                             *)
AddSession_(a, o) ==
    IF sess[a].play = "loading"
    THEN UNCHANGED <<sess, queue>>
    ELSE LET w == IF a \in Online(sess) THEN RemoveQueuedPlayer(a, World) ELSE World
             sn == [w.sess EXCEPT ![a] = NewSession(o)]
             n == IF w.found THEN Cardinality(Online(sn)) ELSE Cardinality(Online(sn)) - 1
             wait == MustQueue(a, n)
         IN  /\ queue' = IF wait THEN Append(w.queue, a) ELSE w.queue
             /\ sess' = [sn EXCEPT ![a].inQueue = wait, ![a].init = ~wait]

(* The first loop of UpdateSessions.                                       *)
AddNext ==
    /\ todo = {} /\ addQ # <<>> /\ stop \in {"no", "kicked"}
    /\ addQ' = Tail(addQ)
    /\ AddSession_(Head(addQ).acct, Head(addQ).open)
    /\ UNCHANGED <<limit, disc, todo, stop>>

(* The second loop starts when the first has found the queue empty.        *)
BeginPass ==
    /\ todo = {} /\ addQ = <<>> /\ stop \in {"no", "kicked"}
    /\ todo' = Online(sess)
    /\ stop' = IF stop = "kicked" THEN "pass" ELSE stop
    /\ UNCHANGED <<addQ, sess, queue, limit, disc>>

-----------------------------------------------------------------------------
(* A visit of WorldSession::Update that leaves the session as r; a kicked  *)
(* session ends at its next visit.                                         *)
Visit(a, r) ==
    /\ sess[a].open \/ ~sess[a].forceExit
    /\ todo' = todo \ {a}
    /\ sess' = [sess EXCEPT ![a] = r]
    /\ UNCHANGED <<addQ, queue, limit, disc, stop>>

UpdateNothing(a) == a \in todo /\ Visit(a, sess[a])

(* IsConnectionIdle: a waiting session does not time out.                  *)
UpdateIdle(a) ==
    /\ a \in todo /\ sess[a].open /\ ~sess[a].inQueue
    /\ Visit(a, [sess[a] EXCEPT !.open = FALSE])

(* Faulty variant: the packet is handled while the session waits.          *)
UpdateLogin_InQueue(a) ==
    /\ a \in todo /\ sess[a].open /\ sess[a].play = "none"
    /\ Visit(a, [sess[a] EXCEPT !.play = "loading"])

(* HandlePlayerLoginOpcode, STATUS_AUTHED: not while m_inQueue is set.     *)
UpdateLogin(a) ==
    /\ a \in todo /\ sess[a].open /\ sess[a].play = "none"
    /\ ~sess[a].inQueue
    /\ Visit(a, [sess[a] EXCEPT !.play = "loading"])

(* ProcessQueryCallbacks with both account queries answered:               *)
(* InitializeSessionCallback.                                              *)
UpdateInit(a) ==
    /\ a \in todo /\ sess[a].init
    /\ Visit(a, [sess[a] EXCEPT !.inQueue = FALSE, !.init = FALSE])

(* ProcessQueryCallbacks with the character loaded, or failed to load:     *)
(* HandlePlayerLogin.                                                      *)
UpdateLoaded(a) ==
    /\ a \in todo /\ sess[a].play = "loading"
    /\ \E p \in {"in", "none"} : Visit(a, [sess[a] EXCEPT !.play = p])

(* LogoutPlayer after a logout request.                                    *)
UpdateLogout(a) ==
    /\ a \in todo /\ sess[a].play = "in"
    /\ Visit(a, [sess[a] EXCEPT !.play = "none"])

(* Faulty variant: the session is erased before it is taken off the queue  *)
(* for the second time, which then counts one session too few.             *)
UpdateEnd_EraseFirst(a) ==
    LET w1 == RemoveQueuedPlayer(a, World)
        w2 == RemoveQueuedPlayer(a, [w1 EXCEPT !.sess[a] = NoSession])
    IN  /\ a \in todo /\ ~sess[a].open
        /\ todo' = todo \ {a}
        /\ disc' = IF w1.found \/ ~Tolerance THEN disc ELSE disc \cup {a}
        /\ queue' = w2.queue
        /\ sess' = [w2.sess EXCEPT ![a] = NoSession]
        /\ UNCHANGED <<addQ, limit, stop>>

(* Faulty variant: the pass does not step past the erased session.         *)
UpdateEnd_StaleIterator(a) ==
    LET w1 == RemoveQueuedPlayer(a, World)
        w2 == RemoveQueuedPlayer(a, w1)
    IN  /\ a \in todo /\ ~sess[a].open
        /\ disc' = IF w1.found \/ ~Tolerance THEN disc ELSE disc \cup {a}
        /\ queue' = w2.queue
        /\ sess' = [w2.sess EXCEPT ![a] = NoSession]
        /\ UNCHANGED <<addQ, limit, todo, stop>>

(* A visit finds the socket closed and expireTime used up, or forceExit:   *)
(* Update returns false.  UpdateSessions takes the session off the queue,  *)
(* twice, and deletes it; the destructor logs the player out and saves.    *)
UpdateEnd(a) ==
    LET w1 == RemoveQueuedPlayer(a, World)
        w2 == RemoveQueuedPlayer(a, w1)
    IN  /\ a \in todo /\ ~sess[a].open
        /\ todo' = todo \ {a}
        /\ disc' = IF w1.found \/ ~Tolerance THEN disc ELSE disc \cup {a}
        /\ queue' = w2.queue
        /\ sess' = [w2.sess EXCEPT ![a] = NoSession]
        /\ UNCHANGED <<addQ, limit, stop>>

-----------------------------------------------------------------------------
KickPlayer(r) == [r EXCEPT !.open = FALSE, !.forceExit = TRUE]

(* World::SetPlayerAmountLimit: the plimit command or a configuration      *)
(* reload.  The queue is not looked at.                                    *)
SetPlayerAmountLimit(n) ==
    /\ stop = "no" /\ n # limit /\ limit' = n
    /\ UNCHANGED <<addQ, sess, queue, disc, todo, stop>>

(* Faulty variant: the sockets are closed and forceExit is not set.        *)
KickAll_CloseOnly ==
    /\ stop = "no" /\ todo = {}
    /\ stop' = "kicked" /\ queue' = <<>>
    /\ sess' = [a \in Accounts |-> [sess[a] EXCEPT !.open = FALSE]]
    /\ UNCHANGED <<addQ, limit, disc, todo>>

(* The end of WorldRunnable::run: World::KickAll empties the queue and     *)
(* kicks everyone, then UpdateSessions runs once more.                     *)
KickAll ==
    /\ stop = "no" /\ todo = {}
    /\ stop' = "kicked" /\ queue' = <<>>
    /\ sess' = [a \in Accounts |-> IF a \in Online(sess) THEN KickPlayer(sess[a]) ELSE NoSession]
    /\ UNCHANGED <<addQ, limit, disc, todo>>

EndLastPass ==
    /\ stop = "pass" /\ todo = {}
    /\ stop' = "done"
    /\ UNCHANGED <<addQ, sess, queue, limit, disc, todo>>

-----------------------------------------------------------------------------
Inside == Online(sess) \ ToSet(queue)
Privileged(a) == a \in Staff \/ HasRecentlyDisconnected(a)

IdleSlot == queue # <<>> /\ HasRoom(GetActiveSessionCount(World))
Overfull == limit > 0 /\ Cardinality({a \in Inside : ~Privileged(a)}) > limit

Above(m, n) == m # n /\ (m = 0 \/ (n # 0 /\ m > n))

(* A change of the limit excuses an idle slot, or too many players, until  *)
(* it is made up for.                                                      *)
History ==
    /\ raised' = ((raised \/ Above(limit', limit)) /\ IdleSlot')
    /\ lowered' = ((lowered \/ Above(limit, limit')) /\ Overfull')

Init ==
    /\ addQ = <<>> /\ sess = [a \in Accounts |-> NoSession] /\ queue = <<>>
    /\ limit \in Limits /\ disc = {}
    /\ todo = {} /\ stop = "no"
    /\ raised = FALSE /\ lowered = FALSE

Step ==
    \/ \E i \in DOMAIN addQ : CloseNew(i)
    \/ AddNext \/ BeginPass
    \/ \E a \in Accounts :
        \/ AuthSession(a) \/ CloseSocket(a)
        \/ UpdateNothing(a) \/ UpdateIdle(a) \/ UpdateLogin(a) \/ UpdateInit(a)
        \/ UpdateLoaded(a) \/ UpdateLogout(a) \/ UpdateEnd(a)
    \/ \E n \in Limits : SetPlayerAmountLimit(n)
    \/ KickAll \/ EndLastPass

Next == Step /\ History

Spec == Init /\ [][Next]_vars

-----------------------------------------------------------------------------
(* The state has its types; a pass has only sessions to visit.             *)
TypeOK ==
    /\ addQ \in Seq([acct : Accounts, open : BOOLEAN])
    /\ sess \in [Accounts -> Session \cup {NoSession}]
    /\ queue \in Seq(Accounts) /\ limit \in Limits
    /\ disc \subseteq Accounts /\ todo \subseteq Online(sess)
    /\ stop \in {"no", "kicked", "pass", "done"}
    /\ raised \in BOOLEAN /\ lowered \in BOOLEAN

(* m_QueuedPlayer never holds a deleted or replaced session, nor a session *)
(* twice: each entry is in m_sessions, marked as waiting, and not let in.  *)
QueueExact ==
    /\ \A a \in ToSet(queue) : a \in Online(sess) /\ sess[a].inQueue /\ ~sess[a].init
    /\ IsInjective(queue)

(* A client whose packets are held back because it waits, and whom no idle *)
(* timeout ends, is in the queue or about to be let in.                    *)
NoStuckWaiter ==
    \A a \in Accounts :
        sess[a].inQueue /\ sess[a].open => a \in ToSet(queue) \/ sess[a].init

(* No character is loaded or played on a session that waits, nor on one    *)
(* that has left the queue and is not let in yet: "prevent cheating with   *)
(* skip queue wait".                                                       *)
NoPlayInQueue ==
    \A a \in Accounts : a \in ToSet(queue) \/ sess[a].inQueue => sess[a].play = "none"

(* Somebody waits only when the ordinary players and the staff inside      *)
(* together reach the limit, or when the limit was raised: every way out   *)
(* of the world lets the next one in.  This is less than what              *)
(* worldserver.conf.dist promises ("Maximum number of players in the       *)
(* world. Excluding Mods, GMs and Admins."): the code counts the staff,    *)
(* which therefore appears here as a term of its own, and with one of      *)
(* the staff inside and a limit of one an ordinary player waits.           *)
NoIdleSlot ==
    stop = "no" /\ queue # <<>> /\ ~raised =>
        /\ limit > 0
        /\ Cardinality(Inside \ Staff) + Cardinality(Inside \cap Staff) >= limit

(* Players without a privilege never exceed the limit, unless it was       *)
(* lowered: a slot is not given away twice.                                *)
NoOverfill == stop = "no" /\ Overfull => lowered

(* Nobody who waits is overtaken: whoever is let in was ahead in the       *)
(* queue, has a privilege, or profits from a raised limit.                 *)
FirstCome ==
    [][\A a \in Inside' \ Inside, b \in ToSet(queue) \cap ToSet(queue') :
        \/ raised \/ Privileged(a)
        \/ \E i, j \in DOMAIN queue : i < j /\ queue[i] = a /\ queue[j] = b]_vars

(* "save and kick all players": when the last UpdateSessions has returned, *)
(* no player is left in the world.                                         *)
AllSaved == stop = "done" => \A a \in Accounts : sess[a].play # "in"
=============================================================================
