---------------------------- MODULE EventRouter ----------------------------
(***************************************************************************)
(* The event router of a Session in routed mode (src/router.go): one       *)
(* bounded mailbox per query handle, one bounded orphan mailbox for every  *)
(* event that belongs to no open query, both dropping their oldest entry   *)
(* when full.  Every action below holds the router's mutex r.mu, except    *)
(* Receive: a consumer takes from a handle's channel without it.           *)
(*                                                                         *)
(* The one place where holding the mutex over two channel operations shows *)
(* is the delivery to a full mailbox: the send fails, a consumer may then  *)
(* make room, and the router still drops the oldest event that is left.    *)
(* The router is "evicting" between the two.                               *)
(*                                                                         *)
(* A handle is named by its query generation, counted from 1; 0 is "no     *)
(* query".  What an event carries is opaque here.                          *)
(***************************************************************************)
EXTENDS Integers, Sequences

CONSTANTS
  Event,             \* what an event carries
  MaxGen,            \* bound on the query generations armed in a session
  QueryMailboxCap,   \* queryMailboxCap
  OrphanMailboxCap   \* orphanMailboxCap

ASSUME MaxGenAssumption == MaxGen \in Nat
ASSUME CapAssumption == /\ QueryMailboxCap \in Nat \ {0}
                        /\ OrphanMailboxCap \in Nat \ {0}

VARIABLES
  handle,    \* handle[g]: not armed yet, open, or the reason it was closed for
  mailbox,   \* mailbox[g]: the buffered channel of handle g
  active,    \* r.active: the handle that is being delivered to
  orphans,   \* the orphan ring, oldest first
  shutdown,  \* r.shutdown
  evicting   \* << the event whose delivery found its mailbox full >>, or << >>

routerVars == <<handle, mailbox, active, orphans, shutdown, evicting>>

Gens == 1..MaxGen
NoQuery == 0

\* Why a handle is closed: errSessionEnded, ErrQueryDetached, a failed write.
CloseReasons == {"ended", "detached", "failed"}

\* An event with the generation that was active when it arrived.
Stamped == [ev : Event, gen : 0..MaxGen]

-----------------------------------------------------------------------------
RouterInit ==
  /\ handle = [g \in Gens |-> "none"]
  /\ mailbox = [g \in Gens |-> << >>]
  /\ active = NoQuery
  /\ orphans = << >>
  /\ shutdown = FALSE
  /\ evicting = << >>

\* r.mu is free: it stays locked from a failed delivery to the eviction.
Unlocked == evicting = << >>

\* Mutants of AddOrphan: the generation is forgotten; the ring never wraps.
AddOrphanUnstamped(sev) == orphans' = Append(orphans, sev.ev)
AddOrphanUnbounded(sev) == orphans' = Append(orphans, sev)

\* addOrphanLocked
AddOrphan(sev) ==
  orphans' = IF Len(orphans) = OrphanMailboxCap
             THEN Append(Tail(orphans), sev)
             ELSE Append(orphans, sev)

\* Mutant of Addressed: whatever arrives goes to the active handle.
AddressedToActive(sev) == active # NoQuery

\* The active handle exists, is open and is the one the event is stamped for.
Addressed(sev) == active # NoQuery /\ sev.gen = active

\* routeStamped for an event that is not the barrier.  Its four outcomes: the
\* router was shut down, the mailbox takes the event, the mailbox is full, the
\* event belongs to no open query.
DropAfterShutdown(sev) ==
  /\ shutdown
  /\ UNCHANGED routerVars

Deliver(sev) ==
  /\ ~shutdown /\ Addressed(sev)
  /\ Len(mailbox[active]) < QueryMailboxCap
  /\ mailbox' = [mailbox EXCEPT ![active] = Append(@, sev)]
  /\ UNCHANGED <<handle, active, orphans, shutdown, evicting>>

FindFull(sev) ==
  /\ ~shutdown /\ Addressed(sev)
  /\ Len(mailbox[active]) = QueryMailboxCap
  /\ evicting' = <<sev>>
  /\ UNCHANGED <<handle, mailbox, active, orphans, shutdown>>

\* Mutant of Orphan: an event of no open query is nobody's, and is dropped.
OrphanDropped(sev) ==
  /\ ~shutdown /\ ~Addressed(sev)
  /\ UNCHANGED routerVars

Orphan(sev) ==
  /\ ~shutdown /\ ~Addressed(sev)
  /\ AddOrphan(sev)
  /\ UNCHANGED <<handle, mailbox, active, shutdown, evicting>>

RouteStamped(sev) ==
  /\ Unlocked
  /\ \/ DropAfterShutdown(sev)
     \/ Deliver(sev)
     \/ FindFull(sev)
     \/ Orphan(sev)

\* Mutant of Evict: room is made at the wrong end of the mailbox.
EvictNewest ==
  /\ evicting # << >>
  /\ mailbox' = [mailbox EXCEPT ![active] =
                   Append(IF @ = << >> THEN @ ELSE SubSeq(@, 1, Len(@) - 1), evicting[1])]
  /\ evicting' = << >>
  /\ UNCHANGED <<handle, active, orphans, shutdown>>

\* The rest of a delivery that found its mailbox full: drop the oldest event,
\* if the consumer has left one, and send again.
Evict ==
  /\ evicting # << >>
  /\ mailbox' = [mailbox EXCEPT ![active] =
                   Append(IF @ = << >> THEN @ ELSE Tail(@), evicting[1])]
  /\ evicting' = << >>
  /\ UNCHANGED <<handle, active, orphans, shutdown>>

\* One event of flushLegacyBuffered: it predates routing and has no query.
\* Unlike routeStamped this does not ask whether the router was shut down.
Flush(ev) ==
  /\ Unlocked
  /\ AddOrphan([ev |-> ev, gen |-> NoQuery])
  /\ UNCHANGED <<handle, mailbox, active, shutdown, evicting>>

\* The locked section of armQuery.  A handle armed after shutdown is returned
\* closed; otherwise it takes the place of the one that was left open.
Arm(g) ==
  /\ Unlocked
  /\ handle[g] = "none"
  /\ IF shutdown
     THEN /\ handle' = [handle EXCEPT ![g] = "ended"]
          /\ UNCHANGED active
     ELSE /\ handle' = [h \in Gens |-> IF h = g THEN "open"
                                       ELSE IF h = active THEN "detached"
                                       ELSE handle[h]]
          /\ active' = g
  /\ UNCHANGED <<mailbox, orphans, shutdown, evicting>>

\* Mutants of Detach: a second call closes again; the handle stays the active one.
DetachAgain(g, reason) ==
  /\ Unlocked
  /\ handle' = [handle EXCEPT ![g] = IF @ = "none" THEN @ ELSE reason]
  /\ active' = IF active = g THEN NoQuery ELSE active
  /\ UNCHANGED <<mailbox, orphans, shutdown, evicting>>

DetachKeepsActive(g, reason) ==
  /\ Unlocked
  /\ handle' = [handle EXCEPT ![g] = IF @ = "open" THEN reason ELSE @]
  /\ UNCHANGED <<mailbox, active, orphans, shutdown, evicting>>

\* detachLocked: a second call on the same handle does nothing.
Detach(g, reason) ==
  /\ Unlocked
  /\ handle' = [handle EXCEPT ![g] = IF @ = "open" THEN reason ELSE @]
  /\ active' = IF handle[g] = "open" /\ active = g THEN NoQuery ELSE active
  /\ UNCHANGED <<mailbox, orphans, shutdown, evicting>>

\* Mutant of ShutdownRouter: the active handle is forgotten, not closed.
ShutdownForgets(reason) ==
  /\ Unlocked
  /\ active' = NoQuery
  /\ shutdown' = TRUE
  /\ UNCHANGED <<handle, mailbox, orphans, evicting>>

\* The locked section of shutdownRouter.
ShutdownRouter(reason) ==
  /\ Unlocked
  /\ handle' = [g \in Gens |-> IF g = active THEN reason ELSE handle[g]]
  /\ active' = NoQuery
  /\ shutdown' = TRUE
  /\ UNCHANGED <<mailbox, orphans, evicting>>

DrainOrphans ==
  /\ Unlocked
  /\ orphans # << >>
  /\ orphans' = << >>
  /\ UNCHANGED <<handle, mailbox, active, shutdown, evicting>>

\* A consumer of QueryHandle.Events() takes the oldest event.  The channel of
\* a closed handle still gives out what it had buffered.
Receive(g) ==
  /\ mailbox[g] # << >>
  /\ mailbox' = [mailbox EXCEPT ![g] = Tail(@)]
  /\ UNCHANGED <<handle, active, orphans, shutdown, evicting>>

RouterNext ==
  \/ \E sev \in Stamped : RouteStamped(sev)
  \/ Evict
  \/ \E ev \in Event : Flush(ev)
  \/ \E g \in Gens : Arm(g) \/ Detach(g, "detached") \/ Detach(g, "failed") \/ Receive(g)
  \/ ShutdownRouter("ended")
  \/ DrainOrphans

RouterSpec == RouterInit /\ [][RouterNext]_routerVars

-----------------------------------------------------------------------------
\* The values the router's variables can have.
RouterTypeOK ==
  /\ handle \in [Gens -> {"none", "open"} \cup CloseReasons]
  /\ mailbox \in [Gens -> Seq(Stamped)]
  /\ active \in 0..MaxGen
  /\ orphans \in Seq(Stamped)
  /\ shutdown \in BOOLEAN
  /\ evicting \in Seq(Stamped) /\ Len(evicting) <= 1

\* Neither mailbox grows past its capacity: routing never needs room it lacks,
\* which is what lets it never block the pump (router.go, "Backpressure").
Bounded ==
  /\ \A g \in Gens : Len(mailbox[g]) <= QueryMailboxCap
  /\ Len(orphans) <= OrphanMailboxCap

\* A handle's mailbox holds only events stamped with that handle's generation,
\* whatever was superseded, detached or evicted before (QueryHandle: "Events()
\* yields only events stamped for this query's generation").
MailboxIsolation ==
  \A g \in Gens : \A i \in DOMAIN mailbox[g] : mailbox[g][i].gen = g

\* Exactly the active handle is open, so no handle is ever forgotten open: a
\* consumer that ranges over a handle the router no longer delivers to would
\* never terminate.  After shutdown none is.
OnlyActiveOpen ==
  /\ \A g \in Gens : handle[g] = "open" <=> g = active
  /\ shutdown => active = NoQuery

\* A closed handle's reason is final and nothing is sent on its closed channel
\* (a send there panics), not even by the eviction that was under way.
ClosedIsFinal ==
  [][\A g \in Gens : handle[g] \in CloseReasons =>
       /\ handle'[g] = handle[g]
       /\ Len(mailbox'[g]) <= Len(mailbox[g])]_routerVars

\* What a consumer has buffered keeps its order: a mailbox changes by losing
\* its oldest event, by gaining a newest one, or by both (drop-oldest).
OldestFirst ==
  [][\A g \in Gens :
       LET old == mailbox[g]  new == mailbox'[g] IN
       \/ new = old
       \/ old # << >> /\ new = Tail(old)
       \/ \E sev \in Stamped : \/ new = Append(old, sev)
                               \/ old # << >> /\ new = Append(Tail(old), sev)]_routerVars
=============================================================================
