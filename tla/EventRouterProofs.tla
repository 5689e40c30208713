------------------------- MODULE EventRouterProofs -------------------------
(***************************************************************************)
(* Proofs about EventRouter, for any set of events, any number of queries  *)
(* and any capacities: its types, that its mailboxes are bounded and hold  *)
(* only their own generation, and that exactly the active handle is open.  *)
(***************************************************************************)
EXTENDS EventRouter, TLAPS

USE MaxGenAssumption, CapAssumption DEF Gens, NoQuery, CloseReasons, Unlocked

-----------------------------------------------------------------------------
\* An eviction goes back to the very mailbox it found full: while it is under
\* way the router is not shut down and its event is the active handle's.
EvictionIsAddressed ==
  evicting # << >> => ~shutdown /\ Addressed(evicting[1])

RouterInv == RouterTypeOK /\ Bounded /\ MailboxIsolation /\ OnlyActiveOpen /\ EvictionIsAddressed

-----------------------------------------------------------------------------
\* Appending one event to a sequence: its type, its length, its elements.
LEMMA AppendProperties ==
  ASSUME NEW S, NEW seq \in Seq(S), NEW x \in S
  PROVE  /\ Append(seq, x) \in Seq(S)
         /\ Len(Append(seq, x)) = Len(seq) + 1
         /\ \A i \in 1..Len(seq) + 1 :
              Append(seq, x)[i] = IF i = Len(seq) + 1 THEN x ELSE seq[i]
  OBVIOUS

\* Dropping the oldest event of a non-empty sequence.
LEMMA TailProperties ==
  ASSUME NEW S, NEW seq \in Seq(S), seq # << >>
  PROVE  /\ Tail(seq) \in Seq(S)
         /\ Len(Tail(seq)) = Len(seq) - 1
         /\ \A i \in 1..Len(seq) - 1 : Tail(seq)[i] = seq[i + 1]
  OBVIOUS

\* A mailbox in which every event is stamped g, shorter than its capacity.
Own(seq, g) == \A i \in DOMAIN seq : seq[i].gen = g

LEMMA NonEmpty ==
  ASSUME NEW S, NEW seq \in Seq(S), seq # << >>
  PROVE  Len(seq) >= 1 /\ seq[1] \in S
  OBVIOUS

LEMMA AppendOwn ==
  ASSUME NEW seq \in Seq(Stamped), NEW g, Own(seq, g),
         NEW sev \in Stamped, sev.gen = g
  PROVE  Own(Append(seq, sev), g)
  BY AppendProperties DEF Own

LEMMA TailOwn ==
  ASSUME NEW seq \in Seq(Stamped), NEW g, Own(seq, g), seq # << >>
  PROVE  Own(Tail(seq), g)
  <1>1. \A i \in 1..Len(seq) - 1 : Tail(seq)[i].gen = g
    BY TailProperties DEF Own
  <1> QED
    BY <1>1, TailProperties DEF Own

\* The orphan mailbox keeps its type and its bound, full or not.
LEMMA AddOrphanSafe ==
  ASSUME orphans \in Seq(Stamped), Len(orphans) <= OrphanMailboxCap,
         NEW sev \in Stamped, AddOrphan(sev)
  PROVE  orphans' \in Seq(Stamped) /\ Len(orphans') <= OrphanMailboxCap
  <1>1. CASE Len(orphans) = OrphanMailboxCap
    <2>1. orphans # << >>
      BY <1>1
    <2>2. Tail(orphans) \in Seq(Stamped) /\ Len(Tail(orphans)) = Len(orphans) - 1
      BY <2>1, TailProperties
    <2> QED
      BY <1>1, <2>2, AppendProperties DEF AddOrphan
  <1>2. CASE Len(orphans) # OrphanMailboxCap
    BY <1>2, AppendProperties DEF AddOrphan
  <1> QED
    BY <1>1, <1>2

\* Replacing one mailbox by a sequence that fits it keeps what is said of all.
LEMMA ReplaceMailbox ==
  ASSUME RouterTypeOK, Bounded, MailboxIsolation,
         NEW g \in Gens, NEW seq \in Seq(Stamped),
         Len(seq) <= QueryMailboxCap, Own(seq, g),
         mailbox' = [mailbox EXCEPT ![g] = seq]
  PROVE  /\ mailbox' \in [Gens -> Seq(Stamped)]
         /\ \A h \in Gens : Len(mailbox'[h]) <= QueryMailboxCap
         /\ MailboxIsolation'
  <1>1. mailbox' \in [Gens -> Seq(Stamped)]
    BY DEF RouterTypeOK
  <1>2. \A h \in Gens : mailbox'[h] = IF h = g THEN seq ELSE mailbox[h]
    BY DEF RouterTypeOK
  <1>3. \A h \in Gens : Len(mailbox'[h]) <= QueryMailboxCap
    BY <1>2 DEF Bounded
  <1>4. MailboxIsolation'
    BY <1>2 DEF MailboxIsolation, Own
  <1> QED
    BY <1>1, <1>3, <1>4

-----------------------------------------------------------------------------
LEMMA RouterInitInv == RouterInit => RouterInv
  <1> SUFFICES ASSUME RouterInit PROVE RouterInv
    OBVIOUS
  <1>1. << >> \in Seq(Stamped) /\ Len(<< >>) = 0
    OBVIOUS
  <1>2. RouterTypeOK
    <2>1. handle \in [Gens -> {"none", "open"} \cup CloseReasons]
      BY DEF RouterInit
    <2>2. mailbox \in [Gens -> Seq(Stamped)]
      BY <1>1 DEF RouterInit
    <2>3. orphans \in Seq(Stamped) /\ evicting \in Seq(Stamped) /\ Len(evicting) <= 1
      BY <1>1 DEF RouterInit
    <2>4. active \in 0..MaxGen
      BY DEF RouterInit
    <2>5. shutdown \in BOOLEAN
      BY DEF RouterInit
    <2> QED
      BY <2>1, <2>2, <2>3, <2>4, <2>5 DEF RouterTypeOK
  <1>3. Bounded
    BY <1>1 DEF RouterInit, Bounded
  <1>4. MailboxIsolation /\ OnlyActiveOpen /\ EvictionIsAddressed
    BY DEF RouterInit, MailboxIsolation, OnlyActiveOpen, EvictionIsAddressed
  <1> QED
    BY <1>2, <1>3, <1>4 DEF RouterInv

\* Routing one event keeps the invariant, whichever of its outcomes it takes.
LEMMA RouteStampedInv ==
  ASSUME RouterInv, NEW sev \in Stamped, RouteStamped(sev)
  PROVE  RouterInv'
  <1> USE DEF RouterInv, RouterTypeOK, Bounded, MailboxIsolation, OnlyActiveOpen, EvictionIsAddressed
  <1>1. CASE DropAfterShutdown(sev)
    BY <1>1 DEF DropAfterShutdown, routerVars, RouteStamped
  <1>2. CASE Deliver(sev)
    <2>1. active \in Gens /\ sev.gen = active /\ mailbox[active] \in Seq(Stamped)
      BY <1>2 DEF Deliver, Addressed
    <2>2. Own(Append(mailbox[active], sev), active)
      <3>1. Own(mailbox[active], active)
        BY <2>1 DEF Own
      <3> QED
        BY <2>1, <3>1, AppendOwn
    <2>3. /\ Append(mailbox[active], sev) \in Seq(Stamped)
          /\ Len(Append(mailbox[active], sev)) <= QueryMailboxCap
      BY <1>2, <2>1, AppendProperties DEF Deliver
    <2>4. /\ mailbox' \in [Gens -> Seq(Stamped)]
          /\ \A h \in Gens : Len(mailbox'[h]) <= QueryMailboxCap
          /\ MailboxIsolation'
      BY <1>2, <2>1, <2>2, <2>3, ReplaceMailbox DEF Deliver
    <2> QED
      BY <1>2, <2>4 DEF Deliver, RouteStamped
  <1>3. CASE FindFull(sev)
    BY <1>3 DEF FindFull, Addressed
  <1>4. CASE Orphan(sev)
    <2>1. orphans' \in Seq(Stamped) /\ Len(orphans') <= OrphanMailboxCap
      BY <1>4, AddOrphanSafe DEF Orphan
    <2> QED
      BY <1>4, <2>1 DEF Orphan, RouteStamped
  <1> QED
    BY <1>1, <1>2, <1>3, <1>4 DEF RouteStamped

LEMMA EvictInv ==
  ASSUME RouterInv, Evict
  PROVE  RouterInv'
  <1> USE DEF RouterInv
  <1>1. /\ evicting[1] \in Stamped /\ evicting[1].gen = active
        /\ active \in Gens /\ ~shutdown /\ mailbox[active] \in Seq(Stamped)
    <2>1. evicting[1] \in Stamped
      BY NonEmpty DEF Evict, RouterTypeOK
    <2> QED
      BY <2>1 DEF Evict, EvictionIsAddressed, Addressed, RouterTypeOK
  <1>2. Own(mailbox[active], active) /\ Len(mailbox[active]) <= QueryMailboxCap
    BY <1>1 DEF Own, MailboxIsolation, Bounded
  <1>3. PICK kept \in Seq(Stamped) :
          /\ Len(kept) < QueryMailboxCap /\ Own(kept, active)
          /\ mailbox' = [mailbox EXCEPT ![active] = Append(kept, evicting[1])]
    <2>1. CASE mailbox[active] = << >>
      <3>1. mailbox' = [mailbox EXCEPT ![active] = Append(mailbox[active], evicting[1])]
        BY <1>1, <2>1 DEF Evict
      <3>2. Len(mailbox[active]) < QueryMailboxCap
        BY <2>1
      <3>3. mailbox[active] \in Seq(Stamped)
        BY <1>1
      <3> QED
        BY <1>2, <3>1, <3>2, <3>3
    <2>2. CASE mailbox[active] # << >>
      <3>1. /\ Tail(mailbox[active]) \in Seq(Stamped)
            /\ Len(Tail(mailbox[active])) < QueryMailboxCap
            /\ Own(Tail(mailbox[active]), active)
        BY <1>1, <1>2, <2>2, TailProperties, TailOwn
      <3>2. mailbox' = [mailbox EXCEPT ![active] =
                          Append(Tail(mailbox[active]), evicting[1])]
        BY <1>1, <2>2 DEF Evict
      <3> QED
        BY <3>1, <3>2
    <2> QED
      BY <2>1, <2>2
  <1>4. /\ Append(kept, evicting[1]) \in Seq(Stamped)
        /\ Len(Append(kept, evicting[1])) <= QueryMailboxCap
        /\ Own(Append(kept, evicting[1]), active)
    BY <1>1, <1>3, AppendProperties, AppendOwn
  <1>5. /\ mailbox' \in [Gens -> Seq(Stamped)]
        /\ \A h \in Gens : Len(mailbox'[h]) <= QueryMailboxCap
        /\ MailboxIsolation'
    BY <1>1, <1>3, <1>4, ReplaceMailbox
  <1>6. RouterTypeOK'
    BY <1>5 DEF Evict, RouterTypeOK
  <1> QED
    BY <1>5, <1>6 DEF Evict, Bounded, OnlyActiveOpen, EvictionIsAddressed

LEMMA FlushInv ==
  ASSUME RouterInv, NEW ev \in Event, Flush(ev)
  PROVE  RouterInv'
  <1> USE DEF RouterInv, RouterTypeOK, Bounded, MailboxIsolation, OnlyActiveOpen, EvictionIsAddressed
  <1>1. [ev |-> ev, gen |-> NoQuery] \in Stamped
    BY DEF Stamped
  <1>2. orphans' \in Seq(Stamped) /\ Len(orphans') <= OrphanMailboxCap
    BY <1>1, AddOrphanSafe DEF Flush
  <1> QED
    BY <1>2 DEF Flush

LEMMA HandleInv ==
  ASSUME RouterInv, NEW g \in Gens, NEW reason \in CloseReasons,
         Arm(g) \/ Detach(g, reason)
  PROVE  RouterInv'
  <1> USE DEF RouterInv, RouterTypeOK, Bounded, MailboxIsolation, OnlyActiveOpen, EvictionIsAddressed
  <1>1. CASE Arm(g)
    <2>1. CASE shutdown
      BY <1>1, <2>1 DEF Arm
    <2>2. CASE ~shutdown
      <3>1. handle' \in [Gens -> {"none", "open"} \cup CloseReasons]
        BY <1>1, <2>2 DEF Arm
      <3>2. active' \in 0..MaxGen
        BY <1>1, <2>2 DEF Arm
      <3>3. OnlyActiveOpen'
        BY <1>1, <2>2 DEF Arm
      <3>4. EvictionIsAddressed'
        BY <1>1 DEF Arm
      <3> QED
        BY <1>1, <3>1, <3>2, <3>3, <3>4 DEF Arm
    <2> QED
      BY <1>1, <2>1, <2>2 DEF Arm
  <1>2. CASE Detach(g, reason)
    <2>1. handle' \in [Gens -> {"none", "open"} \cup CloseReasons] /\ active' \in 0..MaxGen
      BY <1>2 DEF Detach
    <2>2. OnlyActiveOpen'
      BY <1>2 DEF Detach
    <2> QED
      BY <1>2, <2>1, <2>2 DEF Detach
  <1> QED
    BY <1>1, <1>2

LEMMA ShutdownInv ==
  ASSUME RouterInv, NEW reason \in CloseReasons, ShutdownRouter(reason)
  PROVE  RouterInv'
  <1> USE DEF ShutdownRouter, RouterInv, RouterTypeOK, Bounded, MailboxIsolation, OnlyActiveOpen, EvictionIsAddressed
  <1>1. handle' \in [Gens -> {"none", "open"} \cup CloseReasons] /\ active' \in 0..MaxGen
    OBVIOUS
  <1>2. OnlyActiveOpen'
    OBVIOUS
  <1>3. shutdown' = TRUE /\ UNCHANGED <<mailbox, orphans, evicting>>
    OBVIOUS
  <1>4. Bounded' /\ MailboxIsolation' /\ EvictionIsAddressed'
    BY <1>3
  <1> QED
    BY <1>1, <1>2, <1>3, <1>4

LEMMA ReceiveInv ==
  ASSUME RouterInv, NEW g \in Gens, Receive(g)
  PROVE  RouterInv'
  <1> USE DEF RouterInv
  <1>1. /\ mailbox[g] \in Seq(Stamped) /\ mailbox[g] # << >>
        /\ Len(mailbox[g]) <= QueryMailboxCap /\ Own(mailbox[g], g)
    BY DEF Receive, Own, RouterTypeOK, Bounded, MailboxIsolation
  <1>2. /\ Tail(mailbox[g]) \in Seq(Stamped)
        /\ Len(Tail(mailbox[g])) <= QueryMailboxCap
        /\ Own(Tail(mailbox[g]), g)
    BY <1>1, TailProperties, TailOwn
  <1>3. /\ mailbox' \in [Gens -> Seq(Stamped)]
        /\ \A h \in Gens : Len(mailbox'[h]) <= QueryMailboxCap
        /\ MailboxIsolation'
    <2>1. mailbox' = [mailbox EXCEPT ![g] = Tail(mailbox[g])]
      BY DEF Receive
    <2> QED
      BY <1>2, <2>1, ReplaceMailbox
  <1>4. RouterTypeOK'
    BY <1>3 DEF Receive, RouterTypeOK
  <1> QED
    BY <1>3, <1>4 DEF Receive, Bounded, OnlyActiveOpen, EvictionIsAddressed, Addressed

LEMMA DrainInv ==
  ASSUME RouterInv, DrainOrphans
  PROVE  RouterInv'
  BY DEF DrainOrphans, RouterInv, RouterTypeOK, Bounded, MailboxIsolation,
         OnlyActiveOpen, EvictionIsAddressed

\* Every step of the router keeps the invariant.
LEMMA RouterNextInv == RouterInv /\ [RouterNext]_routerVars => RouterInv'
  <1> SUFFICES ASSUME RouterInv, [RouterNext]_routerVars
               PROVE  RouterInv'
    OBVIOUS
  <1>1. CASE UNCHANGED routerVars
    BY <1>1 DEF routerVars, RouterInv, RouterTypeOK, Bounded, MailboxIsolation,
                OnlyActiveOpen, EvictionIsAddressed, Addressed
  <1>2. ASSUME NEW sev \in Stamped, RouteStamped(sev) PROVE RouterInv'
    BY <1>2, RouteStampedInv
  <1>3. ASSUME Evict PROVE RouterInv'
    BY <1>3, EvictInv
  <1>4. ASSUME NEW ev \in Event, Flush(ev) PROVE RouterInv'
    BY <1>4, FlushInv
  <1>5. ASSUME NEW g \in Gens,
               Arm(g) \/ Detach(g, "detached") \/ Detach(g, "failed")
        PROVE  RouterInv'
    BY <1>5, HandleInv
  <1>6. ASSUME NEW g \in Gens, Receive(g) PROVE RouterInv'
    BY <1>6, ReceiveInv
  <1>7. ASSUME ShutdownRouter("ended") PROVE RouterInv'
    BY <1>7, ShutdownInv
  <1>8. ASSUME DrainOrphans PROVE RouterInv'
    BY <1>8, DrainInv
  <1> QED
    BY <1>1, <1>2, <1>3, <1>4, <1>5, <1>6, <1>7, <1>8 DEF RouterNext

-----------------------------------------------------------------------------
\* The router's inductive invariant, for every value of its constants.
THEOREM RouterInvariant == RouterSpec => []RouterInv
  BY RouterInitInv, RouterNextInv, PTL DEF RouterSpec

\* The router's variables keep their types (router.go, eventRouter).
THEOREM RouterTypes == RouterSpec => []RouterTypeOK
  BY RouterInvariant, PTL DEF RouterInv

\* Neither mailbox ever exceeds its capacity (router.go, "Backpressure").
THEOREM RouterBounded == RouterSpec => []Bounded
  BY RouterInvariant, PTL DEF RouterInv

\* A handle only ever holds events of its own generation (QueryHandle.Events).
THEOREM RouterIsolation == RouterSpec => []MailboxIsolation
  BY RouterInvariant, PTL DEF RouterInv

\* No handle is left open but the active one, and none after shutdown.
THEOREM RouterOnlyActiveOpen == RouterSpec => []OnlyActiveOpen
  BY RouterInvariant, PTL DEF RouterInv

\* A closed handle keeps its reason and gets no further event.
THEOREM RouterClosedIsFinal == RouterSpec => ClosedIsFinal
  <1> DEFINE Final == \A g \in Gens : handle[g] \in CloseReasons =>
                        /\ handle'[g] = handle[g]
                        /\ Len(mailbox'[g]) <= Len(mailbox[g])
  <1>1. ASSUME RouterInv, [RouterNext]_routerVars PROVE [Final]_routerVars
    <2> SUFFICES ASSUME RouterNext, NEW g \in Gens, handle[g] \in CloseReasons
                 PROVE  /\ handle'[g] = handle[g]
                        /\ Len(mailbox'[g]) <= Len(mailbox[g])
      BY <1>1
    <2>0. /\ g # active /\ mailbox[g] \in Seq(Stamped)
          /\ mailbox \in [Gens -> Seq(Stamped)] /\ handle \in [Gens -> {"none", "open"} \cup CloseReasons]
          /\ handle[g] \in CloseReasons
      BY <1>1 DEF RouterInv, RouterTypeOK, OnlyActiveOpen
    <2>1. CASE \E sev \in Stamped : RouteStamped(sev)
      BY <2>0, <2>1 DEF RouteStamped, DropAfterShutdown, Deliver, FindFull, Orphan, routerVars, Addressed
    <2>2. CASE Evict
      BY <2>0, <2>2 DEF Evict
    <2>3. CASE \E ev \in Event : Flush(ev)
      BY <2>3 DEF Flush
    <2>4. ASSUME NEW h \in Gens, Arm(h) \/ Detach(h, "detached") \/ Detach(h, "failed")
          PROVE  handle'[g] = handle[g] /\ mailbox' = mailbox
      BY <2>0, <2>4 DEF Arm, Detach
    <2>5. ASSUME NEW h \in Gens, Receive(h)
          PROVE  handle' = handle /\ Len(mailbox'[g]) <= Len(mailbox[g])
      BY <2>0, <2>5 DEF Receive
    <2>6. CASE ShutdownRouter("ended")
      BY <2>0, <2>6 DEF ShutdownRouter
    <2>7. CASE DrainOrphans
      BY <2>7 DEF DrainOrphans
    <2> QED
      BY <2>1, <2>2, <2>3, <2>4, <2>5, <2>6, <2>7 DEF RouterNext
  <1> QED
    BY <1>1, RouterInvariant, PTL DEF RouterSpec, ClosedIsFinal

\* A mailbox changes by losing its oldest event, gaining a newest one, or both,
\* also when a consumer takes an event in the middle of an eviction.
THEOREM RouterOldestFirst == RouterSpec => OldestFirst
  <1> DEFINE Kept(g) ==
        \/ mailbox'[g] = mailbox[g]
        \/ mailbox[g] # << >> /\ mailbox'[g] = Tail(mailbox[g])
        \/ \E sev \in Stamped :
             \/ mailbox'[g] = Append(mailbox[g], sev)
             \/ mailbox[g] # << >> /\ mailbox'[g] = Append(Tail(mailbox[g]), sev)
  <1>1. ASSUME RouterInv, RouterNext PROVE \A g \in Gens : Kept(g)
    <2> SUFFICES ASSUME NEW g \in Gens PROVE Kept(g)
      OBVIOUS
    <2> USE <1>1 DEF RouterInv, RouterTypeOK, EvictionIsAddressed, Addressed
    <2>1. ASSUME NEW sev \in Stamped, RouteStamped(sev) PROVE Kept(g)
      BY <2>1 DEF RouteStamped, DropAfterShutdown, Deliver, FindFull, Orphan, routerVars
    <2>2. CASE Evict
      <3>1. active \in Gens /\ evicting[1] \in Stamped
        BY <2>2, NonEmpty DEF Evict
      <3>2. CASE g # active
        BY <2>2, <3>2 DEF Evict
      <3>3. CASE g = active /\ mailbox[g] = << >>
        BY <2>2, <3>1, <3>3 DEF Evict
      <3>4. CASE g = active /\ mailbox[g] # << >>
        BY <2>2, <3>1, <3>4 DEF Evict
      <3> QED
        BY <3>2, <3>3, <3>4
    <2>3. ASSUME NEW h \in Gens, Receive(h) PROVE Kept(g)
      BY <2>3 DEF Receive
    <2>4. ASSUME \/ \E ev \in Event : Flush(ev)
                 \/ \E h \in Gens : Arm(h) \/ Detach(h, "detached") \/ Detach(h, "failed")
                 \/ ShutdownRouter("ended") \/ DrainOrphans
          PROVE  Kept(g)
      BY <2>4 DEF Flush, Arm, Detach, ShutdownRouter, DrainOrphans
    <2> QED
      BY <2>1, <2>2, <2>3, <2>4 DEF RouterNext
  <1>2. ASSUME RouterInv, [RouterNext]_routerVars
        PROVE  [\A g \in Gens : Kept(g)]_routerVars
    BY <1>1, <1>2
  <1> QED
    BY <1>2, RouterInvariant, PTL DEF RouterSpec, OldestFirst
=============================================================================
