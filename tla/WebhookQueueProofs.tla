------------------------- MODULE WebhookQueueProofs -------------------------
(***************************************************************************)
(* Theorems about the webhook queue, for every set of events,              *)
(* subscriptions and dispatchers, every batch size, timeout and ladder.    *)
(***************************************************************************)
EXTENDS WebhookQueue, FiniteSetTheorems, TLAPS

-----------------------------------------------------------------------------
(* The inductive invariant. *)

\* A tick is at a delivery from the check to the write, and has it no more in the
\* rest of its batch.
ShapeInv ==
    \A d \in Dispatchers :
        /\ pass[d].stage = "idle" => pass[d].work = {}
        /\ pass[d].stage \in {"idle", "check"} => pass[d].at = NoKey
        /\ pass[d].stage \in {"send", "read", "write"} => pass[d].at \in Keys \ pass[d].work

\* A deleted subscription has no deliveries.
DeletedInv == \A k \in Keys : subs[k[1]] = "deleted" => hook[k].status = "absent"

\* A claimed row waits, counted, and is not due before its batch is over; or its
\* subscription was deleted.
ClaimOK(d, k) ==
    \/ /\ hook[k].status = "pending"
       /\ hook[k].attempts > 0
       /\ hook[k].due >= pass[d].left
    \/ subs[k[1]] = "deleted"

\* A claim excludes the others as long as its window lasts, and what was read of
\* the row is what is written on.
WindowInv ==
    /\ \A d \in Dispatchers : pass[d].stage # "idle" => pass[d].left > 0
    /\ \A d \in Dispatchers : \A k \in Claimed(d) : ClaimOK(d, k)
    /\ \A c, d \in Dispatchers : c # d => Claimed(c) \cap Claimed(d) = {}
    /\ \A d \in Dispatchers :
          pass[d].stage = "write" /\ hook[pass[d].at].status = "pending" =>
             /\ pass[d].seen.status = "pending"
             /\ pass[d].seen.attempts = hook[pass[d].at].attempts

\* The receiver took the delivery and the tick has still to record it.
Taken(d, k) ==
    pass[d].at = k /\ pass[d].stage \in {"read", "write"} /\ pass[d].result = "ok"

\* A page is owed to a record: one that is made, is about to be, or went with its
\* subscription.
PageInv ==
    \A k \in Keys :
        /\ pages[k] <= 1
        /\ \A d \in Dispatchers : k \in Claimed(d) /\ ~Taken(d, k) => pages[k] <= 0
        /\ \/ pages[k] <= 0
           \/ hook[k].status = "delivered"
           \/ subs[k[1]] = "deleted"
           \/ \E d \in Dispatchers : Taken(d, k)

\* A claimed delivery that has not been sent yet.
Unsent(d, k) == k \in pass[d].work \/ (pass[d].stage = "send" /\ pass[d].at = k)

\* The ladder: what is claimed has been counted, and what is free has a rung left.
LadderInv ==
    \A k \in Keys :
        /\ posts[k] <= HookAttempts + aborts
        /\ \A d \in Dispatchers :
              k \in Claimed(d) =>
                 /\ hook[k].status = "pending" => /\ hook[k].attempts <= HookAttempts + aborts
                                                  /\ posts[k] <= hook[k].attempts
                 /\ hook[k].status = "pending" /\ Unsent(d, k) => posts[k] < hook[k].attempts
                 /\ Unsent(d, k) => posts[k] < HookAttempts + aborts
        /\ hook[k].status = "pending" /\ (\A d \in Dispatchers : k \notin Claimed(d)) =>
              hook[k].attempts < HookAttempts + aborts /\ posts[k] <= hook[k].attempts
        /\ hook[k].status = "absent" /\ subs[k[1]] # "deleted" => posts[k] = 0

\* The kill switch: a dispatcher that is about to send has sent nothing since.
SwitchInv ==
    \A d \in Dispatchers, s \in Subs :
        /\ sinceOff[<<d, s>>] <= 1
        /\ subs[s] = "on" => sinceOff[<<d, s>>] = 0
        /\ pass[d].stage = "send" /\ pass[d].at[1] = s => sinceOff[<<d, s>>] = 0

\* What a dispatcher sent since the suspension and what it may still send come
\* from one batch.
HeldInv ==
    \A d \in Dispatchers :
        /\ sinceHeld[d] + Cardinality(pass[d].work)
              + (IF pass[d].stage = "send" THEN 1 ELSE 0) <= HookBatch
        /\ active => sinceHeld[d] = 0

QueueInv ==
    /\ HookTypeOK
    /\ ShapeInv
    /\ DeletedInv
    /\ SwitchInv
    /\ HeldInv
    /\ ~Overrun => WindowInv /\ PageInv /\ LadderInv

-----------------------------------------------------------------------------
(* Types, and what the steps of a tick do. *)

\* There are finitely many deliveries, and every batch is a finite set.
LEMMA FiniteKeys ==
    /\ IsFiniteSet(Keys)
    /\ \A S \in SUBSET Keys : IsFiniteSet(S) /\ Cardinality(S) \in Nat
  <1>1. IsFiniteSet(Keys)
    BY HookAssumption, FS_Product DEF Keys
  <1>2. ASSUME NEW S \in SUBSET Keys
        PROVE  IsFiniteSet(S) /\ Cardinality(S) \in Nat
    BY <1>1, FS_Subset, FS_CardinalityType
  <1> QED
    BY <1>1, <1>2

\* A tick that is over, and a delivery that is queued or gone, have their types.
LEMMA StartTypes ==
    /\ Resting \in Passes /\ NoDelivery \in Deliveries /\ Queued \in Deliveries
    /\ Resting.stage = "idle" /\ Resting.work = {} /\ Resting.at = NoKey /\ Resting.left = 0
    /\ Resting.result = "retry"
    /\ NoDelivery.status = "absent"
    /\ Queued.status = "pending" /\ Queued.attempts = 0 /\ Queued.due = 0
    /\ NoKey \notin Keys
  <1>1. NoDelivery \in Deliveries /\ Queued \in Deliveries
        /\ NoDelivery.status = "absent"
        /\ Queued.status = "pending" /\ Queued.attempts = 0 /\ Queued.due = 0
    BY DEF NoDelivery, Queued, Deliveries
  <1>2. Resting \in Passes
    BY <1>1 DEF Resting, Passes, Results
  <1> QED
    BY <1>1, <1>2, HookAssumption DEF Resting, Keys

\* The tick a batch opens, with what is left of it and how long it may take.
Opened(rest, left) == [Resting EXCEPT !.stage = "check", !.work = rest, !.left = left]

\* It has its type.
LEMMA OpenedType ==
    ASSUME NEW rest \in SUBSET Keys, NEW n \in Nat
    PROVE  LET p == Opened(rest, n) IN
           /\ p \in Passes /\ p.stage = "check" /\ p.work = rest /\ p.at = NoKey /\ p.left = n
           /\ p.result = "retry"
  BY StartTypes DEF Opened, Passes, Resting

\* The tick that goes on with what is left of its batch.
Rest(d, rest) == IF rest = {} THEN Resting ELSE Opened(rest, pass[d].left)

\* It is at no delivery, and has the rest and the time that were left.
LEMMA RestFacts ==
    ASSUME NEW d, pass[d] \in Passes, NEW rest \in SUBSET Keys
    PROVE  LET p == Rest(d, rest) IN
           /\ p \in Passes /\ p.at = NoKey /\ p.work = rest
           /\ p.stage = "idle" => p = Resting
           /\ p.stage \in {"idle", "check"}
           /\ p.stage = "check" => p.left = pass[d].left
  <1>1. CASE rest = {}
    BY <1>1, StartTypes DEF Rest
  <1>2. CASE rest # {}
    <2>1. pass[d].left \in Nat
      BY DEF Passes
    <2> QED
      BY <1>2, <2>1, OpenedType DEF Rest
  <1> QED
    BY <1>1, <1>2

\* Going on is a step to that tick.
LEMMA OnwardRest ==
    ASSUME NEW d, NEW rest, Onward(d, rest)
    PROVE  pass' = [pass EXCEPT ![d] = Rest(d, rest)]
  BY DEF Onward, Rest, Opened

\* A released row is a row; one that was pending still is, free at once.
LEMMA ReleasedFacts ==
    ASSUME NEW h \in Deliveries
    PROVE  LET g == Released(h) IN
           /\ g \in Deliveries /\ g.status = h.status
           /\ h.status # "pending" => g = h
           /\ h.status = "pending" /\ h.attempts > 0 => g.attempts = h.attempts - 1
  <1> DEFINE n == IF h.attempts > 0 THEN h.attempts - 1 ELSE 0
             g == Released(h)
  <1>1. n \in Nat /\ (h.attempts > 0 => n = h.attempts - 1)
    BY DEF Deliveries
  <1>2. CASE h.status = "pending"
    <2>1. g = [h EXCEPT !.attempts = n, !.due = 0]
      BY <1>2 DEF Released
    <2> HIDE DEF n, g
    <2>2. g \in Deliveries /\ g.status = h.status /\ g.attempts = n
      BY <1>1, <2>1 DEF Deliveries
    <2> QED
      BY <1>1, <1>2, <2>2 DEF g
  <1>3. CASE h.status # "pending"
    BY <1>3 DEF Released
  <1> QED
    BY <1>2, <1>3

\* A recorded row is a row that is pending, delivered or dead; delivered exactly
\* when the receiver took it, if it was pending when it was read.
LEMMA RecordedFacts ==
    ASSUME NEW h \in Deliveries, h.status # "absent", NEW seen \in Deliveries,
           NEW result \in Results
    PROVE  LET g == Recorded(h, seen, result) IN
           /\ g \in Deliveries /\ g.status # "absent" /\ g.attempts = h.attempts
           /\ result = "ok" => g.status = "delivered"
           /\ g.status = "pending" /\ seen.status = "pending" =>
                 result = "retry" /\ seen.attempts < HookAttempts
           /\ h.status = "pending" /\ result # "ok" => g.status \in {"pending", "dead"}
  <1> DEFINE g == Recorded(h, seen, result)
  <1>0. /\ h.attempts \in Nat /\ h.due \in Nat /\ seen.attempts \in Nat
        /\ h.status \in {"pending", "delivered", "dead"} /\ HookBackoff \in Nat
        /\ HookAttempts \in Nat
    BY HookAssumption DEF Deliveries
  <1> SUFFICES /\ g \in Deliveries /\ g.status # "absent" /\ g.attempts = h.attempts
               /\ result = "ok" => g.status = "delivered"
               /\ g.status = "pending" /\ seen.status = "pending" =>
                     result = "retry" /\ seen.attempts < HookAttempts
               /\ h.status = "pending" /\ result # "ok" => g.status \in {"pending", "dead"}
    OBVIOUS
  <1>1. CASE result = "ok"
    <2>1. g = [h EXCEPT !.status = "delivered", !.due = 0]
      BY <1>1 DEF Recorded
    <2> HIDE DEF g
    <2>2. g \in Deliveries /\ g.status = "delivered" /\ g.attempts = h.attempts
      BY <2>1 DEF Deliveries
    <2> QED
      BY <1>1, <2>2
  <1>2. CASE result = "retry" /\ TriesLeft(seen)
    <2>1. g = IF seen.status = "pending" /\ h.status # "pending" THEN h
              ELSE [h EXCEPT !.status = "pending", !.due = HookBackoff]
      BY <1>2 DEF Recorded
    <2>2. seen.attempts < HookAttempts
      BY <1>2 DEF TriesLeft
    <2> QED
      BY <1>0, <1>2, <2>1, <2>2 DEF Deliveries
  <1>3. CASE result # "ok" /\ ~(result = "retry" /\ TriesLeft(seen))
    <2>1. g = [h EXCEPT !.status = IF seen.status = "dead" THEN h.status ELSE "dead", !.due = 0]
      BY <1>3 DEF Recorded
    <2>2. CASE seen.status = "dead"
      <3>1. g = [h EXCEPT !.due = 0]
        BY <2>1, <2>2 DEF Deliveries
      <3> QED
        BY <1>0, <1>3, <2>2, <3>1 DEF Deliveries
    <2>3. CASE seen.status # "dead"
      <3>1. g = [h EXCEPT !.status = "dead", !.due = 0]
        BY <2>1, <2>3
      <3> QED
        <4> HIDE DEF g
        <4>1. g \in Deliveries /\ g.status = "dead" /\ g.attempts = h.attempts
          BY <3>1 DEF Deliveries
        <4> QED
          BY <1>3, <4>1
    <2> QED
      BY <2>2, <2>3
  <1> QED
    BY <1>1, <1>2, <1>3

\* The limits are numbers.
LEMMA Limits ==
    /\ HookAttempts \in Nat /\ HookAttempts > 0 /\ HookBatch \in Nat
    /\ HookTimeout \in Nat /\ HookTimeout > 0 /\ HookBackoff \in Nat
    /\ Overrun \in BOOLEAN
  BY HookAssumption

\* A step of one tick leaves the others, and what they have claimed, alone.
LEMMA OneMoves ==
    ASSUME HookTypeOK, NEW d \in Dispatchers, NEW p \in Passes,
           pass' = [pass EXCEPT ![d] = p]
    PROVE  /\ pass' \in [Dispatchers -> Passes]
           /\ pass'[d] = p
           /\ Claimed(d)' = (p.work \cup {p.at}) \ {NoKey}
           /\ \A c \in Dispatchers : c # d => pass'[c] = pass[c] /\ Claimed(c)' = Claimed(c)
  BY DEF HookTypeOK, Claimed

\* What a tick has claimed are deliveries.
LEMMA ClaimedKeys ==
    ASSUME HookTypeOK, NEW d \in Dispatchers
    PROVE  /\ Claimed(d) \subseteq Keys /\ pass[d] \in Passes
           /\ pass[d].work \subseteq Claimed(d)
           /\ pass[d].at # NoKey => pass[d].at \in Claimed(d)
           /\ pass[d].at = NoKey => Claimed(d) = pass[d].work
           /\ pass[d].work \in SUBSET Keys
  <1>1. pass[d] \in Passes
    BY DEF HookTypeOK
  <1>2. pass[d].work \subseteq Keys /\ pass[d].at \in Keys \cup {NoKey}
    BY <1>1 DEF Passes
  <1> QED
    BY <1>1, <1>2, StartTypes DEF Claimed

-----------------------------------------------------------------------------
(* Steps by which a tick is done with a delivery. *)

\* What a delivery must be when its tick lets go of it.
Freed(k) ==
    /\ pages[k] <= 1
    /\ pages[k] <= 0 \/ hook[k].status = "delivered" \/ subs[k[1]] = "deleted"
    /\ hook[k].status = "pending" =>
          hook[k].attempts < HookAttempts + aborts /\ posts[k] <= hook[k].attempts

\* The step of a tick that keeps a part of its batch and touches only rows it lets
\* go of.
LetsGo(d, p) ==
    /\ pass' = [pass EXCEPT ![d] = p]
    /\ p \in Passes /\ p.at = NoKey /\ p.work \subseteq pass[d].work
    /\ p.stage \in {"idle", "check"}
    /\ p.stage = "idle" => p.work = {}
    /\ p.stage = "check" => pass[d].stage # "idle" /\ p.left = pass[d].left
    /\ hook' \in [Keys -> Deliveries]
    /\ pages' \in [Keys -> Int]
    /\ \A k \in Keys : hook'[k].status = "absent" <=> hook[k].status = "absent"
    /\ aborts' \in {aborts, aborts + 1}
    /\ UNCHANGED <<stream, consumer, subs, active, posts, sinceOff, sinceHeld, turns>>

\* Such a step keeps the types, the shapes, the switch and the suspension.
LEMMA LetsGoAnyway ==
    ASSUME QueueInv, NEW d \in Dispatchers, NEW p, LetsGo(d, p)
    PROVE  /\ HookTypeOK' /\ ShapeInv' /\ DeletedInv' /\ SwitchInv' /\ HeldInv'
  <1>1. /\ HookTypeOK /\ ShapeInv /\ DeletedInv /\ SwitchInv /\ HeldInv
    BY DEF QueueInv
  <1>2. /\ p \in Passes /\ p.at = NoKey /\ p.work \subseteq pass[d].work
        /\ p.stage \in {"idle", "check"} /\ (p.stage = "idle" => p.work = {})
        /\ UNCHANGED <<stream, consumer, subs, active, posts, sinceOff, sinceHeld, turns>>
        /\ hook' \in [Keys -> Deliveries] /\ pages' \in [Keys -> Int]
        /\ \A k \in Keys : hook'[k].status = "absent" <=> hook[k].status = "absent"
        /\ aborts' \in {aborts, aborts + 1}
    BY DEF LetsGo
  <1>3. /\ pass' \in [Dispatchers -> Passes] /\ pass'[d] = p
        /\ \A c \in Dispatchers : c # d => pass'[c] = pass[c]
    BY <1>1, OneMoves DEF LetsGo
  <1>4. HookTypeOK'
    <2>1. aborts' \in Nat
      BY <1>1, <1>2 DEF HookTypeOK
    <2> QED
      BY <1>1, <1>2, <1>3, <2>1 DEF HookTypeOK, consumer
  <1>5. ShapeInv'
    BY <1>1, <1>2, <1>3 DEF ShapeInv
  <1>6. DeletedInv'
    BY <1>1, <1>2 DEF DeletedInv
  <1>7. SwitchInv'
    BY <1>1, <1>2, <1>3 DEF SwitchInv
  <1>8. HeldInv'
    <2>1. /\ IsFiniteSet(pass[d].work) /\ Cardinality(pass[d].work) \in Nat
          /\ Cardinality(p.work) \in Nat /\ Cardinality(p.work) <= Cardinality(pass[d].work)
      BY <1>1, <1>2, ClaimedKeys, FiniteKeys, FS_Subset
    <2>2. sinceHeld[d] \in Nat /\ HookBatch \in Nat
      BY <1>1, Limits DEF HookTypeOK
    <2>3. sinceHeld[d] + Cardinality(p.work) + 0 <= HookBatch
      BY <1>1, <2>1, <2>2 DEF HeldInv
    <2>4. ASSUME NEW c \in Dispatchers
          PROVE  /\ sinceHeld'[c] + Cardinality(pass'[c].work)
                       + (IF pass'[c].stage = "send" THEN 1 ELSE 0) <= HookBatch
                 /\ active' => sinceHeld'[c] = 0
      <3>1. CASE c = d
        BY <1>1, <1>2, <1>3, <2>3, <3>1 DEF HeldInv
      <3>2. CASE c # d
        BY <1>1, <1>2, <1>3, <3>2 DEF HeldInv
      <3> QED
        BY <3>1, <3>2
    <2> QED
      BY <2>4 DEF HeldInv
  <1> QED
    BY <1>4, <1>5, <1>6, <1>7, <1>8

\* Within its window it keeps everything, if what it lets go of is fit for that.
LEMMA LetsGoKeeps ==
    ASSUME QueueInv, NEW d \in Dispatchers, NEW p, LetsGo(d, p),
           ~Overrun => \A k \in Keys :
              IF k \in Claimed(d) \ p.work THEN Freed(k)'
              ELSE hook'[k] = hook[k] /\ pages'[k] = pages[k]
    PROVE  QueueInv'
  <1>1. HookTypeOK' /\ ShapeInv' /\ DeletedInv' /\ SwitchInv' /\ HeldInv'
    BY LetsGoAnyway
  <1>2. ASSUME ~Overrun
        PROVE  WindowInv' /\ PageInv' /\ LadderInv'
    <2>1. HookTypeOK /\ ShapeInv /\ DeletedInv /\ WindowInv /\ PageInv /\ LadderInv
      BY <1>2 DEF QueueInv
    <2>2. /\ p \in Passes /\ p.at = NoKey /\ p.work \subseteq pass[d].work
          /\ p.stage \in {"idle", "check"}
          /\ p.stage = "check" => pass[d].stage # "idle" /\ p.left = pass[d].left
          /\ p.stage = "idle" => p.work = {}
          /\ subs' = subs /\ posts' = posts /\ aborts' \in {aborts, aborts + 1}
      BY DEF LetsGo
    <2>3. /\ pass'[d] = p /\ Claimed(d)' = p.work
          /\ \A c \in Dispatchers : c # d => pass'[c] = pass[c] /\ Claimed(c)' = Claimed(c)
      <3>1. NoKey \notin p.work
        BY <2>2, StartTypes DEF Passes
      <3>2. /\ pass'[d] = p /\ Claimed(d)' = (p.work \cup {p.at}) \ {NoKey}
            /\ \A c \in Dispatchers : c # d => pass'[c] = pass[c] /\ Claimed(c)' = Claimed(c)
        BY <2>1, <2>2, OneMoves DEF LetsGo
      <3> QED
        BY <2>2, <3>1, <3>2
    <2>4. p.work \subseteq Claimed(d)
      BY <2>1, <2>2, ClaimedKeys
    <2>5. \A c \in Dispatchers : Claimed(c) \subseteq Keys
      BY <2>1, ClaimedKeys
    <2>6. ASSUME NEW c \in Dispatchers, NEW k \in Claimed(c)'
          PROVE  /\ k \in Keys /\ k \in Claimed(c) /\ k \notin Claimed(d) \ p.work
                 /\ hook'[k] = hook[k] /\ pages'[k] = pages[k]
      <3>1. k \in Claimed(c) /\ k \in Keys
        BY <2>3, <2>4, <2>5
      <3>2. k \notin Claimed(d) \ p.work
        BY <2>1, <2>3, <3>1 DEF WindowInv
      <3> QED
        BY <1>2, <3>1, <3>2
    <2>7. WindowInv'
      <3>1. ASSUME NEW c \in Dispatchers
            PROVE  pass'[c].stage # "idle" => pass'[c].left > 0
        BY <2>1, <2>2, <2>3 DEF WindowInv
      <3>2. ASSUME NEW c \in Dispatchers, NEW k \in Claimed(c)'
            PROVE  ClaimOK(c, k)'
        <4>1. ClaimOK(c, k)
          BY <2>1, <2>6 DEF WindowInv
        <4>2. pass'[c].left = pass[c].left
          BY <2>2, <2>3
        <4> QED
          BY <2>2, <2>6, <4>1, <4>2 DEF ClaimOK
      <3>3. ASSUME NEW b \in Dispatchers, NEW c \in Dispatchers, b # c
            PROVE  Claimed(b)' \cap Claimed(c)' = {}
        BY <2>1, <2>6, <3>3 DEF WindowInv
      <3>4. ASSUME NEW c \in Dispatchers, pass'[c].stage = "write",
                   hook'[pass'[c].at].status = "pending"
            PROVE  /\ pass'[c].seen.status = "pending"
                   /\ pass'[c].seen.attempts = hook'[pass'[c].at].attempts
        <4>1. c # d /\ pass'[c] = pass[c]
          BY <2>2, <2>3, <3>4
        <4>2. pass[c].at \in Keys /\ pass[c].at # NoKey
          BY <2>1, <3>4, <4>1, StartTypes DEF ShapeInv
        <4>3. pass[c].at \in Claimed(c)'
          BY <2>1, <2>3, <4>1, <4>2, ClaimedKeys
        <4>4. hook'[pass[c].at] = hook[pass[c].at]
          BY <2>6, <4>3
        <4> QED
          BY <2>1, <3>4, <4>1, <4>4 DEF WindowInv
      <3> QED
        BY <3>1, <3>2, <3>3, <3>4 DEF WindowInv
    <2>8. ASSUME NEW k \in Keys
          PROVE  /\ pages'[k] <= 1
                 /\ \A c \in Dispatchers : k \in Claimed(c)' /\ ~Taken(c, k)' => pages'[k] <= 0
                 /\ \/ pages'[k] <= 0
                    \/ hook'[k].status = "delivered"
                    \/ subs'[k[1]] = "deleted"
                    \/ \E c \in Dispatchers : Taken(c, k)'
      <3>1. CASE k \in Claimed(d) \ p.work
        <4>1. Freed(k)'
          BY <1>2, <3>1
        <4>2. \A c \in Dispatchers : k \notin Claimed(c)'
          BY <2>6, <3>1
        <4> QED
          BY <4>1, <4>2 DEF Freed
      <3>2. CASE k \notin Claimed(d) \ p.work
        <4>1. hook'[k] = hook[k] /\ pages'[k] = pages[k] /\ subs' = subs
          BY <1>2, <2>2, <3>2
        <4>2. ASSUME NEW c \in Dispatchers, c # d PROVE Taken(c, k)' <=> Taken(c, k)
          BY <2>3, <4>2 DEF Taken
        <4>3. ~Taken(d, k)
          <5>1. ASSUME Taken(d, k) PROVE FALSE
            <6>1. pass[d].at = k /\ pass[d].stage \in {"read", "write"}
              BY <5>1 DEF Taken
            <6>2. k \notin pass[d].work /\ k # NoKey
              BY <2>1, <6>1, StartTypes DEF ShapeInv
            <6> QED
              BY <2>1, <2>2, <3>2, <6>1, <6>2, ClaimedKeys
          <5> QED
            BY <5>1
        <4>4. \A c \in Dispatchers : k \in Claimed(c)' => k \in Claimed(c)
          BY <2>6
        <4> QED
          BY <2>1, <4>1, <4>2, <4>3, <4>4 DEF PageInv
      <3> QED
        BY <3>1, <3>2
    <2>9. PageInv'
      BY <2>8 DEF PageInv
    <2>10. ASSUME NEW k \in Keys
           PROVE  /\ posts'[k] <= HookAttempts + aborts'
                  /\ hook'[k].status = "pending" /\ (\A c \in Dispatchers : k \notin Claimed(c)')
                       => /\ hook'[k].attempts < HookAttempts + aborts'
                          /\ posts'[k] <= hook'[k].attempts
                  /\ hook'[k].status = "absent" /\ subs'[k[1]] # "deleted" => posts'[k] = 0
      <3>0. /\ posts[k] \in Nat /\ aborts \in Nat /\ aborts' \in Nat /\ aborts' >= aborts
            /\ hook[k].attempts \in Nat /\ HookAttempts \in Nat
        BY <2>1, <2>2, Limits DEF HookTypeOK, Deliveries
      <3>1. posts'[k] <= HookAttempts + aborts'
        BY <2>1, <2>2, <3>0 DEF LadderInv
      <3>2. hook'[k].status = "absent" /\ subs'[k[1]] # "deleted" => posts'[k] = 0
        BY <2>1, <2>2 DEF LadderInv, LetsGo
      <3>3. CASE k \in Claimed(d) \ p.work
        <4>1. Freed(k)'
          BY <1>2, <3>3
        <4> QED
          BY <3>1, <3>2, <4>1 DEF Freed
      <3>4. CASE k \notin Claimed(d) \ p.work
        <4>1. hook'[k] = hook[k] /\ posts' = posts
          BY <1>2, <2>2, <3>4
        <4>2. (\A c \in Dispatchers : k \notin Claimed(c)') =>
                 (\A c \in Dispatchers : k \notin Claimed(c))
          BY <2>3, <3>4
        <4> QED
          BY <2>1, <3>0, <3>1, <3>2, <4>1, <4>2 DEF LadderInv
      <3> QED
        BY <3>3, <3>4
    <2>11. ASSUME NEW k \in Keys, NEW c \in Dispatchers, k \in Claimed(c)'
           PROVE  /\ hook'[k].status = "pending" =>
                        /\ hook'[k].attempts <= HookAttempts + aborts'
                        /\ posts'[k] <= hook'[k].attempts
                  /\ hook'[k].status = "pending" /\ Unsent(c, k)' => posts'[k] < hook'[k].attempts
                  /\ Unsent(c, k)' => posts'[k] < HookAttempts + aborts'
      <3>0. /\ posts[k] \in Nat /\ aborts \in Nat /\ aborts' \in Nat /\ aborts' >= aborts
            /\ hook[k].attempts \in Nat /\ HookAttempts \in Nat
        BY <2>1, <2>2, Limits DEF HookTypeOK, Deliveries
      <3>1. k \in Claimed(c) /\ hook'[k] = hook[k] /\ posts' = posts
        BY <2>2, <2>6, <2>11
      <3>2. Unsent(c, k)' => Unsent(c, k)
        BY <2>2, <2>3 DEF Unsent
      <3> QED
        BY <2>1, <3>0, <3>1, <3>2 DEF LadderInv
    <2>12. LadderInv'
      BY <2>10, <2>11 DEF LadderInv
    <2> QED
      BY <2>7, <2>9, <2>12
  <1> QED
    BY <1>1, <1>2 DEF QueueInv

\* Releasing rows keeps their types and makes none appear or go.
LEMMA ReleasedAllFacts ==
    ASSUME hook \in [Keys -> Deliveries], NEW S, hook' = ReleasedAll(S)
    PROVE  /\ hook' \in [Keys -> Deliveries]
           /\ \A k \in Keys : /\ hook'[k].status = "absent" <=> hook[k].status = "absent"
                              /\ k \in S => hook'[k] = Released(hook[k])
                              /\ k \notin S => hook'[k] = hook[k]
  <1>1. \A k \in Keys : hook'[k] = IF k \in S THEN Released(hook[k]) ELSE hook[k]
    BY DEF ReleasedAll
  <1>2. \A k \in Keys : /\ Released(hook[k]) \in Deliveries
                        /\ Released(hook[k]).status = hook[k].status
    BY ReleasedFacts
  <1>3. hook' \in [Keys -> Deliveries]
    BY <1>2 DEF ReleasedAll
  <1> QED
    BY <1>1, <1>2, <1>3

\* A claim that did not reach the wire and is released costs nothing.
LEMMA ReleasedFreed ==
    ASSUME QueueInv, ~Overrun, NEW d \in Dispatchers, NEW k \in pass[d].work,
           hook'[k] = Released(hook[k]), pages'[k] = pages[k],
           subs' = subs, posts' = posts, aborts' \in {aborts, aborts + 1}
    PROVE  Freed(k)'
  <1>1. HookTypeOK /\ ShapeInv /\ DeletedInv /\ WindowInv /\ PageInv /\ LadderInv
    BY DEF QueueInv
  <1>2. k \in Claimed(d) /\ k \in Keys
    BY <1>1, ClaimedKeys
  <1>3. k # NoKey /\ ~Taken(d, k)
    BY <1>1, <1>2, StartTypes DEF ShapeInv, Taken
  <1>4. pages[k] <= 0 /\ pages[k] <= 1
    BY <1>1, <1>2, <1>3 DEF PageInv
  <1>5. /\ posts[k] \in Nat /\ aborts \in Nat /\ hook[k] \in Deliveries
        /\ hook[k].attempts \in Nat /\ HookAttempts \in Nat
    BY <1>1, <1>2, Limits DEF HookTypeOK, Deliveries
  <1>6. hook[k].status = "pending" =>
           /\ hook[k].attempts > 0 /\ hook[k].attempts <= HookAttempts + aborts
           /\ posts[k] < hook[k].attempts
    <2>1. Unsent(d, k)
      BY DEF Unsent
    <2>2. hook[k].status = "pending" => hook[k].attempts > 0
      BY <1>1, <1>2 DEF WindowInv, ClaimOK, DeletedInv
    <2> QED
      BY <1>1, <1>2, <2>1, <2>2 DEF LadderInv
  <1>7. hook'[k].status = "pending" =>
           hook[k].status = "pending" /\ hook'[k].attempts = hook[k].attempts - 1
    BY <1>5, <1>6, ReleasedFacts
  <1>8. hook'[k].status = "pending" =>
           hook'[k].attempts < HookAttempts + aborts' /\ posts[k] <= hook'[k].attempts
    BY <1>5, <1>6, <1>7
  <1> QED
    BY <1>4, <1>8 DEF Freed

\* A claim that dies with its tick costs one more try.
LEMMA DroppedFreed ==
    ASSUME QueueInv, ~Overrun, NEW d \in Dispatchers, NEW k \in Claimed(d),
           hook'[k] = hook[k], pages'[k] = IF Taken(d, k) THEN pages[k] - 1 ELSE pages[k],
           subs' = subs, posts' = posts, aborts' = aborts + 1
    PROVE  Freed(k)'
  <1>1. HookTypeOK /\ WindowInv /\ PageInv /\ LadderInv /\ k \in Keys
    BY ClaimedKeys DEF QueueInv
  <1>2. /\ posts[k] \in Nat /\ aborts \in Nat /\ hook[k].attempts \in Nat
        /\ HookAttempts \in Nat /\ pages[k] \in Int
    BY <1>1, Limits DEF HookTypeOK, Deliveries
  <1>3. pages'[k] <= 0
    BY <1>1, <1>2 DEF PageInv
  <1>4. hook[k].status = "pending" =>
           hook[k].attempts <= HookAttempts + aborts /\ posts[k] <= hook[k].attempts
    BY <1>1 DEF LadderInv
  <1>5. pages'[k] \in Int
    BY <1>2
  <1> QED
    BY <1>2, <1>3, <1>4, <1>5 DEF Freed

\* The kill switch, asked before the POST: the claim is released.
LEMMA CheckOffKeeps ==
    ASSUME QueueInv, NEW d \in Dispatchers, NEW k \in Keys, Check(d, k), SwitchedOff(k)
    PROVE  QueueInv'
  <1> DEFINE rest == pass[d].work \ {k}
             p == Rest(d, rest)
  <1>1. /\ HookTypeOK /\ ShapeInv /\ pass[d] \in Passes /\ hook \in [Keys -> Deliveries]
        /\ pass[d].work \in SUBSET Keys
    BY ClaimedKeys DEF QueueInv, HookTypeOK
  <1>2. /\ pass[d].stage = "check" /\ k \in pass[d].work
        /\ hook' = ReleasedAll({k}) /\ Onward(d, rest)
        /\ UNCHANGED <<stream, consumer, subs, active, history, turns, aborts>>
    BY DEF Check
  <1>3. pass' = [pass EXCEPT ![d] = p]
    BY <1>2, OnwardRest
  <1>4. rest \in SUBSET Keys
    BY <1>1
  <1>5. /\ p \in Passes /\ p.at = NoKey /\ p.work = rest
        /\ p.stage = "idle" => p = Resting
        /\ p.stage \in {"idle", "check"}
        /\ p.stage = "check" => p.left = pass[d].left
    BY <1>1, <1>4, RestFacts
  <1>6. /\ hook' \in [Keys -> Deliveries]
        /\ \A j \in Keys : /\ hook'[j].status = "absent" <=> hook[j].status = "absent"
                           /\ j = k => hook'[j] = Released(hook[j])
                           /\ j # k => hook'[j] = hook[j]
    <2>1. /\ hook' \in [Keys -> Deliveries]
          /\ \A j \in Keys : /\ hook'[j].status = "absent" <=> hook[j].status = "absent"
                             /\ j \in {k} => hook'[j] = Released(hook[j])
                             /\ j \notin {k} => hook'[j] = hook[j]
      BY <1>1, <1>2, ReleasedAllFacts
    <2> QED
      BY <2>1
  <1>7. UNCHANGED <<posts, pages, sinceOff, sinceHeld>>
    BY <1>2 DEF history
  <1> HIDE DEF p
  <1>8. LetsGo(d, p)
    <2>1. p.stage = "idle" => p.work = {}
      BY <1>5, StartTypes
    <2>2. pages' \in [Keys -> Int]
      BY <1>1, <1>7 DEF HookTypeOK
    <2> QED
      BY <1>2, <1>3, <1>5, <1>6, <1>7, <2>1, <2>2 DEF LetsGo
  <1>9. ASSUME ~Overrun, NEW j \in Keys
        PROVE  IF j \in Claimed(d) \ p.work THEN Freed(j)'
               ELSE hook'[j] = hook[j] /\ pages'[j] = pages[j]
    <2>1. Claimed(d) = pass[d].work
      BY <1>1, <1>2, ClaimedKeys DEF ShapeInv
    <2>2. CASE j = k
      <3>1. Freed(j)'
        BY <1>2, <1>6, <1>7, <1>9, <2>2, ReleasedFreed
      <3> QED
        BY <1>2, <1>5, <2>1, <2>2, <3>1
    <2>3. CASE j # k
      BY <1>5, <1>6, <1>7, <2>1, <2>3
    <2> QED
      BY <2>2, <2>3
  <1> QED
    BY <1>8, <1>9, LetsGoKeeps

\* A result for a row that is gone, or delivered, is dropped.
LEMMA ReadGoneKeeps ==
    ASSUME QueueInv, NEW d \in Dispatchers, ReadDelivery(d),
           hook[pass[d].at].status \in {"absent", "delivered"}
    PROVE  QueueInv'
  <1>k. PICK k : k = pass[d].at
    OBVIOUS
  <1> DEFINE p == Rest(d, pass[d].work)
  <1>1. /\ HookTypeOK /\ ShapeInv /\ pass[d] \in Passes /\ hook \in [Keys -> Deliveries]
        /\ pass[d].work \in SUBSET Keys
    BY ClaimedKeys DEF QueueInv, HookTypeOK
  <1>2. /\ pass[d].stage = "read" /\ Onward(d, pass[d].work)
        /\ UNCHANGED <<stream, consumer, subs, active, hook, history, turns, aborts>>
    BY DEF ReadDelivery
  <1>3. pass' = [pass EXCEPT ![d] = p]
    BY <1>2, OnwardRest
  <1>4. /\ p \in Passes /\ p.at = NoKey /\ p.work = pass[d].work
        /\ p.stage = "idle" => p = Resting
        /\ p.stage \in {"idle", "check"}
        /\ p.stage = "check" => p.left = pass[d].left
    BY <1>1, RestFacts
  <1>5. UNCHANGED <<posts, pages, sinceOff, sinceHeld>>
    BY <1>2 DEF history
  <1>6. k \in Keys /\ k \notin pass[d].work /\ k # NoKey
    BY <1>k, <1>1, <1>2, StartTypes DEF ShapeInv
  <1> HIDE DEF p
  <1>7. LetsGo(d, p)
    <2>1. p.stage = "idle" => p.work = {}
      BY <1>4, StartTypes
    <2>2. pages' \in [Keys -> Int] /\ hook' \in [Keys -> Deliveries]
      BY <1>1, <1>2, <1>5 DEF HookTypeOK
    <2> QED
      BY <1>2, <1>3, <1>4, <1>5, <2>1, <2>2 DEF LetsGo
  <1>8. ASSUME ~Overrun, NEW j \in Keys
        PROVE  IF j \in Claimed(d) \ p.work THEN Freed(j)'
               ELSE hook'[j] = hook[j] /\ pages'[j] = pages[j]
    <2>1. Claimed(d) \ p.work = {k}
      BY <1>k, <1>1, <1>4, <1>6 DEF Claimed
    <2>2. Freed(k)'
      <3>1. subs[k[1]] = "deleted"
        BY <1>k, <1>6, <1>8, <2>1 DEF QueueInv, WindowInv, ClaimOK
      <3>2. pages[k] <= 1
        BY <1>6, <1>8 DEF QueueInv, PageInv
      <3> QED
        BY <1>k, <1>2, <1>5, <3>1, <3>2 DEF Freed
    <2> QED
      BY <1>2, <1>5, <2>1, <2>2
  <1> QED
    BY <1>7, <1>8, LetsGoKeeps

\* The outcome is written.
LEMMA WriteKeeps ==
    ASSUME QueueInv, NEW d \in Dispatchers, WriteDelivery(d),
           hook[pass[d].at].status # "absent"
    PROVE  QueueInv'
  <1>k. PICK k : k = pass[d].at
    OBVIOUS
  <1> DEFINE p == Rest(d, pass[d].work)
             g == Recorded(hook[k], pass[d].seen, pass[d].result)
  <1>1. /\ HookTypeOK /\ ShapeInv /\ DeletedInv /\ pass[d] \in Passes
        /\ hook \in [Keys -> Deliveries]
        /\ pass[d].work \in SUBSET Keys
    BY ClaimedKeys DEF QueueInv, HookTypeOK
  <1>2. /\ pass[d].stage = "write" /\ Onward(d, pass[d].work)
        /\ hook' = [hook EXCEPT ![k] = g]
        /\ UNCHANGED <<stream, consumer, subs, active, history, turns, aborts>>
    BY <1>k DEF WriteDelivery
  <1>3. pass' = [pass EXCEPT ![d] = p]
    BY <1>2, OnwardRest
  <1>4. /\ p \in Passes /\ p.at = NoKey /\ p.work = pass[d].work
        /\ p.stage = "idle" => p = Resting
        /\ p.stage \in {"idle", "check"}
        /\ p.stage = "check" => p.left = pass[d].left
    BY <1>1, RestFacts
  <1>5. UNCHANGED <<posts, pages, sinceOff, sinceHeld>>
    BY <1>2 DEF history
  <1>6. k \in Keys /\ k \notin pass[d].work /\ k # NoKey
    BY <1>k, <1>1, <1>2, StartTypes DEF ShapeInv
  <1>7. /\ hook[k] \in Deliveries /\ hook[k].status # "absent"
        /\ pass[d].seen \in Deliveries /\ pass[d].result \in Results
    BY <1>k, <1>1, <1>6 DEF Passes
  <1>8. /\ g \in Deliveries /\ g.status # "absent" /\ g.attempts = hook[k].attempts
        /\ pass[d].result = "ok" => g.status = "delivered"
        /\ g.status = "pending" /\ pass[d].seen.status = "pending" =>
              pass[d].result = "retry" /\ pass[d].seen.attempts < HookAttempts
        /\ hook[k].status = "pending" /\ pass[d].result # "ok" => g.status \in {"pending", "dead"}
    BY <1>7, RecordedFacts
  <1> HIDE DEF p, g
  <1>9. hook' \in [Keys -> Deliveries] /\ hook'[k] = g
        /\ \A j \in Keys : j # k => hook'[j] = hook[j]
    BY <1>1, <1>2, <1>6, <1>8
  <1>10. LetsGo(d, p)
    <2>1. p.stage = "idle" => p.work = {}
      BY <1>4, StartTypes
    <2>2. pages' \in [Keys -> Int]
      BY <1>1, <1>5 DEF HookTypeOK
    <2>3. \A j \in Keys : hook'[j].status = "absent" <=> hook[j].status = "absent"
      BY <1>7, <1>8, <1>9
    <2> QED
      BY <1>2, <1>3, <1>4, <1>5, <1>9, <2>1, <2>2, <2>3 DEF LetsGo
  <1>11. ASSUME ~Overrun, NEW j \in Keys
         PROVE  IF j \in Claimed(d) \ p.work THEN Freed(j)'
                ELSE hook'[j] = hook[j] /\ pages'[j] = pages[j]
    <2>1. Claimed(d) \ p.work = {k} /\ k \in Claimed(d)
      BY <1>k, <1>1, <1>4, <1>6 DEF Claimed
    <2>2. Freed(k)'
      <3>0. WindowInv /\ PageInv /\ LadderInv
        BY <1>11 DEF QueueInv
      <3>1. hook[k].status = "pending"
        BY <1>1, <1>6, <1>7, <2>1, <3>0 DEF WindowInv, ClaimOK, DeletedInv
      <3>2. pass[d].seen.status = "pending" /\ pass[d].seen.attempts = hook[k].attempts
        BY <1>k, <1>2, <3>0, <3>1 DEF WindowInv
      <3>3. pages[k] <= 1 /\ (pages[k] <= 0 \/ g.status = "delivered")
        BY <1>6, <1>8, <2>1, <3>0 DEF PageInv, Taken
      <3>4. /\ posts[k] \in Nat /\ aborts \in Nat /\ hook[k].attempts \in Nat
            /\ HookAttempts \in Nat
        BY <1>1, <1>6, <1>7, Limits DEF HookTypeOK, Deliveries
      <3>5. posts[k] <= hook[k].attempts
        BY <1>6, <2>1, <3>0, <3>1 DEF LadderInv
      <3>6. g.status = "pending" =>
               g.attempts < HookAttempts + aborts /\ posts[k] <= g.attempts
        BY <1>8, <3>2, <3>4, <3>5
      <3> QED
        BY <1>2, <1>5, <1>9, <3>3, <3>6 DEF Freed
    <2> QED
      BY <1>5, <1>9, <2>1, <2>2
  <1> QED
    BY <1>10, <1>11, LetsGoKeeps

\* The write of a row that was deleted raises, and the rest is released.
LEMMA WriteGoneKeeps ==
    ASSUME QueueInv, NEW d \in Dispatchers, WriteDelivery(d),
           hook[pass[d].at].status = "absent"
    PROVE  QueueInv'
  <1>k. PICK k : k = pass[d].at
    OBVIOUS
  <1>1. /\ HookTypeOK /\ ShapeInv /\ pass[d] \in Passes /\ hook \in [Keys -> Deliveries]
        /\ pass[d].work \in SUBSET Keys
    BY ClaimedKeys DEF QueueInv, HookTypeOK
  <1>2. /\ pass[d].stage = "write" /\ hook' = ReleasedAll(pass[d].work)
        /\ pass' = [pass EXCEPT ![d] = Resting]
        /\ UNCHANGED <<stream, consumer, subs, active, history, turns, aborts>>
    BY DEF WriteDelivery
  <1>3. UNCHANGED <<posts, pages, sinceOff, sinceHeld>>
    BY <1>2 DEF history
  <1>4. k \in Keys /\ k \notin pass[d].work /\ k # NoKey
    BY <1>k, <1>1, <1>2, StartTypes DEF ShapeInv
  <1>5. /\ hook' \in [Keys -> Deliveries]
        /\ \A j \in Keys : /\ hook'[j].status = "absent" <=> hook[j].status = "absent"
                           /\ j \in pass[d].work => hook'[j] = Released(hook[j])
                           /\ j \notin pass[d].work => hook'[j] = hook[j]
    BY <1>1, <1>2, ReleasedAllFacts
  <1>6. LetsGo(d, Resting)
    <2>1. pages' \in [Keys -> Int]
      BY <1>1, <1>3 DEF HookTypeOK
    <2> QED
      BY <1>2, <1>3, <1>5, <2>1, StartTypes DEF LetsGo
  <1>7. ASSUME ~Overrun, NEW j \in Keys
        PROVE  IF j \in Claimed(d) \ Resting.work THEN Freed(j)'
               ELSE hook'[j] = hook[j] /\ pages'[j] = pages[j]
    <2>1. Claimed(d) = pass[d].work \cup {k} /\ Resting.work = {}
      BY <1>k, <1>1, <1>4, StartTypes DEF Claimed
    <2>2. CASE j \in pass[d].work
      <3>1. Freed(j)'
        BY <1>2, <1>3, <1>5, <1>7, <2>2, ReleasedFreed
      <3> QED
        BY <2>1, <2>2, <3>1
    <2>3. CASE j = k
      <3>1. subs[k[1]] = "deleted"
        BY <1>k, <1>4, <1>7, <2>1 DEF QueueInv, WindowInv, ClaimOK
      <3>2. pages[k] <= 1
        BY <1>4, <1>7 DEF QueueInv, PageInv
      <3>3. hook'[k].status = "absent"
        BY <1>k, <1>4, <1>5
      <3>4. Freed(j)'
        BY <1>2, <1>3, <2>3, <3>1, <3>2, <3>3 DEF Freed
      <3> QED
        BY <2>1, <2>3, <3>4
    <2>4. CASE j \notin pass[d].work /\ j # k
      BY <1>3, <1>5, <2>1, <2>4
    <2> QED
      BY <2>2, <2>3, <2>4
  <1> QED
    BY <1>6, <1>7, LetsGoKeeps

\* A POST that nobody recorded is taken back.
LEMMA UnrecordedFacts ==
    ASSUME HookTypeOK, ShapeInv, NEW d \in Dispatchers, Unrecorded(d)
    PROVE  /\ pages' \in [Keys -> Int]
           /\ \A k \in Keys : pages'[k] = IF Taken(d, k) THEN pages[k] - 1 ELSE pages[k]
  <1>1. pages \in [Keys -> Int]
    BY DEF HookTypeOK
  <1>2. CASE pass[d].stage \in {"read", "write"} /\ pass[d].result = "ok"
    <2>1. pass[d].at \in Keys
      BY <1>2 DEF ShapeInv
    <2>2. pages' = [pages EXCEPT ![pass[d].at] = @ - 1]
      BY <1>2 DEF Unrecorded
    <2> QED
      BY <1>1, <1>2, <2>1, <2>2 DEF Taken
  <1>3. CASE ~(pass[d].stage \in {"read", "write"} /\ pass[d].result = "ok")
    BY <1>1, <1>3 DEF Unrecorded, Taken
  <1> QED
    BY <1>2, <1>3

\* Recording an outcome raises: the row stays claimed, the rest is released.
LEMMA AbortKeeps ==
    ASSUME QueueInv, NEW d \in Dispatchers, AbortBatch(d)
    PROVE  QueueInv'
  <1>k. PICK k : k = pass[d].at
    OBVIOUS
  <1>1. /\ HookTypeOK /\ ShapeInv /\ pass[d] \in Passes /\ hook \in [Keys -> Deliveries]
        /\ pass[d].work \in SUBSET Keys
    BY ClaimedKeys DEF QueueInv, HookTypeOK
  <1>2. /\ pass[d].stage \in {"read", "write"} /\ hook' = ReleasedAll(pass[d].work)
        /\ pass' = [pass EXCEPT ![d] = Resting] /\ Unrecorded(d) /\ aborts' = aborts + 1
        /\ UNCHANGED <<stream, consumer, subs, active, posts, sinceOff, sinceHeld, turns>>
    BY DEF AbortBatch
  <1>3. /\ pages' \in [Keys -> Int]
        /\ \A j \in Keys : pages'[j] = IF Taken(d, j) THEN pages[j] - 1 ELSE pages[j]
    BY <1>1, <1>2, UnrecordedFacts
  <1>4. k \in Keys /\ k \notin pass[d].work /\ k # NoKey
    BY <1>k, <1>1, <1>2, StartTypes DEF ShapeInv
  <1>5. /\ hook' \in [Keys -> Deliveries]
        /\ \A j \in Keys : /\ hook'[j].status = "absent" <=> hook[j].status = "absent"
                           /\ j \in pass[d].work => hook'[j] = Released(hook[j])
                           /\ j \notin pass[d].work => hook'[j] = hook[j]
    BY <1>1, <1>2, ReleasedAllFacts
  <1>6. LetsGo(d, Resting)
    BY <1>2, <1>3, <1>5, StartTypes DEF LetsGo
  <1>7. ASSUME ~Overrun, NEW j \in Keys
        PROVE  IF j \in Claimed(d) \ Resting.work THEN Freed(j)'
               ELSE hook'[j] = hook[j] /\ pages'[j] = pages[j]
    <2>1. Claimed(d) = pass[d].work \cup {k} /\ Resting.work = {}
      BY <1>k, <1>1, <1>4, StartTypes DEF Claimed
    <2>2. CASE j \in pass[d].work
      <3>1. pages'[j] = pages[j]
        BY <1>k, <1>3, <1>4, <2>2 DEF Taken
      <3>2. Freed(j)'
        BY <1>2, <1>5, <1>7, <2>2, <3>1, ReleasedFreed
      <3> QED
        BY <2>1, <2>2, <3>2
    <2>3. CASE j = k
      <3>1. hook'[j] = hook[j] /\ j \in Claimed(d)
        BY <1>4, <1>5, <2>1, <2>3
      <3>2. Freed(j)'
        BY <1>2, <1>3, <1>7, <3>1, DroppedFreed
      <3> QED
        BY <2>1, <2>3, <3>2
    <2>4. CASE j \notin pass[d].work /\ j # k
      BY <1>k, <1>3, <1>5, <2>1, <2>4 DEF Taken
    <2> QED
      BY <2>2, <2>3, <2>4
  <1> QED
    BY <1>6, <1>7, LetsGoKeeps

\* A replica dies: everything it had claimed waits for its window to pass.
LEMMA DiesKeeps ==
    ASSUME QueueInv, NEW d \in Dispatchers, DispatcherDies(d)
    PROVE  QueueInv'
  <1>1. HookTypeOK /\ ShapeInv
    BY DEF QueueInv
  <1>2. /\ pass' = [pass EXCEPT ![d] = Resting] /\ Unrecorded(d) /\ aborts' = aborts + 1
        /\ UNCHANGED <<stream, consumer, subs, active, hook, posts, sinceOff, sinceHeld, turns>>
    BY DEF DispatcherDies
  <1>3. /\ pages' \in [Keys -> Int]
        /\ \A j \in Keys : pages'[j] = IF Taken(d, j) THEN pages[j] - 1 ELSE pages[j]
    BY <1>1, <1>2, UnrecordedFacts
  <1>4. LetsGo(d, Resting)
    <2>1. hook' \in [Keys -> Deliveries]
      BY <1>1, <1>2 DEF HookTypeOK
    <2> QED
      BY <1>2, <1>3, <2>1, StartTypes DEF LetsGo
  <1>5. ASSUME ~Overrun, NEW j \in Keys
        PROVE  IF j \in Claimed(d) \ Resting.work THEN Freed(j)'
               ELSE hook'[j] = hook[j] /\ pages'[j] = pages[j]
    <2>1. CASE j \in Claimed(d)
      <3>1. Freed(j)'
        BY <1>2, <1>3, <1>5, <2>1, DroppedFreed
      <3> QED
        BY <2>1, <3>1, StartTypes
    <2>2. CASE j \notin Claimed(d)
      <3>1. ~Taken(d, j)
        BY <1>1, <2>2, StartTypes DEF Taken, Claimed
      <3> QED
        BY <1>2, <1>3, <2>2, <3>1
    <2> QED
      BY <2>1, <2>2
  <1> QED
    BY <1>4, <1>5, LetsGoKeeps

-----------------------------------------------------------------------------
(* Steps within a batch. *)

\* A tick that keeps its claims and its time, and reads its row if it is to write
\* it, keeps the window.
LEMMA WindowStays ==
    ASSUME QueueInv, ~Overrun, NEW d \in Dispatchers, NEW p \in Passes,
           pass' = [pass EXCEPT ![d] = p], hook' = hook, subs' = subs,
           (p.work \cup {p.at}) \ {NoKey} = Claimed(d),
           p.left = pass[d].left, pass[d].stage # "idle",
           p.stage = "write" => p.seen = hook[p.at]
    PROVE  WindowInv'
  <1>1. HookTypeOK /\ ShapeInv /\ WindowInv
    BY DEF QueueInv
  <1>2. /\ pass'[d] = p /\ Claimed(d)' = Claimed(d)
        /\ \A c \in Dispatchers : c # d => pass'[c] = pass[c] /\ Claimed(c)' = Claimed(c)
    BY <1>1, OneMoves
  <1>3. ASSUME NEW c \in Dispatchers
        PROVE  pass'[c].stage # "idle" => pass'[c].left > 0
    BY <1>1, <1>2 DEF WindowInv
  <1>4. ASSUME NEW c \in Dispatchers, NEW k \in Claimed(c)'
        PROVE  ClaimOK(c, k)'
    <2>1. ClaimOK(c, k) /\ pass'[c].left = pass[c].left
      BY <1>1, <1>2 DEF WindowInv
    <2> QED
      BY <2>1 DEF ClaimOK
  <1>5. ASSUME NEW b \in Dispatchers, NEW c \in Dispatchers, b # c
        PROVE  Claimed(b)' \cap Claimed(c)' = {}
    BY <1>1, <1>2, <1>5 DEF WindowInv
  <1>6. ASSUME NEW c \in Dispatchers, pass'[c].stage = "write",
               hook'[pass'[c].at].status = "pending"
        PROVE  /\ pass'[c].seen.status = "pending"
               /\ pass'[c].seen.attempts = hook'[pass'[c].at].attempts
    BY <1>1, <1>2, <1>6 DEF WindowInv
  <1> QED
    BY <1>3, <1>4, <1>5, <1>6 DEF WindowInv

\* The switch is on: the tick takes the delivery.
LEMMA TakeKeeps ==
    ASSUME QueueInv, NEW d \in Dispatchers, NEW k \in Keys, Check(d, k), ~SwitchedOff(k)
    PROVE  QueueInv'
  <1>1. /\ HookTypeOK /\ ShapeInv /\ DeletedInv /\ SwitchInv /\ HeldInv
        /\ pass[d] \in Passes /\ pass[d].work \in SUBSET Keys
    BY ClaimedKeys DEF QueueInv, HookTypeOK
  <1>2. PICK next \in Prepared :
           pass' = [pass EXCEPT ![d] = [stage |-> next[1], work |-> pass[d].work \ {k}, at |-> k,
                                        result |-> next[2], seen |-> NoDelivery,
                                        left |-> pass[d].left]]
    BY DEF Check
  <1> DEFINE p == [stage |-> next[1], work |-> pass[d].work \ {k}, at |-> k,
                   result |-> next[2], seen |-> NoDelivery, left |-> pass[d].left]
  <1>3. /\ pass[d].stage = "check" /\ k \in pass[d].work /\ UNCHANGED hook
        /\ UNCHANGED <<stream, consumer, subs, active, history, turns, aborts>>
    BY DEF Check
  <1>4. UNCHANGED <<posts, pages, sinceOff, sinceHeld, handled, tries, dropped>>
    BY <1>3 DEF history, consumer
  <1>5. next[1] \in {"send", "read"} /\ next[2] \in {"refused", "retry"}
    BY DEF Prepared
  <1>6. p \in Passes
    BY <1>1, <1>5, StartTypes DEF Passes, Results
  <1>7. /\ p.stage \in {"send", "read"} /\ p.work = pass[d].work \ {k} /\ p.at = k
        /\ p.result # "ok" /\ p.left = pass[d].left
    BY <1>5
  <1>8. pass' = [pass EXCEPT ![d] = p]
    BY <1>2
  <1> HIDE DEF p
  <1>9. /\ pass' \in [Dispatchers -> Passes] /\ pass'[d] = p
        /\ Claimed(d)' = (p.work \cup {p.at}) \ {NoKey}
        /\ \A c \in Dispatchers : c # d => pass'[c] = pass[c] /\ Claimed(c)' = Claimed(c)
    BY <1>1, <1>6, <1>8, OneMoves
  <1>10. (p.work \cup {p.at}) \ {NoKey} = Claimed(d)
    BY <1>1, <1>3, <1>7, StartTypes DEF Claimed, ShapeInv
  <1>11. HookTypeOK'
    BY <1>1, <1>3, <1>4, <1>9 DEF HookTypeOK
  <1>12. ShapeInv'
    BY <1>1, <1>7, <1>9 DEF ShapeInv
  <1>13. DeletedInv'
    BY <1>1, <1>3 DEF DeletedInv
  <1>14. SwitchInv'
    <2>1. subs[k[1]] = "on"
      BY DEF SwitchedOff
    <2>2. ASSUME NEW c \in Dispatchers, NEW s \in Subs
          PROVE  /\ sinceOff'[<<c, s>>] <= 1
                 /\ subs'[s] = "on" => sinceOff'[<<c, s>>] = 0
                 /\ pass'[c].stage = "send" /\ pass'[c].at[1] = s => sinceOff'[<<c, s>>] = 0
      BY <1>1, <1>3, <1>4, <1>7, <1>9, <2>1 DEF SwitchInv
    <2> QED
      BY <2>2 DEF SwitchInv
  <1>15. HeldInv'
    <2>1. IsFiniteSet(pass[d].work) /\ Cardinality(pass[d].work) \in Nat
      BY <1>1, FiniteKeys
    <2>2. Cardinality(p.work) = Cardinality(pass[d].work) - 1
      <3>1. PICK W : W = pass[d].work
        OBVIOUS
      <3>2. k \in W /\ IsFiniteSet(W) /\ p.work = W \ {k}
        BY <1>3, <1>7, <2>1, <3>1
      <3>3. Cardinality(W \ {k}) = Cardinality(W) - 1
        BY <3>2, FS_RemoveElement
      <3> QED
        BY <3>1, <3>2, <3>3
    <2>3. sinceHeld[d] \in Nat /\ HookBatch \in Nat
      BY <1>1, Limits DEF HookTypeOK
    <2>4. sinceHeld[d] + Cardinality(p.work) + (IF p.stage = "send" THEN 1 ELSE 0) <= HookBatch
      <3>1. sinceHeld[d] + Cardinality(pass[d].work) + 0 <= HookBatch
        BY <1>1, <1>3 DEF HeldInv
      <3> QED
        BY <2>1, <2>2, <2>3, <3>1
    <2>5. ASSUME NEW c \in Dispatchers
          PROVE  /\ sinceHeld'[c] + Cardinality(pass'[c].work)
                       + (IF pass'[c].stage = "send" THEN 1 ELSE 0) <= HookBatch
                 /\ active' => sinceHeld'[c] = 0
      <3>1. CASE c = d
        BY <1>1, <1>3, <1>4, <1>9, <2>4, <3>1 DEF HeldInv
      <3>2. CASE c # d
        BY <1>1, <1>3, <1>4, <1>9, <3>2 DEF HeldInv
      <3> QED
        BY <3>1, <3>2
    <2> QED
      BY <2>5 DEF HeldInv
  <1>16. ASSUME ~Overrun
         PROVE  WindowInv' /\ PageInv' /\ LadderInv'
    <2>0. PageInv /\ LadderInv
      BY <1>16 DEF QueueInv
    <2>1. WindowInv'
      BY <1>3, <1>6, <1>7, <1>8, <1>10, <1>16, WindowStays
    <2>2. \A c \in Dispatchers : Claimed(c)' = Claimed(c)
      BY <1>9, <1>10
    <2>3. ASSUME NEW c \in Dispatchers, NEW j \in Keys
          PROVE  /\ Taken(c, j)' <=> Taken(c, j)
                 /\ Unsent(c, j)' => Unsent(c, j)
      <3>1. CASE c = d
        BY <1>3, <1>7, <1>9, <3>1 DEF Taken, Unsent
      <3>2. CASE c # d
        BY <1>9, <3>2 DEF Taken, Unsent
      <3> QED
        BY <3>1, <3>2
    <2>4. PageInv'
      BY <1>3, <1>4, <2>0, <2>2, <2>3 DEF PageInv
    <2>5. LadderInv'
      BY <1>3, <1>4, <2>0, <2>2, <2>3 DEF LadderInv
    <2> QED
      BY <2>1, <2>4, <2>5
  <1> QED
    BY <1>11, <1>12, <1>13, <1>14, <1>15, <1>16 DEF QueueInv

\* The POST.
LEMMA SendKeeps ==
    ASSUME QueueInv, NEW d \in Dispatchers, NEW result \in Results, Send(d, result)
    PROVE  QueueInv'
  <1>k. PICK k : k = pass[d].at
    OBVIOUS
  <1> DEFINE p == [pass[d] EXCEPT !.stage = "read", !.result = result]
  <1>1. /\ HookTypeOK /\ ShapeInv /\ DeletedInv /\ SwitchInv /\ HeldInv
        /\ pass[d] \in Passes /\ pass[d].work \in SUBSET Keys
        /\ pass \in [Dispatchers -> Passes]
    BY ClaimedKeys DEF QueueInv, HookTypeOK
  <1>2. /\ pass[d].stage = "send"
        /\ pass' = [pass EXCEPT ![d].stage = "read", ![d].result = result]
        /\ posts' = [posts EXCEPT ![k] = @ + 1]
        /\ pages' = [pages EXCEPT ![k] = IF result = "ok" THEN @ + 1 ELSE @]
        /\ sinceOff' = [sinceOff EXCEPT ![<<d, k[1]>>] = IF subs[k[1]] = "on" THEN @ ELSE @ + 1]
        /\ sinceHeld' = [sinceHeld EXCEPT ![d] = IF active THEN @ ELSE @ + 1]
        /\ UNCHANGED <<stream, consumer, subs, active, hook, turns, aborts>>
    BY <1>k DEF Send
  <1>3. k \in Keys /\ k \notin pass[d].work /\ k # NoKey /\ k[1] \in Subs
    BY <1>k, <1>1, <1>2, StartTypes DEF ShapeInv, Keys
  <1>4. pass' = [pass EXCEPT ![d] = p]
    BY <1>1, <1>2
  <1>5. p \in Passes
    BY <1>1 DEF Passes
  <1>6. /\ p.stage = "read" /\ p.work = pass[d].work /\ p.at = k
        /\ p.result = result /\ p.left = pass[d].left
    BY <1>k, <1>1 DEF Passes
  <1> HIDE DEF p
  <1>7. /\ pass' \in [Dispatchers -> Passes] /\ pass'[d] = p
        /\ Claimed(d)' = (p.work \cup {p.at}) \ {NoKey}
        /\ \A c \in Dispatchers : c # d => pass'[c] = pass[c] /\ Claimed(c)' = Claimed(c)
    BY <1>1, <1>4, <1>5, OneMoves
  <1>8. (p.work \cup {p.at}) \ {NoKey} = Claimed(d) /\ k \in Claimed(d)
    BY <1>k, <1>3, <1>6 DEF Claimed
  <1>t. /\ posts \in [Keys -> Nat] /\ pages \in [Keys -> Int]
        /\ sinceOff \in [Dispatchers \X Subs -> Nat] /\ sinceHeld \in [Dispatchers -> Nat]
        /\ <<d, k[1]>> \in Dispatchers \X Subs
    BY <1>1, <1>3 DEF HookTypeOK
  <1>9. HookTypeOK'
    <2>p. posts' \in [Keys -> Nat]
      <3>1. posts' = [posts EXCEPT ![k] = @ + 1]
        BY <1>2
      <3> QED
        BY <1>t, <1>3, <3>1
    <2>1. pages' \in [Keys -> Int]
      <3> DEFINE n == IF result = "ok" THEN pages[k] + 1 ELSE pages[k]
      <3>1. n \in Int
        BY <1>t, <1>3
      <3>2. pages' = [pages EXCEPT ![k] = n]
        BY <1>2
      <3> HIDE DEF n
      <3> QED
        BY <1>t, <3>1, <3>2
    <2>2. sinceOff' \in [Dispatchers \X Subs -> Nat] /\ sinceHeld' \in [Dispatchers -> Nat]
      BY <1>t, <1>2
    <2> QED
      BY <1>1, <1>2, <1>7, <2>p, <2>1, <2>2 DEF HookTypeOK, consumer
  <1>10. ShapeInv'
    BY <1>1, <1>3, <1>6, <1>7 DEF ShapeInv
  <1>11. DeletedInv'
    BY <1>1, <1>2 DEF DeletedInv
  <1>12. SwitchInv'
    <2>1. sinceOff[<<d, k[1]>>] = 0
      BY <1>k, <1>1, <1>2, <1>3 DEF SwitchInv
    <2>2. ASSUME NEW c \in Dispatchers, NEW s \in Subs
          PROVE  /\ sinceOff'[<<c, s>>] <= 1
                 /\ subs'[s] = "on" => sinceOff'[<<c, s>>] = 0
                 /\ pass'[c].stage = "send" /\ pass'[c].at[1] = s => sinceOff'[<<c, s>>] = 0
      <3>1. <<c, s>> \in Dispatchers \X Subs
        OBVIOUS
      <3>2. CASE c = d /\ s = k[1]
        <4>1. sinceOff'[<<c, s>>] = IF subs[s] = "on" THEN 0 ELSE 1
          BY <1>t, <1>2, <2>1, <3>2
        <4> QED
          BY <1>2, <1>6, <1>7, <3>2, <4>1
      <3>3. CASE c # d \/ s # k[1]
        <4>1. sinceOff'[<<c, s>>] = sinceOff[<<c, s>>]
          BY <1>t, <1>2, <3>1, <3>3
        <4> QED
          BY <1>1, <1>2, <1>6, <1>7, <4>1 DEF SwitchInv
      <3> QED
        BY <3>2, <3>3
    <2> QED
      BY <2>2 DEF SwitchInv
  <1>13. HeldInv'
    <2>1. Cardinality(pass[d].work) \in Nat /\ sinceHeld[d] \in Nat /\ HookBatch \in Nat
      BY <1>t, <1>1, FiniteKeys, Limits
    <2>2. /\ sinceHeld[d] + Cardinality(pass[d].work) + 1 <= HookBatch
          /\ active => sinceHeld[d] = 0
      BY <1>1, <1>2 DEF HeldInv
    <2>3. sinceHeld'[d] = IF active THEN sinceHeld[d] ELSE sinceHeld[d] + 1
      BY <1>t, <1>2
    <2>4. ASSUME NEW c \in Dispatchers
          PROVE  /\ sinceHeld'[c] + Cardinality(pass'[c].work)
                       + (IF pass'[c].stage = "send" THEN 1 ELSE 0) <= HookBatch
                 /\ active' => sinceHeld'[c] = 0
      <3>1. CASE c = d
        <4>1. sinceHeld'[d] + Cardinality(pass[d].work) + 0 <= HookBatch
          BY <2>1, <2>2, <2>3
        <4> QED
          BY <1>2, <1>6, <1>7, <2>2, <2>3, <3>1, <4>1
      <3>2. CASE c # d
        <4>1. sinceHeld'[c] = sinceHeld[c]
          BY <1>t, <1>2, <3>2
        <4> QED
          BY <1>1, <1>2, <1>7, <3>2, <4>1 DEF HeldInv
      <3> QED
        BY <3>1, <3>2
    <2> QED
      BY <2>4 DEF HeldInv
  <1>14. ASSUME ~Overrun
         PROVE  WindowInv' /\ PageInv' /\ LadderInv'
    <2>0. WindowInv /\ PageInv /\ LadderInv
      BY <1>14 DEF QueueInv
    <2>1. WindowInv'
      BY <1>2, <1>4, <1>5, <1>6, <1>8, <1>14, WindowStays
    <2>2. \A c \in Dispatchers : Claimed(c)' = Claimed(c)
      BY <1>7, <1>8
    <2>3. \A c \in Dispatchers : c # d => k \notin Claimed(c)
      BY <1>8, <2>0 DEF WindowInv
    <2>4. ~Taken(d, k) /\ Unsent(d, k)
      BY <1>k, <1>2 DEF Taken, Unsent
    <2>5. pages[k] <= 0 /\ pages[k] \in Int
      BY <1>t, <1>3, <1>8, <2>0, <2>4 DEF PageInv
    <2>6. ASSUME NEW j \in Keys
          PROVE  /\ pages'[j] <= 1
                 /\ \A c \in Dispatchers : j \in Claimed(c)' /\ ~Taken(c, j)' => pages'[j] <= 0
                 /\ \/ pages'[j] <= 0
                    \/ hook'[j].status = "delivered"
                    \/ subs'[j[1]] = "deleted"
                    \/ \E c \in Dispatchers : Taken(c, j)'
      <3>1. CASE j = k
        <4>1. pages'[k] = IF result = "ok" THEN pages[k] + 1 ELSE pages[k]
          BY <1>t, <1>2, <1>3
        <4>2. result = "ok" => Taken(d, k)'
          BY <1>6, <1>7 DEF Taken
        <4>3. \A c \in Dispatchers : k \in Claimed(c)' => c = d
          BY <2>2, <2>3
        <4> QED
          BY <2>5, <3>1, <4>1, <4>2, <4>3
      <3>2. CASE j # k
        <4>1. pages'[j] = pages[j]
          BY <1>t, <1>2, <3>2
        <4>2. ASSUME NEW c \in Dispatchers PROVE Taken(c, j)' <=> Taken(c, j)
          <5>1. CASE c = d
            BY <1>k, <1>6, <1>7, <3>2, <5>1 DEF Taken
          <5>2. CASE c # d
            BY <1>7, <5>2 DEF Taken
          <5> QED
            BY <5>1, <5>2
        <4> QED
          BY <1>2, <2>0, <2>2, <4>1, <4>2 DEF PageInv
      <3> QED
        BY <3>1, <3>2
    <2>7. PageInv'
      BY <2>6 DEF PageInv
    <2>8. ASSUME NEW j \in Keys
          PROVE  /\ posts'[j] <= HookAttempts + aborts'
                 /\ \A c \in Dispatchers :
                       j \in Claimed(c)' =>
                          /\ hook'[j].status = "pending" =>
                                /\ hook'[j].attempts <= HookAttempts + aborts'
                                /\ posts'[j] <= hook'[j].attempts
                          /\ hook'[j].status = "pending" /\ Unsent(c, j)' =>
                                posts'[j] < hook'[j].attempts
                          /\ Unsent(c, j)' => posts'[j] < HookAttempts + aborts'
                 /\ hook'[j].status = "pending" /\ (\A c \in Dispatchers : j \notin Claimed(c)')
                      => /\ hook'[j].attempts < HookAttempts + aborts'
                         /\ posts'[j] <= hook'[j].attempts
                 /\ hook'[j].status = "absent" /\ subs'[j[1]] # "deleted" => posts'[j] = 0
      <3>0. /\ posts[j] \in Nat /\ aborts \in Nat /\ hook[j].attempts \in Nat
            /\ HookAttempts \in Nat
        BY <1>t, <1>1, Limits DEF HookTypeOK, Deliveries
      <3>1. CASE j = k
        <4>1. posts'[j] = posts[j] + 1
          BY <1>t, <1>2, <3>1
        <4>2. /\ posts[j] < HookAttempts + aborts
              /\ hook[j].status = "pending" =>
                    /\ hook[j].attempts <= HookAttempts + aborts
                    /\ posts[j] < hook[j].attempts
          BY <1>8, <2>0, <2>4, <3>1 DEF LadderInv
        <4>3. \A c \in Dispatchers : j \in Claimed(c)' => c = d
          BY <2>2, <2>3, <3>1
        <4>4. ~Unsent(d, j)' /\ j \in Claimed(d)'
          BY <1>3, <1>6, <1>7, <1>8, <3>1 DEF Unsent
        <4>5. hook[j].status = "absent" => subs[j[1]] = "deleted"
          BY <1>8, <2>0, <3>1 DEF WindowInv, ClaimOK
        <4> QED
          BY <1>2, <3>0, <4>1, <4>2, <4>3, <4>4, <4>5
      <3>2. CASE j # k
        <4>1. posts'[j] = posts[j]
          BY <1>t, <1>2, <3>2
        <4>2. \A c \in Dispatchers : Unsent(c, j)' => Unsent(c, j)
          BY <1>6, <1>7 DEF Unsent
        <4> QED
          BY <1>2, <2>0, <2>2, <4>1, <4>2 DEF LadderInv
      <3> QED
        BY <3>1, <3>2
    <2>9. LadderInv'
      BY <2>8 DEF LadderInv
    <2> QED
      BY <2>1, <2>7, <2>9
  <1> QED
    BY <1>9, <1>10, <1>11, <1>12, <1>13, <1>14 DEF QueueInv

\* The row is read, to be written.
LEMMA ReadKeeps ==
    ASSUME QueueInv, NEW d \in Dispatchers, ReadDelivery(d),
           hook[pass[d].at].status \notin {"absent", "delivered"}
    PROVE  QueueInv'
  <1>k. PICK k : k = pass[d].at
    OBVIOUS
  <1> DEFINE p == [pass[d] EXCEPT !.stage = "write", !.seen = hook[k]]
  <1>1. /\ HookTypeOK /\ ShapeInv /\ DeletedInv /\ SwitchInv /\ HeldInv
        /\ pass[d] \in Passes /\ pass[d].work \in SUBSET Keys
        /\ pass \in [Dispatchers -> Passes] /\ hook \in [Keys -> Deliveries]
    BY ClaimedKeys DEF QueueInv, HookTypeOK
  <1>2. /\ pass[d].stage = "read"
        /\ pass' = [pass EXCEPT ![d].stage = "write", ![d].seen = hook[k]]
        /\ UNCHANGED <<stream, consumer, subs, active, hook, history, turns, aborts>>
    BY <1>k DEF ReadDelivery
  <1>3. k \in Keys /\ k \notin pass[d].work /\ k # NoKey /\ hook[k] \in Deliveries
    BY <1>k, <1>1, <1>2, StartTypes DEF ShapeInv
  <1>4. pass' = [pass EXCEPT ![d] = p]
    BY <1>1, <1>2
  <1>5. p \in Passes
    BY <1>1, <1>3 DEF Passes
  <1>6. /\ p.stage = "write" /\ p.work = pass[d].work /\ p.at = k /\ p.seen = hook[k]
        /\ p.result = pass[d].result /\ p.left = pass[d].left
    BY <1>k, <1>1 DEF Passes
  <1> HIDE DEF p
  <1>7. /\ pass' \in [Dispatchers -> Passes] /\ pass'[d] = p
        /\ Claimed(d)' = (p.work \cup {p.at}) \ {NoKey}
        /\ \A c \in Dispatchers : c # d => pass'[c] = pass[c] /\ Claimed(c)' = Claimed(c)
    BY <1>1, <1>4, <1>5, OneMoves
  <1>8. (p.work \cup {p.at}) \ {NoKey} = Claimed(d)
    BY <1>k, <1>3, <1>6 DEF Claimed
  <1>9. UNCHANGED <<posts, pages, sinceOff, sinceHeld, handled, tries, dropped>>
    BY <1>2 DEF history, consumer
  <1>10. HookTypeOK'
    BY <1>1, <1>2, <1>7, <1>9 DEF HookTypeOK
  <1>11. ShapeInv'
    BY <1>1, <1>3, <1>6, <1>7 DEF ShapeInv
  <1>12. DeletedInv'
    BY <1>1, <1>2 DEF DeletedInv
  <1>13. SwitchInv'
    BY <1>1, <1>2, <1>6, <1>7, <1>9, ZenonT(40) DEF SwitchInv
  <1>14. HeldInv'
    BY <1>1, <1>2, <1>6, <1>7, <1>9 DEF HeldInv
  <1>15. ASSUME ~Overrun
         PROVE  WindowInv' /\ PageInv' /\ LadderInv'
    <2>0. PageInv /\ LadderInv
      BY <1>15 DEF QueueInv
    <2>1. WindowInv'
      BY <1>2, <1>4, <1>5, <1>6, <1>8, <1>15, WindowStays
    <2>2. \A c \in Dispatchers : Claimed(c)' = Claimed(c)
      BY <1>7, <1>8
    <2>3. ASSUME NEW c \in Dispatchers, NEW j \in Keys
          PROVE  /\ Taken(c, j)' <=> Taken(c, j)
                 /\ Unsent(c, j)' => Unsent(c, j)
      <3>1. CASE c = d
        BY <1>k, <1>2, <1>6, <1>7, <3>1 DEF Taken, Unsent
      <3>2. CASE c # d
        BY <1>7, <3>2 DEF Taken, Unsent
      <3> QED
        BY <3>1, <3>2
    <2>4. PageInv'
      BY <1>2, <1>9, <2>0, <2>2, <2>3 DEF PageInv
    <2>5. LadderInv'
      BY <1>2, <1>9, <2>0, <2>2, <2>3 DEF LadderInv
    <2> QED
      BY <2>1, <2>4, <2>5
  <1> QED
    BY <1>10, <1>11, <1>12, <1>13, <1>14, <1>15 DEF QueueInv

-----------------------------------------------------------------------------
(* The claim. *)

\* A row that is due belongs to no tick whose window lasts.
LEMMA DueIsFree ==
    ASSUME QueueInv, ~Overrun, NEW k \in DueDeliveries, NEW c \in Dispatchers
    PROVE  k \notin Claimed(c)
  <1>1. HookTypeOK /\ ShapeInv /\ WindowInv
    BY DEF QueueInv
  <1>2. k \in Keys /\ hook[k].due = 0 /\ subs[k[1]] = "on"
    BY DEF DueDeliveries
  <1>3. SUFFICES ASSUME k \in Claimed(c) PROVE FALSE
    OBVIOUS
  <1>4. pass[c].left \in Nat /\ pass[c] \in Passes
    BY <1>1 DEF HookTypeOK, Passes
  <1>5. pass[c].stage # "idle"
    BY <1>1, <1>2, <1>3, StartTypes DEF ShapeInv, Claimed
  <1>6. pass[c].left > 0 /\ ClaimOK(c, k)
    BY <1>1, <1>3, <1>5 DEF WindowInv
  <1> QED
    BY <1>2, <1>4, <1>6 DEF ClaimOK

\* A batch is claimed.
LEMMA ClaimKeeps ==
    ASSUME QueueInv, NEW d \in Dispatchers, NEW batch \in SUBSET DueDeliveries,
           ClaimDeliveries(d, batch)
    PROVE  QueueInv'
  <1> DEFINE w == Window(Cardinality(batch))
             p == Opened(batch, w)
  <1>1. /\ HookTypeOK /\ ShapeInv /\ DeletedInv /\ SwitchInv /\ HeldInv
        /\ hook \in [Keys -> Deliveries]
    BY DEF QueueInv, HookTypeOK
  <1>2. /\ pass[d].stage = "idle" /\ batch # {} /\ Cardinality(batch) <= HookBatch
        /\ hook' = [k \in Keys |-> IF k \in batch
                                   THEN [hook[k] EXCEPT !.attempts = @ + 1, !.due = w]
                                   ELSE hook[k]]
        /\ pass' = [pass EXCEPT ![d] = p]
        /\ UNCHANGED <<stream, consumer, subs, active, history, turns, aborts>>
    BY DEF ClaimDeliveries, Opened, Window, BatchTime
  <1>3. /\ batch \in SUBSET Keys
        /\ \A k \in batch : hook[k].status = "pending" /\ subs[k[1]] = "on" /\ active
    BY DEF DueDeliveries
  <1>4. Cardinality(batch) \in Nat /\ w \in Nat /\ w > 0 /\ active
    <2>1. Cardinality(batch) \in Nat
      BY <1>3, FiniteKeys
    <2>2. w \in Nat /\ w > 0
      <3>1. \A x, y \in Nat : x > 0 => x * (y + 2) \in Nat /\ x * (y + 2) > 0
        <4>1. ASSUME NEW x \in Nat, NEW y \in Nat, x > 0
              PROVE  x * (y + 2) \in Nat /\ x * (y + 2) > 0
          <5>1. x * (y + 2) = x * y + 2 * x
            OBVIOUS
          <5>2. x * y \in Nat
            OBVIOUS
          <5> QED
            BY <4>1, <5>1, <5>2
        <4> QED
          BY <4>1
      <3> QED
        BY <2>1, <3>1, Limits DEF Window
    <2> QED
      BY <1>2, <1>3, <2>1, <2>2
  <1>5. UNCHANGED <<posts, pages, sinceOff, sinceHeld, handled, tries, dropped>>
    BY <1>2 DEF history, consumer
  <1>6. /\ p \in Passes /\ p.stage = "check" /\ p.work = batch /\ p.at = NoKey /\ p.left = w
    BY <1>3, <1>4, OpenedType
  <1> HIDE DEF w, p
  <1>7. /\ pass' \in [Dispatchers -> Passes] /\ pass'[d] = p
        /\ Claimed(d)' = batch
        /\ \A c \in Dispatchers : c # d => pass'[c] = pass[c] /\ Claimed(c)' = Claimed(c)
    <2>1. NoKey \notin batch
      BY <1>3, StartTypes
    <2>2. pass' = [pass EXCEPT ![d] = p]
      BY <1>2
    <2>3. /\ pass' \in [Dispatchers -> Passes] /\ pass'[d] = p
          /\ Claimed(d)' = (p.work \cup {p.at}) \ {NoKey}
          /\ \A c \in Dispatchers : c # d => pass'[c] = pass[c] /\ Claimed(c)' = Claimed(c)
      BY <1>1, <1>6, <2>2, OneMoves
    <2>4. (p.work \cup {p.at}) \ {NoKey} = batch
      BY <1>6, <2>1
    <2> QED
      BY <2>3, <2>4
  <1>8. /\ hook' \in [Keys -> Deliveries]
        /\ \A k \in Keys : k \notin batch => hook'[k] = hook[k]
        /\ \A k \in batch : /\ hook'[k].status = "pending" /\ hook'[k].due = w
                            /\ hook'[k].attempts = hook[k].attempts + 1
    <2>1. ASSUME NEW k \in Keys
          PROVE  LET g == [hook[k] EXCEPT !.attempts = @ + 1, !.due = w] IN
                 g \in Deliveries /\ g.due = w /\ g.attempts = hook[k].attempts + 1
                 /\ g.status = hook[k].status
      <3>1. hook[k] \in Deliveries /\ hook[k].attempts \in Nat /\ w \in Nat
        BY <1>1, <1>4 DEF Deliveries
      <3>2. PICK n \in Nat : n = hook[k].attempts + 1
        BY <3>1
      <3>3. [hook[k] EXCEPT !.attempts = @ + 1, !.due = w]
              = [hook[k] EXCEPT !.attempts = n, !.due = w]
        BY <3>2
      <3>4. PICK g : g = [hook[k] EXCEPT !.attempts = n, !.due = w]
        OBVIOUS
      <3>5. g \in Deliveries /\ g.due = w /\ g.attempts = n /\ g.status = hook[k].status
        BY <3>1, <3>4 DEF Deliveries
      <3> QED
        BY <3>2, <3>3, <3>4, <3>5
    <2>2. hook' \in [Keys -> Deliveries]
      BY <1>1, <1>2, <2>1
    <2>3. \A k \in Keys : k \notin batch => hook'[k] = hook[k]
      BY <1>2
    <2>4. ASSUME NEW k \in batch
          PROVE  /\ hook'[k].status = "pending" /\ hook'[k].due = w
                 /\ hook'[k].attempts = hook[k].attempts + 1
      BY <1>2, <1>3, <2>1
    <2> QED
      BY <2>2, <2>3, <2>4
  <1>9. HookTypeOK'
    BY <1>1, <1>2, <1>5, <1>7, <1>8 DEF HookTypeOK
  <1>10. ShapeInv'
    BY <1>1, <1>6, <1>7 DEF ShapeInv
  <1>11. DeletedInv'
    BY <1>1, <1>2, <1>3, <1>8 DEF DeletedInv
  <1>12. SwitchInv'
    BY <1>1, <1>2, <1>5, <1>6, <1>7 DEF SwitchInv
  <1>13. HeldInv'
    <2>1. sinceHeld[d] = 0
      BY <1>1, <1>4 DEF HeldInv
    <2>2. ASSUME NEW c \in Dispatchers
          PROVE  /\ sinceHeld'[c] + Cardinality(pass'[c].work)
                       + (IF pass'[c].stage = "send" THEN 1 ELSE 0) <= HookBatch
                 /\ active' => sinceHeld'[c] = 0
      <3>1. CASE c = d
        <4>1. 0 + Cardinality(batch) + 0 <= HookBatch
          <5>1. PICK n : n = Cardinality(batch)
            OBVIOUS
          <5>2. n \in Nat /\ n <= HookBatch
            BY <1>2, <1>4, <5>1
          <5>3. 0 + n + 0 <= HookBatch
            BY <5>2
          <5> QED
            BY <5>1, <5>3
        <4> QED
          BY <1>5, <1>6, <1>7, <2>1, <3>1, <4>1
      <3>2. CASE c # d
        BY <1>1, <1>2, <1>5, <1>7, <3>2 DEF HeldInv
      <3> QED
        BY <3>1, <3>2
    <2> QED
      BY <2>2 DEF HeldInv
  <1>14. ASSUME ~Overrun
         PROVE  WindowInv' /\ PageInv' /\ LadderInv'
    <2>0. WindowInv /\ PageInv /\ LadderInv
      BY <1>14 DEF QueueInv
    <2>1. \A k \in batch : \A c \in Dispatchers : k \notin Claimed(c)
      BY <1>14, DueIsFree
    <2>2. \A c \in Dispatchers : Claimed(c) \subseteq Keys /\ pass[c] \in Passes
      BY <1>1, ClaimedKeys
    <2>3. ASSUME NEW c \in Dispatchers, NEW k \in Claimed(c), c # d
          PROVE  hook'[k] = hook[k] /\ k \in Keys /\ k \notin batch
      BY <1>8, <2>1, <2>2
    <2>4. WindowInv'
      <3>1. ASSUME NEW c \in Dispatchers
            PROVE  pass'[c].stage # "idle" => pass'[c].left > 0
        BY <1>4, <1>6, <1>7, <2>0 DEF WindowInv
      <3>2. ASSUME NEW c \in Dispatchers, NEW k \in Claimed(c)'
            PROVE  ClaimOK(c, k)'
        <4>1. CASE c = d
          <5>1. k \in batch /\ hook[k].attempts \in Nat
            BY <1>1, <1>3, <1>7, <4>1 DEF Deliveries
          <5> QED
            BY <1>4, <1>6, <1>7, <1>8, <4>1, <5>1 DEF ClaimOK
        <4>2. CASE c # d
          <5>1. k \in Claimed(c) /\ pass'[c] = pass[c]
            BY <1>7, <4>2
          <5>2. ClaimOK(c, k)
            BY <2>0, <5>1 DEF WindowInv
          <5> QED
            BY <1>2, <2>3, <4>2, <5>1, <5>2 DEF ClaimOK
        <4> QED
          BY <4>1, <4>2
      <3>3. ASSUME NEW b \in Dispatchers, NEW c \in Dispatchers, b # c
            PROVE  Claimed(b)' \cap Claimed(c)' = {}
        <4>1. CASE b # d /\ c # d
          BY <1>7, <2>0, <3>3, <4>1 DEF WindowInv
        <4>2. CASE b = d \/ c = d
          BY <1>7, <2>1, <3>3, <4>2
        <4> QED
          BY <4>1, <4>2
      <3>4. ASSUME NEW c \in Dispatchers, pass'[c].stage = "write",
                   hook'[pass'[c].at].status = "pending"
            PROVE  /\ pass'[c].seen.status = "pending"
                   /\ pass'[c].seen.attempts = hook'[pass'[c].at].attempts
        <4>1. c # d /\ pass'[c] = pass[c]
          BY <1>6, <1>7, <3>4
        <4>2. pass[c].at \in Claimed(c)
          BY <1>1, <3>4, <4>1, StartTypes, ClaimedKeys DEF ShapeInv
        <4>3. hook'[pass[c].at] = hook[pass[c].at]
          BY <2>3, <4>1, <4>2
        <4> QED
          BY <2>0, <3>4, <4>1, <4>3 DEF WindowInv
      <3> QED
        BY <3>1, <3>2, <3>3, <3>4 DEF WindowInv
    <2>5. ASSUME NEW c \in Dispatchers, NEW k \in Keys
          PROVE  /\ Taken(c, k)' <=> Taken(c, k)
                 /\ c # d => (Unsent(c, k)' <=> Unsent(c, k))
      BY <1>2, <1>6, <1>7 DEF Taken, Unsent
    <2>6. ASSUME NEW k \in Keys
          PROVE  /\ pages'[k] <= 1
                 /\ \A c \in Dispatchers : k \in Claimed(c)' /\ ~Taken(c, k)' => pages'[k] <= 0
                 /\ \/ pages'[k] <= 0
                    \/ hook'[k].status = "delivered"
                    \/ subs'[k[1]] = "deleted"
                    \/ \E c \in Dispatchers : Taken(c, k)'
      <3>1. CASE k \in batch
        <4>1. ASSUME NEW c \in Dispatchers
              PROVE  ~Taken(c, k)
          <5>1. k \notin Claimed(c) /\ k # NoKey
            BY <2>1, <3>1, StartTypes
          <5>2. pass[c].at # k
            BY <5>1 DEF Claimed
          <5> QED
            BY <5>2 DEF Taken
        <4>2. pages[k] <= 0 /\ pages[k] <= 1
          BY <1>3, <2>0, <3>1, <4>1 DEF PageInv
        <4> QED
          BY <1>5, <4>2
      <3>2. CASE k \notin batch
        <4>1. hook'[k] = hook[k]
          BY <1>8, <3>2
        <4>2. \A c \in Dispatchers : k \in Claimed(c)' => k \in Claimed(c)
          BY <1>7, <3>2
        <4> QED
          BY <1>2, <1>5, <2>0, <2>5, <4>1, <4>2 DEF PageInv
      <3> QED
        BY <3>1, <3>2
    <2>7. PageInv'
      BY <2>6 DEF PageInv
    <2>8. ASSUME NEW j \in Keys
          PROVE  /\ posts'[j] <= HookAttempts + aborts'
                 /\ \A c \in Dispatchers :
                       j \in Claimed(c)' =>
                          /\ hook'[j].status = "pending" =>
                                /\ hook'[j].attempts <= HookAttempts + aborts'
                                /\ posts'[j] <= hook'[j].attempts
                          /\ hook'[j].status = "pending" /\ Unsent(c, j)' =>
                                posts'[j] < hook'[j].attempts
                          /\ Unsent(c, j)' => posts'[j] < HookAttempts + aborts'
                 /\ hook'[j].status = "pending" /\ (\A c \in Dispatchers : j \notin Claimed(c)')
                      => /\ hook'[j].attempts < HookAttempts + aborts'
                         /\ posts'[j] <= hook'[j].attempts
                 /\ hook'[j].status = "absent" /\ subs'[j[1]] # "deleted" => posts'[j] = 0
      <3>0. /\ posts[j] \in Nat /\ aborts \in Nat /\ hook[j].attempts \in Nat
            /\ HookAttempts \in Nat
        BY <1>1, Limits DEF HookTypeOK, Deliveries
      <3>1. CASE j \in batch
        <4>1. hook[j].attempts < HookAttempts + aborts /\ posts[j] <= hook[j].attempts
          BY <1>3, <2>0, <2>1, <3>1 DEF LadderInv
        <4>2. /\ hook'[j].status = "pending" /\ hook'[j].attempts = hook[j].attempts + 1
              /\ posts'[j] = posts[j] /\ aborts' = aborts /\ j \in Claimed(d)'
          BY <1>2, <1>5, <1>7, <1>8, <3>1
        <4> QED
          BY <3>0, <4>1, <4>2
      <3>2. CASE j \notin batch
        <4>1. hook'[j] = hook[j] /\ posts'[j] = posts[j]
          BY <1>5, <1>8, <3>2
        <4>2. \A c \in Dispatchers : j \in Claimed(c)' => c # d /\ j \in Claimed(c)
          BY <1>7, <3>2
        <4>3. Claimed(d) = {}
          BY <1>1, <1>2, ClaimedKeys DEF ShapeInv
        <4>4. (\A c \in Dispatchers : j \notin Claimed(c)')
                 => (\A c \in Dispatchers : j \notin Claimed(c))
          BY <1>7, <4>3
        <4> QED
          BY <1>2, <2>0, <2>5, <4>1, <4>2, <4>4 DEF LadderInv
      <3> QED
        BY <3>1, <3>2
    <2>9. LadderInv'
      BY <2>8 DEF LadderInv
    <2> QED
      BY <2>4, <2>7, <2>9
  <1> QED
    BY <1>9, <1>10, <1>11, <1>12, <1>13, <1>14 DEF QueueInv

-----------------------------------------------------------------------------
(* Steps of the consumer and of the operators. *)

\* No tick has claimed the delivery.
Free(k) == \A d \in Dispatchers : k \notin Claimed(d)

\* A delivery that nobody has claimed is at no tick's hands.
LEMMA FreeFacts ==
    ASSUME NEW k \in Keys, Free(k)
    PROVE  \A d \in Dispatchers : pass[d].at # k /\ ~Taken(d, k)
  <1>1. k # NoKey
    BY StartTypes
  <1>2. ASSUME NEW d \in Dispatchers
        PROVE  pass[d].at # k
    BY <1>1 DEF Free, Claimed
  <1> QED
    BY <1>2 DEF Taken

\* Within the window, a row that does not wait is nobody's; and one that is not
\* delivered either has no page to its name.
LEMMA IdleRow ==
    ASSUME QueueInv, ~Overrun, NEW k \in Keys, hook[k].status # "pending",
           subs[k[1]] # "deleted"
    PROVE  /\ Free(k)
           /\ pages[k] <= 1
           /\ hook[k].status # "delivered" => pages[k] <= 0
  <1>1. WindowInv /\ PageInv
    BY DEF QueueInv
  <1>2. Free(k)
    BY <1>1 DEF WindowInv, ClaimOK, Free
  <1>3. \A d \in Dispatchers : ~Taken(d, k)
    BY <1>2, FreeFacts
  <1> QED
    BY <1>1, <1>2, <1>3 DEF PageInv

\* What a step that no tick takes part in may do to a delivery: nothing; remove it
\* with its subscription; or, when nobody has claimed it, queue it or drop it with
\* its count from the start and no page to its name.
Untouched(k) ==
    /\ hook'[k] = hook[k] /\ posts'[k] = posts[k] /\ pages'[k] = pages[k]
    /\ subs'[k[1]] = "deleted" <=> subs[k[1]] = "deleted"

Removed(k) ==
    /\ hook'[k].status = "absent" /\ posts'[k] = posts[k] /\ pages'[k] = pages[k]
    /\ subs'[k[1]] = "deleted"

Anew(k) ==
    /\ Free(k)
    /\ hook'[k] = Queued \/ hook'[k] = NoDelivery
    /\ posts'[k] = 0 /\ pages'[k] <= 0

\* Such a step keeps the window, the pages and the ladder.
LEMMA RowsKeep ==
    ASSUME QueueInv, pass' = pass, aborts' = aborts,
           HookTypeOK', DeletedInv', SwitchInv', HeldInv',
           ~Overrun => \A k \in Keys : Untouched(k) \/ Removed(k) \/ Anew(k)
    PROVE  QueueInv'
  <1>1. HookTypeOK /\ ShapeInv
    BY DEF QueueInv
  <1>2. ShapeInv'
    BY <1>1 DEF ShapeInv
  <1>3. \A d \in Dispatchers : Claimed(d)' = Claimed(d) /\ Claimed(d) \subseteq Keys
    BY <1>1, ClaimedKeys DEF Claimed
  <1>4. \A d \in Dispatchers, k \in Keys :
           (Taken(d, k)' <=> Taken(d, k)) /\ (Unsent(d, k)' <=> Unsent(d, k))
    BY DEF Taken, Unsent
  <1>5. ASSUME ~Overrun
        PROVE  WindowInv' /\ PageInv' /\ LadderInv'
    <2>1. WindowInv /\ PageInv /\ LadderInv
      BY <1>5 DEF QueueInv
    <2>2. \A k \in Keys : Untouched(k) \/ Removed(k) \/ Anew(k)
      BY <1>5
    <2>3. WindowInv'
      <3>1. ASSUME NEW d \in Dispatchers, NEW k \in Claimed(d)
            PROVE  ClaimOK(d, k)' /\ ~Anew(k) /\ k \in Keys
        <4>1. ClaimOK(d, k) /\ k \in Keys
          BY <1>3, <2>1 DEF WindowInv
        <4>2. ~Anew(k)
          BY <4>1 DEF Anew, Free
        <4>3. CASE Untouched(k)
          BY <4>1, <4>2, <4>3 DEF Untouched, ClaimOK
        <4>4. CASE Removed(k)
          BY <4>1, <4>2, <4>4 DEF Removed, ClaimOK
        <4> QED
          BY <2>2, <4>1, <4>2, <4>3, <4>4
      <3>2. ASSUME NEW d \in Dispatchers, pass'[d].stage = "write",
                   hook'[pass'[d].at].status = "pending"
            PROVE  /\ pass'[d].seen.status = "pending"
                   /\ pass'[d].seen.attempts = hook'[pass'[d].at].attempts
        <4>1. pass[d].at \in Claimed(d) /\ pass[d].at \in Keys
          BY <1>1, <3>2, ClaimedKeys, StartTypes DEF ShapeInv
        <4>2. Untouched(pass[d].at)
          BY <2>2, <3>1, <3>2, <4>1 DEF Removed
        <4> QED
          BY <2>1, <3>2, <4>2 DEF WindowInv, Untouched
      <3>3. \A d \in Dispatchers : pass'[d].stage # "idle" => pass'[d].left > 0
        BY <2>1 DEF WindowInv
      <3>4. \A c, d \in Dispatchers : c # d => Claimed(c)' \cap Claimed(d)' = {}
        BY <1>3, <2>1 DEF WindowInv
      <3> QED
        BY <1>3, <3>1, <3>2, <3>3, <3>4 DEF WindowInv
    <2>4. ASSUME NEW k \in Keys
          PROVE  /\ pages'[k] <= 1
                 /\ \A d \in Dispatchers : k \in Claimed(d)' /\ ~Taken(d, k)' => pages'[k] <= 0
                 /\ \/ pages'[k] <= 0
                    \/ hook'[k].status = "delivered"
                    \/ subs'[k[1]] = "deleted"
                    \/ \E d \in Dispatchers : Taken(d, k)'
      <3>1. CASE Untouched(k)
        BY <1>3, <1>4, <2>1, <3>1 DEF PageInv, Untouched
      <3>2. CASE Removed(k)
        BY <1>3, <1>4, <2>1, <3>2 DEF PageInv, Removed
      <3>3. CASE Anew(k)
        <4>1. pages'[k] <= 0 /\ pages'[k] \in Int
          BY <3>3 DEF Anew, HookTypeOK
        <4> QED
          BY <4>1
      <3> QED
        BY <2>2, <3>1, <3>2, <3>3
    <2>5. ASSUME NEW k \in Keys
          PROVE  /\ posts'[k] <= HookAttempts + aborts'
                 /\ \A d \in Dispatchers :
                       k \in Claimed(d)' =>
                          /\ hook'[k].status = "pending" =>
                                /\ hook'[k].attempts <= HookAttempts + aborts'
                                /\ posts'[k] <= hook'[k].attempts
                          /\ hook'[k].status = "pending" /\ Unsent(d, k)' =>
                                posts'[k] < hook'[k].attempts
                          /\ Unsent(d, k)' => posts'[k] < HookAttempts + aborts'
                 /\ hook'[k].status = "pending" /\ (\A d \in Dispatchers : k \notin Claimed(d)')
                      => /\ hook'[k].attempts < HookAttempts + aborts'
                         /\ posts'[k] <= hook'[k].attempts
                 /\ hook'[k].status = "absent" /\ subs'[k[1]] # "deleted" => posts'[k] = 0
      <3>1. CASE Untouched(k)
        BY <1>3, <1>4, <2>1, <3>1 DEF LadderInv, Untouched
      <3>2. CASE Removed(k)
        BY <1>3, <1>4, <2>1, <3>2 DEF LadderInv, Removed
      <3>3. CASE Anew(k)
        <4>1. aborts \in Nat /\ HookAttempts \in Nat /\ HookAttempts > 0
          BY <1>1, Limits DEF HookTypeOK
        <4>2. /\ posts'[k] = 0 /\ \A d \in Dispatchers : k \notin Claimed(d)'
              /\ hook'[k].status = "pending" => hook'[k].attempts = 0
          BY <1>3, <3>3, StartTypes DEF Anew, Free
        <4> QED
          BY <4>1, <4>2
      <3> QED
        BY <2>2, <3>1, <3>2, <3>3
    <2> QED
      BY <2>3, <2>4, <2>5 DEF PageInv, LadderInv
  <1> QED
    BY <1>2, <1>5 DEF QueueInv

\* The stream and the consumer count; nothing else moves.
LEMMA CountingKeeps ==
    ASSUME QueueInv, UNCHANGED <<subs, active, hook, pass, history, turns, aborts>>,
           stream' \in [Events -> Nat], handled' \in [Events -> Nat],
           tries' \in [Events -> Nat], dropped' \subseteq Events
    PROVE  QueueInv'
  <1>1. /\ HookTypeOK /\ DeletedInv /\ SwitchInv /\ HeldInv
        /\ subs' = subs /\ active' = active /\ hook' = hook /\ pass' = pass /\ turns' = turns
        /\ posts' = posts /\ pages' = pages /\ sinceOff' = sinceOff /\ sinceHeld' = sinceHeld
        /\ aborts' = aborts
    BY DEF QueueInv, history
  <1>2. HookTypeOK'
    BY <1>1 DEF HookTypeOK
  <1>3. DeletedInv' /\ SwitchInv' /\ HeldInv'
    BY <1>1 DEF DeletedInv, SwitchInv, HeldInv
  <1>4. \A k \in Keys : Untouched(k)
    BY <1>1 DEF Untouched
  <1> QED
    BY <1>1, <1>2, <1>3, <1>4, RowsKeep

\* Acknowledged or not, the consumer's counts are numbers.
LEMMA CountsType ==
    ASSUME HookTypeOK, NEW e \in Events, Acked(e) \/ Unacked(e)
    PROVE  handled' \in [Events -> Nat] /\ tries' \in [Events -> Nat]
  BY DEF HookTypeOK, Acked, Unacked

\* Every step of the fan-out worker but the enqueueing only counts.
LEMMA ConsumerKeeps ==
    ASSUME QueueInv, NEW e \in Events,
           Arrive(e) \/ EnqueueFails(e) \/ StopsRedelivering(e)
    PROVE  QueueInv'
  <1>0. HookTypeOK
    BY DEF QueueInv
  <1>1. CASE Arrive(e)
    <2>1. stream' \in [Events -> Nat]
      BY <1>0, <1>1 DEF Arrive, HookTypeOK
    <2>2. UNCHANGED <<handled, tries, dropped>>
          /\ UNCHANGED <<subs, active, hook, pass, history, turns, aborts>>
      BY <1>1 DEF Arrive, consumer
    <2> QED
      BY <1>0, <2>1, <2>2, CountingKeeps DEF HookTypeOK
  <1>2. CASE EnqueueFails(e)
    <2>1. handled' \in [Events -> Nat] /\ tries' \in [Events -> Nat]
      BY <1>0, <1>2, CountsType DEF EnqueueFails
    <2>2. UNCHANGED <<stream, dropped>>
          /\ UNCHANGED <<subs, active, hook, pass, history, turns, aborts>>
      BY <1>2 DEF EnqueueFails
    <2> QED
      BY <1>0, <2>1, <2>2, CountingKeeps DEF HookTypeOK
  <1>3. CASE StopsRedelivering(e)
    <2>1. handled' \in [Events -> Nat] /\ tries' \in [Events -> Nat]
      BY <1>0, <1>3, CountsType DEF StopsRedelivering
    <2>2. /\ stream' = stream /\ dropped' = dropped \cup {e}
          /\ UNCHANGED <<subs, active, hook, pass, history, turns, aborts>>
      BY <1>3 DEF StopsRedelivering
    <2> QED
      BY <1>0, <2>1, <2>2, CountingKeeps DEF HookTypeOK
  <1> QED
    BY <1>1, <1>2, <1>3

\* An event is enqueued: the rows that are new are nobody's, and were never sent.
LEMMA EnqueueKeeps ==
    ASSUME QueueInv, NEW e \in Events, EnqueueEvent(e)
    PROVE  QueueInv'
  <1>0. HookTypeOK /\ DeletedInv /\ SwitchInv /\ HeldInv /\ hook \in [Keys -> Deliveries]
    BY DEF QueueInv, HookTypeOK
  <1>1. /\ hook' = [k \in Keys |-> IF WantsRow(k, e) THEN Queued ELSE hook[k]]
        /\ stream' = stream /\ dropped' = dropped /\ subs' = subs /\ active' = active
        /\ pass' = pass /\ turns' = turns /\ aborts' = aborts
        /\ posts' = posts /\ pages' = pages /\ sinceOff' = sinceOff /\ sinceHeld' = sinceHeld
        /\ Acked(e) \/ Unacked(e)
    BY DEF EnqueueEvent, history
  <1>2. handled' \in [Events -> Nat] /\ tries' \in [Events -> Nat]
    BY <1>0, <1>1, CountsType
  <1>3. hook' \in [Keys -> Deliveries]
    BY <1>0, <1>1, StartTypes
  <1>4. HookTypeOK'
    BY <1>0, <1>1, <1>2, <1>3 DEF HookTypeOK
  <1>5. DeletedInv'
    BY <1>0, <1>1 DEF DeletedInv, WantsRow
  <1>6. SwitchInv' /\ HeldInv'
    BY <1>0, <1>1 DEF SwitchInv, HeldInv
  <1>7. ASSUME ~Overrun, NEW k \in Keys
        PROVE  Untouched(k) \/ Anew(k)
    <2>1. CASE WantsRow(k, e)
      <3>1. hook[k].status = "absent" /\ subs[k[1]] = "on"
        BY <2>1 DEF WantsRow
      <3>2. Free(k) /\ pages[k] <= 0
        BY <1>7, <3>1, IdleRow
      <3>3. posts[k] = 0
        BY <1>7, <3>1 DEF QueueInv, LadderInv
      <3> QED
        BY <1>1, <2>1, <3>2, <3>3 DEF Anew
    <2>2. CASE ~WantsRow(k, e)
      BY <1>1, <2>2 DEF Untouched
    <2> QED
      BY <2>1, <2>2
  <1> QED
    BY <1>1, <1>4, <1>5, <1>6, <1>7, RowsKeep

\* A dead letter is requeued: nobody's row, and one its receiver never took.
LEMMA RequeueKeeps ==
    ASSUME QueueInv, NEW k \in Keys, RequeueDelivery(k)
    PROVE  QueueInv'
  <1>0. HookTypeOK /\ DeletedInv /\ SwitchInv /\ HeldInv /\ hook \in [Keys -> Deliveries]
    BY DEF QueueInv, HookTypeOK
  <1>1. /\ hook[k].status = "dead" /\ hook' = [hook EXCEPT ![k] = Queued]
        /\ posts' = [posts EXCEPT ![k] = 0] /\ turns' = turns + 1
        /\ stream' = stream /\ subs' = subs /\ active' = active
        /\ handled' = handled /\ tries' = tries /\ dropped' = dropped
        /\ pass' = pass /\ aborts' = aborts
        /\ pages' = pages /\ sinceOff' = sinceOff /\ sinceHeld' = sinceHeld
    BY DEF RequeueDelivery, Requeueable, Turn, consumer
  <1>2. subs[k[1]] # "deleted"
    BY <1>0, <1>1 DEF DeletedInv
  <1>3. HookTypeOK'
    <2>1. hook' \in [Keys -> Deliveries]
      BY <1>0, <1>1, StartTypes
    <2>2. posts' \in [Keys -> Nat] /\ turns' \in Nat
      BY <1>0, <1>1 DEF HookTypeOK
    <2> QED
      BY <1>0, <1>1, <2>1, <2>2 DEF HookTypeOK
  <1>4. DeletedInv'
    BY <1>0, <1>1, <1>2 DEF DeletedInv
  <1>5. SwitchInv' /\ HeldInv'
    BY <1>0, <1>1 DEF SwitchInv, HeldInv
  <1>6. ASSUME ~Overrun, NEW j \in Keys
        PROVE  Untouched(j) \/ Anew(j)
    <2>1. CASE j = k
      <3>1. Free(k) /\ pages[k] <= 0
        BY <1>1, <1>2, <1>6, IdleRow
      <3> QED
        BY <1>0, <1>1, <2>1, <3>1 DEF Anew, HookTypeOK
    <2>2. CASE j # k
      BY <1>0, <1>1, <2>2 DEF Untouched, HookTypeOK
    <2> QED
      BY <2>1, <2>2
  <1> QED
    BY <1>1, <1>3, <1>4, <1>5, <1>6, RowsKeep

\* Retention drops a row that is over, and with it the page it recorded.
LEMMA PruneKeeps ==
    ASSUME QueueInv, NEW k \in Keys, PruneDelivery(k)
    PROVE  QueueInv'
  <1> DEFINE n == IF hook[k].status = "delivered" THEN pages[k] - 1 ELSE pages[k]
  <1>0. HookTypeOK /\ DeletedInv /\ SwitchInv /\ HeldInv /\ hook \in [Keys -> Deliveries]
    BY DEF QueueInv, HookTypeOK
  <1>1. /\ hook[k].status \in {"delivered", "dead"} /\ hook' = [hook EXCEPT ![k] = NoDelivery]
        /\ posts' = [posts EXCEPT ![k] = 0] /\ turns' = turns + 1
        /\ pages' = [pages EXCEPT ![k] = n]
        /\ stream' = stream /\ subs' = subs /\ active' = active
        /\ handled' = handled /\ tries' = tries /\ dropped' = dropped
        /\ pass' = pass /\ aborts' = aborts
        /\ sinceOff' = sinceOff /\ sinceHeld' = sinceHeld
    BY DEF PruneDelivery, Turn, consumer
  <1>2. subs[k[1]] # "deleted"
    BY <1>0, <1>1 DEF DeletedInv
  <1>3. /\ n \in Int /\ pages \in [Keys -> Int] /\ posts \in [Keys -> Nat]
        /\ pages[k] <= 1 /\ (hook[k].status # "delivered" => pages[k] <= 0) => n <= 0
    BY <1>0 DEF HookTypeOK
  <1> HIDE DEF n
  <1>4. HookTypeOK'
    <2>1. hook' \in [Keys -> Deliveries] /\ pages' \in [Keys -> Int]
      BY <1>0, <1>1, <1>3, StartTypes
    <2>2. posts' \in [Keys -> Nat] /\ turns' \in Nat
      BY <1>0, <1>1 DEF HookTypeOK
    <2> QED
      BY <1>0, <1>1, <2>1, <2>2 DEF HookTypeOK
  <1>5. DeletedInv'
    BY <1>0, <1>1, <1>2 DEF DeletedInv
  <1>6. SwitchInv' /\ HeldInv'
    BY <1>0, <1>1 DEF SwitchInv, HeldInv
  <1>7. ASSUME ~Overrun, NEW j \in Keys
        PROVE  Untouched(j) \/ Anew(j)
    <2>1. CASE j = k
      <3>1. Free(k) /\ n <= 0
        BY <1>1, <1>2, <1>3, <1>7, IdleRow
      <3>2. hook'[k] = NoDelivery /\ posts'[k] = 0 /\ pages'[k] = n
        BY <1>0, <1>1, <1>3
      <3> QED
        BY <2>1, <3>1, <3>2 DEF Anew
    <2>2. CASE j # k
      <3>1. hook'[j] = hook[j] /\ posts'[j] = posts[j] /\ pages'[j] = pages[j]
        BY <1>0, <1>1, <1>3, <2>2
      <3> QED
        BY <1>1, <3>1 DEF Untouched
    <2> QED
      BY <2>1, <2>2
  <1> QED
    BY <1>1, <1>4, <1>5, <1>6, <1>7, RowsKeep

\* Counting afresh has its type, and forgets one subscription's count only.
LEMMA AfreshFacts ==
    ASSUME HookTypeOK, NEW s \in Subs
    PROVE  /\ Afresh(s) \in [Dispatchers \X Subs -> Nat]
           /\ \A d \in Dispatchers, r \in Subs :
                 Afresh(s)[<<d, r>>] = IF r = s THEN 0 ELSE sinceOff[<<d, r>>]
  BY DEF HookTypeOK, Afresh

\* A subscription is switched on or off.
LEMMA SwitchKeeps ==
    ASSUME QueueInv, NEW s \in Subs, SwitchSubscription(s)
    PROVE  QueueInv'
  <1> DEFINE v == IF subs[s] = "on" THEN "off" ELSE "on"
  <1>0. /\ HookTypeOK /\ DeletedInv /\ SwitchInv /\ HeldInv
        /\ subs \in [Subs -> {"on", "off", "deleted"}]
    BY DEF QueueInv, HookTypeOK
  <1>1. /\ subs[s] # "deleted" /\ subs' = [subs EXCEPT ![s] = v]
        /\ sinceOff' = Afresh(s) /\ turns' = turns + 1
        /\ stream' = stream /\ active' = active /\ hook' = hook
        /\ handled' = handled /\ tries' = tries /\ dropped' = dropped
        /\ pass' = pass /\ aborts' = aborts
        /\ posts' = posts /\ pages' = pages /\ sinceHeld' = sinceHeld
    BY DEF SwitchSubscription, Turn, consumer
  <1>2. v \in {"on", "off"}
    OBVIOUS
  <1> HIDE DEF v
  <1>3. /\ subs' \in [Subs -> {"on", "off", "deleted"}]
        /\ \A r \in Subs : /\ subs'[r] = "deleted" <=> subs[r] = "deleted"
                           /\ r # s => subs'[r] = subs[r]
    BY <1>0, <1>1, <1>2
  <1>4. HookTypeOK'
    BY <1>0, <1>1, <1>3, AfreshFacts DEF HookTypeOK
  <1>5. \A k \in Keys : k[1] \in Subs
    BY DEF Keys
  <1>6. DeletedInv'
    BY <1>0, <1>1, <1>3, <1>5 DEF DeletedInv
  <1>7. SwitchInv'
    <2>1. ASSUME NEW d \in Dispatchers, NEW r \in Subs
          PROVE  /\ sinceOff'[<<d, r>>] <= 1
                 /\ subs'[r] = "on" => sinceOff'[<<d, r>>] = 0
                 /\ pass'[d].stage = "send" /\ pass'[d].at[1] = r => sinceOff'[<<d, r>>] = 0
      <3>1. CASE r = s
        <4>1. sinceOff'[<<d, r>>] = 0
          BY <1>0, <1>1, <3>1, AfreshFacts
        <4> QED
          BY <4>1
      <3>2. CASE r # s
        <4>1. sinceOff'[<<d, r>>] = sinceOff[<<d, r>>]
          BY <1>0, <1>1, <3>2, AfreshFacts
        <4> QED
          BY <1>0, <1>1, <1>3, <3>2, <4>1 DEF SwitchInv
      <3> QED
        BY <3>1, <3>2
    <2> QED
      BY <2>1 DEF SwitchInv
  <1>8. HeldInv'
    BY <1>0, <1>1 DEF HeldInv
  <1>9. \A k \in Keys : Untouched(k)
    BY <1>1, <1>3, <1>5 DEF Untouched
  <1> QED
    BY <1>1, <1>4, <1>6, <1>7, <1>8, <1>9, RowsKeep

\* A subscription is deleted, and its deliveries with it.
LEMMA DeleteKeeps ==
    ASSUME QueueInv, NEW s \in Subs, DeleteSubscription(s)
    PROVE  QueueInv'
  <1>0. /\ HookTypeOK /\ DeletedInv /\ SwitchInv /\ HeldInv
        /\ subs \in [Subs -> {"on", "off", "deleted"}] /\ hook \in [Keys -> Deliveries]
    BY DEF QueueInv, HookTypeOK
  <1>1. /\ subs[s] # "deleted" /\ subs' = [subs EXCEPT ![s] = "deleted"]
        /\ sinceOff' = IF subs[s] = "on" THEN Afresh(s) ELSE sinceOff
        /\ hook' = [k \in Keys |-> IF k[1] = s THEN NoDelivery ELSE hook[k]]
        /\ turns' = turns + 1
        /\ stream' = stream /\ active' = active
        /\ handled' = handled /\ tries' = tries /\ dropped' = dropped
        /\ pass' = pass /\ aborts' = aborts
        /\ posts' = posts /\ pages' = pages /\ sinceHeld' = sinceHeld
    BY DEF DeleteSubscription, Turn, consumer
  <1>2. \A k \in Keys : k[1] \in Subs
    BY DEF Keys
  <1>3. /\ subs' \in [Subs -> {"on", "off", "deleted"}] /\ subs'[s] = "deleted"
        /\ \A r \in Subs : r # s => subs'[r] = subs[r]
    BY <1>0, <1>1
  <1>4. hook' \in [Keys -> Deliveries]
    BY <1>0, <1>1, StartTypes
  <1>5. /\ sinceOff' \in [Dispatchers \X Subs -> Nat]
        /\ \A d \in Dispatchers, r \in Subs :
              sinceOff'[<<d, r>>] = sinceOff[<<d, r>>] \/ (r = s /\ sinceOff'[<<d, r>>] = 0)
    <2>1. CASE subs[s] = "on"
      BY <1>0, <1>1, <2>1, AfreshFacts
    <2>2. CASE subs[s] # "on"
      BY <1>0, <1>1, <2>2 DEF HookTypeOK
    <2> QED
      BY <2>1, <2>2
  <1>6. HookTypeOK'
    <2>1. turns' \in Nat
      BY <1>0, <1>1 DEF HookTypeOK
    <2> QED
      BY <1>0, <1>1, <1>3, <1>4, <1>5, <2>1 DEF HookTypeOK
  <1>7. DeletedInv'
    BY <1>0, <1>1, <1>2, <1>3, StartTypes DEF DeletedInv
  <1>8. SwitchInv'
    <2>1. ASSUME NEW d \in Dispatchers, NEW r \in Subs
          PROVE  /\ sinceOff'[<<d, r>>] <= 1
                 /\ subs'[r] = "on" => sinceOff'[<<d, r>>] = 0
                 /\ pass'[d].stage = "send" /\ pass'[d].at[1] = r => sinceOff'[<<d, r>>] = 0
      <3>1. /\ sinceOff[<<d, r>>] <= 1
            /\ subs[r] = "on" => sinceOff[<<d, r>>] = 0
            /\ pass[d].stage = "send" /\ pass[d].at[1] = r => sinceOff[<<d, r>>] = 0
        BY <1>0 DEF SwitchInv
      <3>2. sinceOff'[<<d, r>>] = sinceOff[<<d, r>>] \/ sinceOff'[<<d, r>>] = 0
        BY <1>5
      <3>3. subs'[r] = "on" => subs[r] = "on"
        BY <1>3
      <3> QED
        BY <1>1, <3>1, <3>2, <3>3
    <2> QED
      BY <2>1 DEF SwitchInv
  <1>9. HeldInv'
    BY <1>0, <1>1 DEF HeldInv
  <1>10. ASSUME NEW k \in Keys
         PROVE  Untouched(k) \/ Removed(k)
    <2>1. CASE k[1] = s
      BY <1>1, <1>3, <2>1, StartTypes DEF Removed
    <2>2. CASE k[1] # s
      BY <1>1, <1>2, <1>3, <2>2 DEF Untouched
    <2> QED
      BY <2>1, <2>2
  <1> QED
    BY <1>1, <1>6, <1>7, <1>8, <1>9, <1>10, RowsKeep

\* The tenant is suspended or resumed: a new count, and no more than was claimed.
LEMMA TenantKeeps ==
    ASSUME QueueInv, SwitchTenant
    PROVE  QueueInv'
  <1>0. HookTypeOK /\ DeletedInv /\ SwitchInv /\ HeldInv
    BY DEF QueueInv
  <1>1. /\ active' = ~active /\ sinceHeld' = [d \in Dispatchers |-> 0] /\ turns' = turns + 1
        /\ stream' = stream /\ subs' = subs /\ hook' = hook
        /\ handled' = handled /\ tries' = tries /\ dropped' = dropped
        /\ pass' = pass /\ aborts' = aborts
        /\ posts' = posts /\ pages' = pages /\ sinceOff' = sinceOff
    BY DEF SwitchTenant, Turn, consumer
  <1>2. HookTypeOK'
    <2>1. turns' \in Nat /\ active' \in BOOLEAN /\ sinceHeld' \in [Dispatchers -> Nat]
      BY <1>0, <1>1 DEF HookTypeOK
    <2> QED
      BY <1>0, <1>1, <2>1 DEF HookTypeOK
  <1>3. DeletedInv' /\ SwitchInv'
    BY <1>0, <1>1 DEF DeletedInv, SwitchInv
  <1>4. HeldInv'
    <2>1. ASSUME NEW d \in Dispatchers
          PROVE  0 + Cardinality(pass[d].work)
                    + (IF pass[d].stage = "send" THEN 1 ELSE 0) <= HookBatch
      <3>1. PICK n : n = Cardinality(pass[d].work)
        OBVIOUS
      <3>2. PICK m \in {0, 1} : m = IF pass[d].stage = "send" THEN 1 ELSE 0
        OBVIOUS
      <3>3. n \in Nat /\ sinceHeld[d] \in Nat /\ HookBatch \in Nat
        BY <1>0, <3>1, ClaimedKeys, FiniteKeys, Limits DEF HookTypeOK
      <3>4. sinceHeld[d] + n + m <= HookBatch
        BY <1>0, <3>1, <3>2 DEF HeldInv
      <3>5. 0 + n + m <= HookBatch
        BY <3>2, <3>3, <3>4
      <3> QED
        BY <3>1, <3>2, <3>5
    <2> QED
      BY <1>1, <2>1 DEF HeldInv
  <1>5. \A k \in Keys : Untouched(k)
    BY <1>1 DEF Untouched
  <1> QED
    BY <1>1, <1>2, <1>3, <1>4, <1>5, RowsKeep

-----------------------------------------------------------------------------
(* Time. *)

\* One tick off what is left, and never below nothing.
Less(n) == IF n > 0 THEN n - 1 ELSE 0

\* It keeps the order of two times.
LEMMA LessFacts ==
    ASSUME NEW m \in Nat, NEW n \in Nat
    PROVE  /\ Less(m) \in Nat
           /\ m >= n => Less(m) >= Less(n)
           /\ n > 0 /\ n # 1 => Less(n) > 0
  BY DEF Less

\* Time passes alike for the rows and for the batches at work.
LEMMA TickKeeps ==
    ASSUME QueueInv, HookTick
    PROVE  QueueInv'
  <1>0. /\ HookTypeOK /\ ShapeInv /\ DeletedInv /\ SwitchInv /\ HeldInv
        /\ hook \in [Keys -> Deliveries] /\ pass \in [Dispatchers -> Passes]
    BY DEF QueueInv, HookTypeOK
  <1>1. /\ Overrun \/ \A d \in Dispatchers : pass[d].left # 1
        /\ hook' = [k \in Keys |-> [hook[k] EXCEPT !.due = Less(hook[k].due)]]
        /\ pass' = [d \in Dispatchers |-> [pass[d] EXCEPT !.left = Less(pass[d].left)]]
        /\ stream' = stream /\ subs' = subs /\ active' = active
        /\ handled' = handled /\ tries' = tries /\ dropped' = dropped
        /\ turns' = turns /\ aborts' = aborts
        /\ posts' = posts /\ pages' = pages /\ sinceOff' = sinceOff /\ sinceHeld' = sinceHeld
    BY DEF HookTick, Less, consumer, history
  <1>2. ASSUME NEW k \in Keys
        PROVE  /\ hook'[k] \in Deliveries /\ hook'[k].status = hook[k].status
               /\ hook'[k].attempts = hook[k].attempts /\ hook'[k].due = Less(hook[k].due)
    <2>1. hook[k] \in Deliveries /\ hook[k].due \in Nat
      BY <1>0 DEF Deliveries
    <2>2. PICK n \in Nat : n = Less(hook[k].due)
      BY <2>1, LessFacts
    <2>3. hook'[k] = [hook[k] EXCEPT !.due = n]
      BY <1>1, <2>2
    <2> QED
      BY <2>1, <2>2, <2>3 DEF Deliveries
  <1>3. ASSUME NEW d \in Dispatchers
        PROVE  /\ pass'[d] \in Passes /\ pass'[d].left = Less(pass[d].left)
               /\ pass'[d].stage = pass[d].stage /\ pass'[d].work = pass[d].work
               /\ pass'[d].at = pass[d].at /\ pass'[d].result = pass[d].result
               /\ pass'[d].seen = pass[d].seen
    <2>1. pass[d] \in Passes /\ pass[d].left \in Nat
      BY <1>0 DEF Passes
    <2>2. PICK n \in Nat : n = Less(pass[d].left)
      BY <2>1, LessFacts
    <2>3. pass'[d] = [pass[d] EXCEPT !.left = n]
      BY <1>1, <2>2
    <2> QED
      BY <2>1, <2>2, <2>3 DEF Passes
  <1>4. hook' \in [Keys -> Deliveries] /\ pass' \in [Dispatchers -> Passes]
    <2>1. hook' = [k \in Keys |-> hook'[k]] /\ pass' = [d \in Dispatchers |-> pass'[d]]
      BY <1>1
    <2> QED
      BY <1>2, <1>3, <2>1
  <1>5. HookTypeOK'
    BY <1>0, <1>1, <1>4 DEF HookTypeOK
  <1>6. ShapeInv'
    BY <1>0, <1>3 DEF ShapeInv
  <1>7. DeletedInv'
    BY <1>0, <1>1, <1>2 DEF DeletedInv
  <1>8. SwitchInv'
    BY <1>0, <1>1, <1>3, ZenonT(40) DEF SwitchInv
  <1>9. HeldInv'
    BY <1>0, <1>1, <1>3 DEF HeldInv
  <1>10. ASSUME ~Overrun
         PROVE  WindowInv' /\ PageInv' /\ LadderInv'
    <2>0. WindowInv /\ PageInv /\ LadderInv
      BY <1>10 DEF QueueInv
    <2>1. \A d \in Dispatchers : Claimed(d)' = Claimed(d) /\ Claimed(d) \subseteq Keys
      BY <1>0, <1>3, ClaimedKeys DEF Claimed
    <2>2. \A d \in Dispatchers, k \in Keys :
             (Taken(d, k)' <=> Taken(d, k)) /\ (Unsent(d, k)' <=> Unsent(d, k))
      BY <1>3 DEF Taken, Unsent
    <2>3. WindowInv'
      <3>1. ASSUME NEW d \in Dispatchers, pass'[d].stage # "idle"
            PROVE  pass'[d].left > 0
        <4>1. pass[d].left \in Nat /\ pass[d].left > 0 /\ pass[d].left # 1
          BY <1>0, <1>1, <1>3, <1>10, <2>0, <3>1 DEF WindowInv, Passes
        <4> QED
          BY <1>3, <4>1, LessFacts
      <3>2. ASSUME NEW d \in Dispatchers, NEW k \in Claimed(d)'
            PROVE  ClaimOK(d, k)'
        <4>1. k \in Keys /\ ClaimOK(d, k)
          BY <2>0, <2>1 DEF WindowInv
        <4>2. hook[k].due \in Nat /\ pass[d].left \in Nat
          BY <1>0, <4>1 DEF Deliveries, Passes
        <4>3. hook[k].due >= pass[d].left => hook'[k].due >= pass'[d].left
          BY <1>2, <1>3, <4>1, <4>2, LessFacts
        <4> QED
          BY <1>1, <1>2, <4>1, <4>3 DEF ClaimOK
      <3>3. \A c, d \in Dispatchers : c # d => Claimed(c)' \cap Claimed(d)' = {}
        BY <2>0, <2>1 DEF WindowInv
      <3>4. ASSUME NEW d \in Dispatchers, pass'[d].stage = "write",
                   hook'[pass'[d].at].status = "pending"
            PROVE  /\ pass'[d].seen.status = "pending"
                   /\ pass'[d].seen.attempts = hook'[pass'[d].at].attempts
        <4>1. pass[d].at \in Keys /\ pass'[d].at = pass[d].at /\ pass[d].stage = "write"
          BY <1>0, <1>3, <3>4 DEF ShapeInv
        <4> QED
          BY <1>2, <1>3, <2>0, <3>4, <4>1 DEF WindowInv
      <3> QED
        BY <3>1, <3>2, <3>3, <3>4 DEF WindowInv
    <2>4. PageInv'
      BY <1>1, <1>2, <2>0, <2>1, <2>2 DEF PageInv
    <2>5. LadderInv'
      BY <1>1, <1>2, <2>0, <2>1, <2>2 DEF LadderInv
    <2> QED
      BY <2>3, <2>4, <2>5
  <1> QED
    BY <1>5, <1>6, <1>7, <1>8, <1>9, <1>10 DEF QueueInv

-----------------------------------------------------------------------------
(* The theorems. *)

\* The invariant holds at first.
LEMMA InvAtFirst ==
    ASSUME HookInit
    PROVE  QueueInv
  <1>1. \A d \in Dispatchers :
           /\ pass[d] = Resting /\ pass[d].stage = "idle" /\ pass[d].work = {}
           /\ pass[d].at = NoKey /\ Claimed(d) = {}
    BY StartTypes DEF HookInit, Claimed
  <1>2. HookTypeOK
    BY StartTypes DEF HookInit, HookTypeOK
  <1>3. ShapeInv /\ DeletedInv /\ SwitchInv
    BY <1>1, StartTypes DEF HookInit, ShapeInv, DeletedInv, SwitchInv
  <1>4. HeldInv
    <2>1. Cardinality({}) = 0
      BY FS_EmptySet
    <2>2. \A d \in Dispatchers : sinceHeld[d] = 0
      BY DEF HookInit
    <2>3. 0 + 0 + 0 <= HookBatch
      BY Limits
    <2>4. ASSUME NEW d \in Dispatchers
          PROVE  sinceHeld[d] + Cardinality(pass[d].work)
                    + (IF pass[d].stage = "send" THEN 1 ELSE 0) <= HookBatch
      <3>1. Cardinality(pass[d].work) = 0 /\ pass[d].stage # "send"
        BY <1>1, <2>1
      <3> QED
        BY <2>2, <2>3, <3>1
    <2> QED
      BY <2>2, <2>4 DEF HeldInv
  <1>5. WindowInv
    BY <1>1 DEF WindowInv
  <1>6. PageInv
    BY <1>1 DEF HookInit, PageInv
  <1>7. LadderInv
    BY <1>1, StartTypes, Limits DEF HookInit, LadderInv
  <1> QED
    BY <1>2, <1>3, <1>4, <1>5, <1>6, <1>7 DEF QueueInv

\* Every step of a dispatcher keeps it.
LEMMA DispatchKeeps ==
    ASSUME QueueInv, NEW d \in Dispatchers, DispatchStep(d) \/ AbortBatch(d) \/ DispatcherDies(d)
    PROVE  QueueInv'
  <1>1. ASSUME NEW k \in Keys, Check(d, k) PROVE QueueInv'
    BY <1>1, CheckOffKeeps, TakeKeeps
  <1>2. ASSUME ReadDelivery(d) PROVE QueueInv'
    BY <1>2, ReadGoneKeeps, ReadKeeps
  <1>3. ASSUME WriteDelivery(d) PROVE QueueInv'
    BY <1>3, WriteKeeps, WriteGoneKeeps
  <1> QED
    BY <1>1, <1>2, <1>3, ClaimKeeps, SendKeeps, AbortKeeps, DiesKeeps DEF DispatchStep

\* Every step keeps it.
LEMMA QueueStep ==
    ASSUME QueueInv, [HookNext]_hookVars
    PROVE  QueueInv'
  <1>1. CASE HookNext
    <2>1. ASSUME NEW e \in Events, FanOutStep(e) \/ Arrive(e) PROVE QueueInv'
      BY <2>1, EnqueueKeeps, ConsumerKeeps DEF FanOutStep
    <2>2. ASSUME OperatorStep PROVE QueueInv'
      BY <2>2, RequeueKeeps, PruneKeeps, SwitchKeeps, DeleteKeeps, TenantKeeps DEF OperatorStep
    <2> QED
      BY <1>1, <2>1, <2>2, DispatchKeeps, TickKeeps DEF HookNext, QueueNext
  <1>2. CASE UNCHANGED hookVars
    <2>1. /\ HookTypeOK
          /\ UNCHANGED <<subs, active, hook, pass, history, turns, aborts>>
          /\ stream' = stream /\ handled' = handled /\ tries' = tries /\ dropped' = dropped
      BY <1>2 DEF QueueInv, hookVars, consumer
    <2> QED
      BY <2>1, CountingKeeps DEF HookTypeOK
  <1> QED
    BY <1>1, <1>2

\* The inductive invariant of the webhook queue (enqueue_event, dispatch_once and
\* what operators and retention do beside them).
THEOREM QueueInvariant == HookSpec => []QueueInv
  <1>1. HookInit => QueueInv
    BY InvAtFirst
  <1>2. QueueInv /\ [HookNext]_hookVars => QueueInv'
    BY QueueStep
  <1> QED
    BY <1>1, <1>2, PTL DEF HookSpec

\* Every row, tick and count keeps its type.
THEOREM QueueTypeCorrect == HookSpec => []HookTypeOK
  <1>1. QueueInv => HookTypeOK
    BY DEF QueueInv
  <1> QED
    BY <1>1, QueueInvariant, PTL

\* A receiver takes an event once, unless an answer was lost, a tick died with the
\* outcome in hand, a batch overran its window or retention removed the record
\* (_claim_due, _record_result).
THEOREM PagesOnce == HookSpec => []OnePagePerEvent
  <1>1. QueueInv => OnePagePerEvent
    BY DEF QueueInv, OnePagePerEvent, PageInv
  <1> QED
    BY <1>1, QueueInvariant, PTL

\* A subscription that was switched off receives from each dispatcher at most the
\* POST it was about to make (dispatch_once).
THEOREM SwitchIsHeeded == HookSpec => []KillSwitchHolds
  <1>1. ASSUME QueueInv
        PROVE  KillSwitchHolds
    <2>1. ASSUME NEW o \in Dispatchers \X Subs
          PROVE  sinceOff[o] <= 1
      <3>1. o = <<o[1], o[2]>> /\ o[1] \in Dispatchers /\ o[2] \in Subs
        OBVIOUS
      <3> QED
        BY <1>1, <3>1 DEF QueueInv, SwitchInv
    <2> QED
      BY <2>1 DEF KillSwitchHolds
  <1> QED
    BY <1>1, QueueInvariant, PTL

\* After a suspension a dispatcher sends no more than the batch it had claimed
\* (_claim_due).
THEOREM SuspensionIsBounded == HookSpec => []SuspensionHolds
  <1>1. ASSUME QueueInv, NEW d \in Dispatchers
        PROVE  sinceHeld[d] <= HookBatch
    <2>1. PICK n : n = Cardinality(pass[d].work)
      OBVIOUS
    <2>2. PICK m \in {0, 1} : m = IF pass[d].stage = "send" THEN 1 ELSE 0
      OBVIOUS
    <2>3. n \in Nat /\ sinceHeld[d] \in Nat /\ HookBatch \in Nat
      BY <1>1, <2>1, ClaimedKeys, FiniteKeys, Limits DEF QueueInv, HookTypeOK
    <2>4. sinceHeld[d] + n + m <= HookBatch
      BY <1>1, <2>1, <2>2 DEF QueueInv, HeldInv
    <2> QED
      BY <2>2, <2>3, <2>4
  <1>2. QueueInv => SuspensionHolds
    BY <1>1 DEF SuspensionHolds
  <1> QED
    BY <1>2, QueueInvariant, PTL

\* The retry ladder is finite: webhook_max_attempts POSTs, and one for each tick
\* that did not live to record its own (_claim_due, _record_result).
THEOREM LadderIsFinite == HookSpec => []PostsBounded
  <1>1. QueueInv => PostsBounded
    BY DEF QueueInv, PostsBounded, LadderInv
  <1> QED
    BY <1>1, QueueInvariant, PTL

\* What a step may make of a delivery its receiver took.
LEMMA DeliveredStays ==
    ASSUME QueueInv, HookNext, ~Overrun, NEW k \in Keys, hook[k].status = "delivered"
    PROVE  hook'[k].status \in {"delivered", "absent"}
  <1>0. /\ HookTypeOK /\ ShapeInv /\ DeletedInv /\ hook \in [Keys -> Deliveries]
        /\ hook[k] \in Deliveries
    BY DEF QueueInv, HookTypeOK
  <1>1. subs[k[1]] # "deleted"
    BY <1>0 DEF DeletedInv
  <1>2. Free(k)
    BY <1>1, IdleRow
  <1>3. \A d \in Dispatchers : pass[d].at # k
    BY <1>2, FreeFacts
  <1>4. ASSUME NEW S, hook' = ReleasedAll(S)
        PROVE  hook'[k].status = "delivered"
    BY <1>0, <1>4, ReleasedFacts DEF ReleasedAll
  <1>5. ASSUME NEW e \in Events, FanOutStep(e) \/ Arrive(e)
        PROVE  hook'[k] = hook[k]
    BY <1>0, <1>5 DEF FanOutStep, Arrive, EnqueueEvent, EnqueueFails, StopsRedelivering, WantsRow
  <1>6. ASSUME NEW d \in Dispatchers, DispatchStep(d) \/ AbortBatch(d) \/ DispatcherDies(d)
        PROVE  hook'[k].status = "delivered"
    <2>1. ASSUME NEW batch \in SUBSET DueDeliveries, ClaimDeliveries(d, batch)
          PROVE  hook'[k].status = "delivered"
      <3>1. k \notin batch
        BY DEF DueDeliveries
      <3> QED
        BY <2>1, <3>1 DEF ClaimDeliveries
    <2>2. ASSUME NEW j \in Keys, Check(d, j)
          PROVE  hook'[k].status = "delivered"
      <3>1. hook' = ReleasedAll({j}) \/ hook' = hook
        BY <2>2 DEF Check
      <3> QED
        BY <1>4, <3>1
    <2>3. ASSUME NEW result \in Results, Send(d, result)
          PROVE  hook'[k].status = "delivered"
      BY <2>3 DEF Send
    <2>4. ASSUME ReadDelivery(d)
          PROVE  hook'[k].status = "delivered"
      BY <2>4 DEF ReadDelivery
    <2>5. ASSUME WriteDelivery(d)
          PROVE  hook'[k].status = "delivered"
      <3>1. \/ hook' = ReleasedAll(pass[d].work)
            \/ \E r : hook' = [hook EXCEPT ![pass[d].at] = r]
        BY <2>5 DEF WriteDelivery
      <3> QED
        BY <1>0, <1>3, <1>4, <3>1
    <2>6. ASSUME AbortBatch(d)
          PROVE  hook'[k].status = "delivered"
      BY <1>4, <2>6 DEF AbortBatch
    <2>7. ASSUME DispatcherDies(d)
          PROVE  hook'[k].status = "delivered"
      BY <2>7 DEF DispatcherDies
    <2> QED
      BY <1>6, <2>1, <2>2, <2>3, <2>4, <2>5, <2>6, <2>7 DEF DispatchStep
  <1>7. ASSUME OperatorStep
        PROVE  hook'[k].status \in {"delivered", "absent"}
    <2>1. ASSUME NEW j \in Keys, RequeueDelivery(j)
          PROVE  hook'[k] = hook[k]
      BY <1>0, <2>1 DEF RequeueDelivery, Requeueable
    <2>2. ASSUME NEW j \in Keys, PruneDelivery(j)
          PROVE  hook'[k].status \in {"delivered", "absent"}
      <3>1. hook' = [hook EXCEPT ![j] = NoDelivery]
        BY <2>2 DEF PruneDelivery
      <3> QED
        BY <1>0, <3>1, StartTypes
    <2>3. ASSUME NEW s \in Subs, SwitchSubscription(s)
          PROVE  hook'[k] = hook[k]
      BY <2>3 DEF SwitchSubscription
    <2>4. ASSUME NEW s \in Subs, DeleteSubscription(s)
          PROVE  hook'[k].status \in {"delivered", "absent"}
      <3>1. hook' = [j \in Keys |-> IF j[1] = s THEN NoDelivery ELSE hook[j]]
        BY <2>4 DEF DeleteSubscription
      <3> QED
        BY <3>1, StartTypes
    <2>5. ASSUME SwitchTenant
          PROVE  hook'[k] = hook[k]
      BY <2>5 DEF SwitchTenant
    <2> QED
      BY <1>7, <2>1, <2>2, <2>3, <2>4, <2>5 DEF OperatorStep
  <1>8. ASSUME HookTick
        PROVE  hook'[k].status = "delivered"
    <2>1. hook'[k] = [hook[k] EXCEPT !.due = Less(hook[k].due)]
      BY <1>8 DEF HookTick, Less
    <2> QED
      BY <1>0, <2>1 DEF Deliveries
  <1> QED
    BY <1>5, <1>6, <1>7, <1>8 DEF HookNext, QueueNext

\* What a receiver took is never dead-lettered or retried while every batch keeps
\* to its window: _record_result and requeue_delivery leave a delivered row alone.
THEOREM TakenIsFinal == HookSpec => DeliveredIsFinal
  <1>1. ASSUME QueueInv, HookNext
        PROVE  \A k \in Keys : (hook[k].status = "delivered" /\ ~Overrun) =>
                  hook'[k].status \in {"delivered", "absent"}
    BY <1>1, DeliveredStays
  <1> QED
    BY <1>1, QueueInvariant, PTL DEF HookSpec, DeliveredIsFinal

=============================================================================
