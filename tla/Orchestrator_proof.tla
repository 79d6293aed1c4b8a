------------------------- MODULE Orchestrator_proof -------------------------
(***************************************************************************)
(* The orchestrator, for any number of replicas, cases and messages, any   *)
(* lock life and any limit on tools: what mutual exclusion SETNX with an   *)
(* expiry gives, who publishes, and what the errgroup has brought home     *)
(* when the scores are read.                                               *)
(***************************************************************************)
EXTENDS Orchestrator, FiniteSetTheorems, SequenceTheorems, TLAPS

\* The part of the type invariant that the lock depends on.
LockTypes ==
  /\ inbox \in [Replica -> Seq(ML1Message)]
  /\ msg \in [Replica -> ML1Message]
  /\ DOMAIN pc = Replica
  /\ lock \in [Case -> Nat]
  /\ held \in [Replica -> Nat]
  /\ \A r \in Replica : held[r] <= LockTTL

\* The lock of a case outlives the first LockTTL ticks of every handler of it:
\* what is left of the lock and what the handler has used up make a whole life.
LockCoversHandler ==
  \A r \in Replica : Handling(r) => lock[msg[r].case] + held[r] >= LockTTL

LInv == LockTypes /\ LockCoversHandler /\ ExclusiveWithinTTL

\* A message names a case.
LEMMA MessageCase == \A m \in ML1Message : m.case \in Case
  BY OrchestratorAssumption DEF ScoredMessage

LEMMA InitLInv == Init => LInv
<1> SUFFICES ASSUME Init PROVE LInv
  OBVIOUS
<1>1. LockTypes
  <2>0. inbox \in [Replica -> UNION {[1..n -> ML1Message] : n \in 0..MaxMessages}]
    BY Zenon DEF Init, Inboxes
  <2>1. ASSUME NEW r \in Replica PROVE inbox[r] \in Seq(ML1Message)
    <3>1. PICK n \in 0..MaxMessages : inbox[r] \in [1..n -> ML1Message]
      BY <2>0
    <3>2. n \in Nat
      BY OrchestratorAssumption
    <3> QED BY <3>1, <3>2, SeqDef
  <2>2. inbox \in [Replica -> Seq(ML1Message)]
    BY <2>0, <2>1
  <2>3. msg \in [Replica -> ML1Message]
    BY OrchestratorAssumption DEF Init
  <2> QED BY <2>2, <2>3, OrchestratorAssumption DEF Init, LockTypes
<1>2. \A r \in Replica : ~Handling(r)
  BY DEF Init, Handling
<1> QED BY <1>1, <1>2 DEF LInv, LockCoversHandler, ExclusiveWithinTTL

\* A step that leaves the clock and the messages alone, and moves no replica
\* past the lock that was not past it.
LEMMA QuietStep ==
  ASSUME LInv, LockTypes',
         UNCHANGED <<msg, lock, held>>,
         \A r \in Replica : Handling(r)' => Handling(r)
  PROVE  LInv'
  BY DEF LInv, LockCoversHandler, ExclusiveWithinTTL

\* SETNX succeeds only when nothing is left of the lock, so every other handler
\* of the case has used up its whole life.
LEMMA AcquireStep == ASSUME NEW r \in Replica, LInv, Acquire(r) PROVE LInv'
<1> DEFINE c == msg[r].case
<1>1. c \in Case /\ lock[c] = 0
  BY MessageCase DEF Acquire, LInv, LockTypes
<1>2. /\ lock' = [lock EXCEPT ![c] = LockTTL]
      /\ held' = [held EXCEPT ![r] = 0]
      /\ pc' = [pc EXCEPT ![r] = "saving"]
      /\ UNCHANGED <<inbox, msg>>
  BY DEF Acquire, handler, Goto
<1>3. LockTypes'
  BY <1>1, <1>2, OrchestratorAssumption DEF LInv, LockTypes
<1>4. ASSUME NEW s \in Replica, Handling(s)'
      PROVE  lock'[msg'[s].case] + held'[s] >= LockTTL
  <2>1. CASE s = r
    BY <1>1, <1>2, <2>1, OrchestratorAssumption DEF LInv, LockTypes
  <2>2. CASE s # r
    <3>1. Handling(s) /\ held'[s] = held[s] /\ msg'[s] = msg[s]
      BY <1>2, <1>4, <2>2 DEF Handling, LInv, LockTypes
    <3>2. lock[msg[s].case] + held[s] >= LockTTL
      BY <3>1 DEF LInv, LockCoversHandler
    <3>3. lock'[msg[s].case] >= lock[msg[s].case] /\ lock'[msg[s].case] \in Nat
      BY <1>1, <1>2, MessageCase, OrchestratorAssumption DEF LInv, LockTypes
    <3> QED BY <3>1, <3>2, <3>3, MessageCase, OrchestratorAssumption DEF LInv, LockTypes
  <2> QED BY <2>1, <2>2
<1>5. ASSUME NEW p \in Replica, NEW q \in Replica, p # q, Handling(p)', Handling(q)',
             msg'[p].case = msg'[q].case
      PROVE  held'[p] = LockTTL \/ held'[q] = LockTTL
  <2>1. ASSUME NEW s \in Replica, s # r, Handling(s)', msg[s].case = c
        PROVE  held'[s] = LockTTL
    <3>1. Handling(s) /\ held'[s] = held[s]
      BY <1>2, <2>1 DEF Handling, LInv, LockTypes
    <3>2. lock[c] + held[s] >= LockTTL
      BY <2>1, <3>1 DEF LInv, LockCoversHandler
    <3> QED BY <1>1, <3>1, <3>2, OrchestratorAssumption DEF LInv, LockTypes
  <2>2. CASE p = r \/ q = r
    BY <1>2, <1>5, <2>1, <2>2
  <2>3. CASE p # r /\ q # r
    BY <1>2, <1>5, <2>3 DEF Handling, LInv, LockTypes, ExclusiveWithinTTL
  <2> QED BY <2>2, <2>3
<1> QED BY <1>3, <1>4, <1>5 DEF LInv, LockCoversHandler, ExclusiveWithinTTL

\* A second passes: what the lock loses, every handler's time gains.
LEMMA TickStep == ASSUME LInv, Tick PROVE LInv'
<1>1. /\ lock' = [c \in Case |-> IF lock[c] > 0 THEN lock[c] - 1 ELSE 0]
      /\ held' = [r \in Replica |-> IF held[r] < LockTTL THEN held[r] + 1 ELSE LockTTL]
      /\ UNCHANGED <<inbox, pc, msg>>
  BY DEF Tick, handler
<1>2. LockTypes'
  BY <1>1, OrchestratorAssumption DEF LInv, LockTypes
<1>3. ASSUME NEW s \in Replica, Handling(s)'
      PROVE  lock'[msg'[s].case] + held'[s] >= LockTTL
  <2>1. Handling(s) /\ msg'[s] = msg[s] /\ msg[s].case \in Case
    BY <1>1, <1>3, MessageCase DEF Handling, LInv, LockTypes
  <2>2. lock[msg[s].case] + held[s] >= LockTTL
    BY <2>1 DEF LInv, LockCoversHandler
  <2> QED BY <1>1, <2>1, <2>2, OrchestratorAssumption DEF LInv, LockTypes
<1>4. ExclusiveWithinTTL'
  <2>1. ASSUME NEW s \in Replica, held[s] = LockTTL PROVE held'[s] = LockTTL
    BY <1>1, <2>1, OrchestratorAssumption
  <2> QED BY <1>1, <2>1 DEF LInv, ExclusiveWithinTTL, Handling
<1> QED BY <1>2, <1>3, <1>4 DEF LInv, LockCoversHandler

\* Reading replaces the message of a replica that is outside its handler.
LEMMA ReadStep == ASSUME NEW r \in Replica, LInv, Read(r) PROVE LInv'
<1>1. /\ msg' = [msg EXCEPT ![r] = Head(inbox[r])]
      /\ inbox' = [inbox EXCEPT ![r] = Tail(@)]
      /\ pc' = [pc EXCEPT ![r] = "locking"]
      /\ inbox[r] # <<>>
      /\ UNCHANGED <<lock, held>>
  BY DEF Read, clock, Goto
<1>2. inbox[r] \in Seq(ML1Message)
  BY DEF LInv, LockTypes
<1>3. Head(inbox[r]) \in ML1Message /\ Tail(inbox[r]) \in Seq(ML1Message)
  BY <1>1, <1>2
<1>4. LockTypes'
  BY <1>1, <1>3 DEF LInv, LockTypes
<1>5. \A s \in Replica : Handling(s)' => s # r /\ Handling(s) /\ msg'[s] = msg[s]
  BY <1>1 DEF Handling, LInv, LockTypes
<1> QED BY <1>1, <1>4, <1>5 DEF LInv, LockCoversHandler, ExclusiveWithinTTL

\* Every other step is quiet: it stays on its side of the lock, or leaves.
LEMMA OtherStep ==
  ASSUME NEW r \in Replica, LInv,
         \/ ReadNothing(r) \/ LockedOut(r) \/ Begin(r) \/ Spawn(r) \/ WaitTools(r)
         \/ SelfCorrect(r) \/ Publish(r) \/ Crash(r)
         \/ \E t \in Tool : ToolReturns(r, t)
  PROVE  LInv'
<1>1. /\ UNCHANGED <<msg, lock, held>>
      /\ \/ UNCHANGED inbox
         \/ inbox[r] # <<>> /\ inbox' = [inbox EXCEPT ![r] = Tail(@)]
      /\ \/ UNCHANGED pc
         \/ pc' = [pc EXCEPT ![r] = "reading"]
         \/ Handling(r) /\ \E l : pc' = [pc EXCEPT ![r] = l]
  <2>1. CASE ReadNothing(r)
    BY <2>1 DEF ReadNothing, handler, clock
  <2>2. CASE LockedOut(r)
    BY <2>2 DEF LockedOut, handler, clock, Goto
  <2>3. CASE Begin(r)
    BY <2>3 DEF Begin, Goto, Handling
  <2>4. CASE Spawn(r)
    BY <2>4 DEF Spawn, clock
  <2>5. CASE WaitTools(r)
    BY <2>5 DEF WaitTools, clock, Goto, Handling
  <2>6. CASE SelfCorrect(r)
    BY <2>6 DEF SelfCorrect, clock, Goto, Handling
  <2>7. CASE Publish(r)
    BY <2>7 DEF Publish, handler, clock, Goto
  <2>8. CASE Crash(r)
    BY <2>8 DEF Crash, clock, Goto
  <2>9. CASE \E t \in Tool : ToolReturns(r, t)
    BY <2>9 DEF ToolReturns, clock
  <2> QED BY <2>1, <2>2, <2>3, <2>4, <2>5, <2>6, <2>7, <2>8, <2>9
<1>2. inbox' \in [Replica -> Seq(ML1Message)]
  <2>1. inbox[r] # <<>> => Tail(inbox[r]) \in Seq(ML1Message)
    BY DEF LInv, LockTypes
  <2> QED BY <1>1, <2>1 DEF LInv, LockTypes
<1>3. LockTypes'
  BY <1>1, <1>2 DEF LInv, LockTypes
<1>4. \A s \in Replica : Handling(s)' => Handling(s)
  BY <1>1 DEF Handling, LInv, LockTypes
<1> QED BY <1>1, <1>3, <1>4, QuietStep

\* A failing SETNX may leave a lock with no handler; it never shortens one.
LEMMA LockErrorStep == ASSUME NEW r \in Replica, LInv, LockError(r) PROVE LInv'
<1>1. /\ UNCHANGED <<inbox, msg, held>>
      /\ pc' = [pc EXCEPT ![r] = "reading"]
      /\ \/ lock' = lock
         \/ lock' = [lock EXCEPT ![msg[r].case] = IF @ = 0 THEN LockTTL ELSE @]
  BY DEF LockError, handler, Goto
<1>2. LockTypes' /\ \A c \in Case : lock'[c] >= lock[c]
  <2>1. msg[r].case \in Case /\ lock \in [Case -> Nat] /\ LockTTL \in Nat
    BY MessageCase, OrchestratorAssumption DEF LInv, LockTypes
  <2>2. PICK k \in Nat : /\ k >= lock[msg[r].case]
                         /\ lock' = [lock EXCEPT ![msg[r].case] = k]
    BY <1>1, <2>1
  <2>3. lock' \in [Case -> Nat] /\ \A c \in Case : lock'[c] >= lock[c]
    BY <2>1, <2>2
  <2> QED BY <1>1, <2>3 DEF LInv, LockTypes
<1>3. \A s \in Replica : Handling(s)' => Handling(s)
  BY <1>1 DEF Handling, LInv, LockTypes
<1>4. ASSUME NEW s \in Replica, Handling(s)'
      PROVE  lock'[msg'[s].case] + held'[s] >= LockTTL
  <2>1. msg[s].case \in Case /\ lock[msg[s].case] + held[s] >= LockTTL
    BY <1>3, <1>4, MessageCase DEF LInv, LockTypes, LockCoversHandler
  <2> QED BY <1>1, <1>2, <2>1, OrchestratorAssumption DEF LInv, LockTypes
<1> QED BY <1>1, <1>2, <1>3, <1>4 DEF LInv, LockCoversHandler, ExclusiveWithinTTL

LEMMA NextLInv == LInv /\ [Next]_vars => LInv'
<1> SUFFICES ASSUME LInv, [Next]_vars PROVE LInv'
  OBVIOUS
<1>1. CASE UNCHANGED vars
  BY <1>1 DEF vars, handler, clock, LInv, LockTypes, LockCoversHandler, ExclusiveWithinTTL, Handling
<1>2. CASE Tick
  BY <1>2, TickStep
<1>3. ASSUME NEW r \in Replica, Main(r) \/ Crash(r) \/ \E t \in Tool : ToolReturns(r, t)
      PROVE  LInv'
  BY <1>3, AcquireStep, ReadStep, LockErrorStep, OtherStep DEF Main
<1> QED BY <1>1, <1>2, <1>3 DEF Next

\* However many replicas compete for a case, whatever fails and crashes: of two
\* that handle it at once, one has outlived its lock (main.go:61-65).
THEOREM MutualExclusionWithinTTL == SafeSpec => []ExclusiveWithinTTL
<1>1. LInv => ExclusiveWithinTTL
  BY DEF LInv
<1> QED BY <1>1, InitLInv, NextLInv, PTL DEF SafeSpec

-----------------------------------------------------------------------------
(***************************************************************************)
(* Claims.  Every finding was published by a replica that had set the lock *)
(* for it, and every replica now in a handler has set one it has not yet   *)
(* published for: together they never outnumber the locks that were set.   *)
(***************************************************************************)
Owners(c) == {r \in Replica : Handling(r) /\ msg[r].case = c}

CountTypes ==
  /\ findings \in [Case -> Nat]
  /\ started \in [Case -> Nat]
  /\ dropped \subseteq Case

OwnersCounted == \A c \in Case : findings[c] + Cardinality(Owners(c)) <= started[c]

\* Unless SETNX may fail after it was applied, a lock has a handler behind it.
LockIsClaimed == ~RedisMayFail => \A c \in Case : lock[c] > 0 => started[c] > 0

CInv == LInv /\ CountTypes /\ OwnersCounted /\ LockIsClaimed /\ DroppedIsClaimed

LEMMA OwnersFinite ==
  \A c : IsFiniteSet(Owners(c)) /\ Cardinality(Owners(c)) \in Nat
<1> TAKE c
<1>1. Owners(c) \in SUBSET Replica
  BY DEF Owners
<1>2. IsFiniteSet(Owners(c))
  BY <1>1, FS_Subset, OrchestratorAssumption
<1> QED BY <1>2, FS_CardinalityType

LEMMA OwnersFinitePrime ==
  \A c : IsFiniteSet(Owners(c)') /\ Cardinality(Owners(c)') \in Nat
<1> TAKE c
<1>1. Owners(c)' \in SUBSET Replica
  BY DEF Owners
<1>2. IsFiniteSet(Owners(c)')
  BY <1>1, FS_Subset, OrchestratorAssumption
<1> QED BY <1>2, FS_CardinalityType

LEMMA InitCInv == Init => CInv
<1> SUFFICES ASSUME Init PROVE CInv
  OBVIOUS
<1>1. LInv
  BY InitLInv
<1>2. CountTypes /\ LockIsClaimed /\ DroppedIsClaimed
  BY DEF Init, CountTypes, LockIsClaimed, DroppedIsClaimed
<1>3. ASSUME NEW c \in Case PROVE findings[c] + Cardinality(Owners(c)) <= started[c]
  <2>1. Owners(c) = {}
    BY DEF Init, Owners, Handling
  <2>2. Cardinality(Owners(c)) = 0
    BY <2>1, FS_EmptySet
  <2> QED BY <2>2 DEF Init
<1> QED BY <1>1, <1>2, <1>3 DEF CInv, OwnersCounted

\* A step that claims nothing, publishes nothing and lets no replica past the
\* lock; it drops a message only at a lock.
LEMMA ClaimlessStep ==
  ASSUME CInv, LInv',
         UNCHANGED <<findings, started, faults>>,
         \A r \in Replica : Handling(r)' => Handling(r) /\ msg'[r] = msg[r],
         ~RedisMayFail => \A c \in Case : lock'[c] > 0 => lock[c] > 0,
         dropped' \subseteq Case,
         ~RedisMayFail => \A c \in dropped' : c \in dropped \/ lock[c] > 0
  PROVE  CInv'
<1>1. CountTypes'
  BY DEF CInv, CountTypes
<1>2. OwnersCounted'
  <2> SUFFICES ASSUME NEW c \in Case
               PROVE  findings[c] + Cardinality(Owners(c)') <= started[c]
    BY DEF OwnersCounted
  <2>1. Owners(c)' \in SUBSET Owners(c)
    BY DEF Owners
  <2>2. Cardinality(Owners(c)') <= Cardinality(Owners(c))
    BY <2>1, OwnersFinite, FS_Subset
  <2> QED BY <2>2, OwnersFinite, OwnersFinitePrime DEF CInv, CountTypes, OwnersCounted
<1>3. LockIsClaimed' /\ DroppedIsClaimed'
  BY DEF CInv, LockIsClaimed, DroppedIsClaimed, RedisMayFail
<1> QED BY <1>1, <1>2, <1>3 DEF CInv

\* SETNX succeeds: one lock more, one owner more.
LEMMA AcquireClaims == ASSUME NEW r \in Replica, CInv, LInv', Acquire(r) PROVE CInv'
<1>1. PICK c \in Case : c = msg[r].case
  BY MessageCase DEF CInv, LInv, LockTypes
<1>2. /\ started' = [started EXCEPT ![c] = @ + 1]
      /\ lock' = [lock EXCEPT ![c] = LockTTL]
      /\ pc' = [pc EXCEPT ![r] = "saving"]
      /\ UNCHANGED <<msg, findings, dropped, faults>>
  BY <1>1 DEF Acquire, handler, Goto
<1>3. CountTypes'
  BY <1>2 DEF CInv, CountTypes
<1>4. ASSUME NEW d \in Case
      PROVE  findings'[d] + Cardinality(Owners(d)') <= started'[d]
  <2>1. Owners(d)' \in SUBSET IF d = c THEN Owners(d) \cup {r} ELSE Owners(d)
    BY <1>1, <1>2 DEF Owners, Handling, CInv, LInv, LockTypes
  <2>2. CASE d = c
    <3>1. /\ IsFiniteSet(Owners(d) \cup {r})
          /\ Cardinality(Owners(d) \cup {r}) <= Cardinality(Owners(d)) + 1
      <4>1. /\ IsFiniteSet(Owners(d) \cup {r})
            /\ Cardinality(Owners(d) \cup {r}) =
                 IF r \in Owners(d) THEN Cardinality(Owners(d)) ELSE Cardinality(Owners(d)) + 1
        <5>1. IsFiniteSet(Owners(d))
          BY OwnersFinite, Zenon
        <5> QED BY <5>1, FS_AddElement, Zenon
      <4> QED BY <4>1, OwnersFinite
    <3>2. Cardinality(Owners(d)') <= Cardinality(Owners(d) \cup {r})
      BY <2>1, <2>2, <3>1, FS_Subset
    <3>3. Cardinality(Owners(d) \cup {r}) \in Nat
      BY <3>1, FS_CardinalityType
    <3>4. started'[d] = started[d] + 1 /\ findings'[d] = findings[d]
      BY <1>2, <2>2 DEF CInv, CountTypes
    <3> QED BY <3>1, <3>2, <3>3, <3>4, OwnersFinite, OwnersFinitePrime
            DEF CInv, CountTypes, OwnersCounted
  <2>3. CASE d # c
    <3>1. Cardinality(Owners(d)') <= Cardinality(Owners(d))
      BY <2>1, <2>3, OwnersFinite, FS_Subset
    <3>2. started'[d] = started[d] /\ findings'[d] = findings[d]
      BY <1>2, <2>3 DEF CInv, CountTypes
    <3> QED BY <3>1, <3>2, OwnersFinite, OwnersFinitePrime
            DEF CInv, CountTypes, OwnersCounted
  <2> QED BY <2>2, <2>3
<1>5. LockIsClaimed'
  BY <1>2, OrchestratorAssumption DEF CInv, LInv, LockTypes, CountTypes, LockIsClaimed, RedisMayFail
<1>6. DroppedIsClaimed'
  BY <1>2 DEF CInv, LInv, LockTypes, CountTypes, DroppedIsClaimed, RedisMayFail
<1> QED BY <1>3, <1>4, <1>5, <1>6 DEF CInv, OwnersCounted

\* Publishing spends the claim: the replica stops being an owner as the finding
\* appears.
LEMMA PublishClaims == ASSUME NEW r \in Replica, CInv, LInv', Publish(r) PROVE CInv'
<1>1. PICK c \in Case : c = msg[r].case
  BY MessageCase DEF CInv, LInv, LockTypes
<1>2. /\ findings' \in {findings, [findings EXCEPT ![c] = @ + 1]}
      /\ pc[r] = "publishing"
      /\ pc' = [pc EXCEPT ![r] = "reading"]
      /\ UNCHANGED <<msg, lock, started, dropped, faults>>
  BY <1>1 DEF Publish, handler, clock, Goto
<1>3. CountTypes'
  BY <1>2 DEF CInv, CountTypes
<1>4. ASSUME NEW d \in Case
      PROVE  findings'[d] + Cardinality(Owners(d)') <= started'[d]
  <2>1. Owners(d)' \in SUBSET (Owners(d) \ {r})
    BY <1>2 DEF Owners, Handling, CInv, LInv, LockTypes
  <2>2. IsFiniteSet(Owners(d) \ {r}) /\ Cardinality(Owners(d) \ {r}) \in Nat
    BY OwnersFinite, FS_RemoveElement, FS_CardinalityType
  <2>3. Cardinality(Owners(d)') <= Cardinality(Owners(d) \ {r})
    BY <2>1, <2>2, FS_Subset
  <2>4. CASE d = c
    <3>1. r \in Owners(d)
      BY <1>1, <1>2, <2>4 DEF Owners, Handling
    <3>2. Cardinality(Owners(d) \ {r}) = Cardinality(Owners(d)) - 1
      BY <3>1, OwnersFinite, FS_RemoveElement
    <3>3. findings'[d] <= findings[d] + 1 /\ findings'[d] \in Nat /\ findings[d] \in Nat
      <4>1. findings \in [Case -> Nat]
        BY DEF CInv, CountTypes
      <4>2. CASE findings' = findings
        BY <4>1, <4>2
      <4>3. CASE findings' = [findings EXCEPT ![c] = @ + 1]
        BY <2>4, <4>1, <4>3
      <4> QED BY <1>2, <4>2, <4>3
    <3> QED BY <1>2, <2>2, <2>3, <3>2, <3>3, OwnersFinite, OwnersFinitePrime
            DEF CInv, CountTypes, OwnersCounted
  <2>5. CASE d # c
    <3>1. Cardinality(Owners(d) \ {r}) <= Cardinality(Owners(d))
      BY OwnersFinite, FS_Subset
    <3>2. findings'[d] = findings[d]
      BY <1>2, <2>5 DEF CInv, CountTypes
    <3> QED BY <1>2, <2>2, <2>3, <3>1, <3>2, OwnersFinite, OwnersFinitePrime
            DEF CInv, CountTypes, OwnersCounted
  <2> QED BY <2>4, <2>5
<1>5. LockIsClaimed' /\ DroppedIsClaimed'
  BY <1>2 DEF CInv, LockIsClaimed, DroppedIsClaimed, RedisMayFail
<1> QED BY <1>3, <1>4, <1>5 DEF CInv, OwnersCounted

\* The steps that neither claim nor publish.
LEMMA OtherClaims ==
  ASSUME NEW r \in Replica, CInv, LInv',
         \/ Read(r) \/ ReadNothing(r) \/ LockedOut(r) \/ LockError(r) \/ Begin(r)
         \/ Spawn(r) \/ WaitTools(r) \/ SelfCorrect(r) \/ Crash(r)
         \/ \E t \in Tool : ToolReturns(r, t)
  PROVE  CInv'
<1>0. msg[r].case \in Case /\ DOMAIN pc = Replica /\ dropped \subseteq Case
  BY MessageCase DEF CInv, LInv, LockTypes, CountTypes
<1>1. CASE Read(r)
  <2>1. \A s \in Replica : Handling(s)' => Handling(s) /\ msg'[s] = msg[s]
    BY <1>0, <1>1 DEF Read, Goto, Handling, CInv, LInv, LockTypes
  <2> QED BY <1>0, <1>1, <2>1, ClaimlessStep DEF Read, clock, history
<1>2. CASE ReadNothing(r)
  BY <1>0, <1>2, ClaimlessStep DEF ReadNothing, handler, clock, history, Handling
<1>3. CASE LockedOut(r)
  <2>1. \A s \in Replica : Handling(s)' => Handling(s) /\ msg'[s] = msg[s]
    BY <1>0, <1>3 DEF LockedOut, handler, Goto, Handling
  <2>2. dropped' = dropped \cup {msg[r].case} /\ lock[msg[r].case] > 0
    BY <1>3 DEF LockedOut
  <2> QED BY <1>0, <1>3, <2>1, <2>2, ClaimlessStep DEF LockedOut, clock
<1>4. CASE LockError(r)
  <2>1. \A s \in Replica : Handling(s)' => Handling(s) /\ msg'[s] = msg[s]
    BY <1>0, <1>4 DEF LockError, handler, Goto, Handling
  <2>2. dropped' = dropped \cup {msg[r].case} /\ RedisMayFail
    BY <1>4 DEF LockError
  <2> QED BY <1>0, <1>4, <2>1, <2>2, ClaimlessStep DEF LockError
<1>5. CASE Begin(r)
  <2>1. \A s \in Replica : Handling(s)' => Handling(s) /\ msg'[s] = msg[s]
    BY <1>0, <1>5 DEF Begin, Goto, Handling
  <2> QED BY <1>0, <1>5, <2>1, ClaimlessStep DEF Begin, history
<1>6. CASE Spawn(r)
  BY <1>0, <1>6, ClaimlessStep DEF Spawn, clock, history, Handling
<1>7. CASE WaitTools(r)
  <2>1. \A s \in Replica : Handling(s)' => Handling(s) /\ msg'[s] = msg[s]
    BY <1>0, <1>7 DEF WaitTools, Goto, Handling
  <2> QED BY <1>0, <1>7, <2>1, ClaimlessStep DEF WaitTools, clock, history
<1>8. CASE SelfCorrect(r)
  <2>1. \A s \in Replica : Handling(s)' => Handling(s) /\ msg'[s] = msg[s]
    BY <1>0, <1>8 DEF SelfCorrect, Goto, Handling
  <2> QED BY <1>0, <1>8, <2>1, ClaimlessStep DEF SelfCorrect, clock, history
<1>9. CASE Crash(r)
  <2>1. \A s \in Replica : Handling(s)' => Handling(s) /\ msg'[s] = msg[s]
    BY <1>0, <1>9 DEF Crash, Goto, Handling
  <2> QED BY <1>0, <1>9, <2>1, ClaimlessStep DEF Crash, clock, history
<1>10. CASE \E t \in Tool : ToolReturns(r, t)
  BY <1>0, <1>10, ClaimlessStep DEF ToolReturns, clock, history, Handling
<1> QED BY <1>1, <1>2, <1>3, <1>4, <1>5, <1>6, <1>7, <1>8, <1>9, <1>10

LEMMA NextCInv == CInv /\ [Next]_vars => CInv'
<1> SUFFICES ASSUME CInv, [Next]_vars PROVE CInv'
  OBVIOUS
<1>1. LInv'
  BY NextLInv DEF CInv
<1>2. dropped \subseteq Case
  BY DEF CInv, CountTypes
<1>3. CASE UNCHANGED vars
  BY <1>1, <1>2, <1>3, ClaimlessStep DEF vars, handler, clock, history, Handling
<1>4. CASE Tick
  <2>1. \A c \in Case : lock'[c] > 0 => lock[c] > 0
    BY <1>4 DEF Tick
  <2> QED BY <1>1, <1>2, <1>4, <2>1, ClaimlessStep DEF Tick, handler, history, Handling
<1>5. ASSUME NEW r \in Replica, Main(r) \/ Crash(r) \/ \E t \in Tool : ToolReturns(r, t)
      PROVE  CInv'
  BY <1>1, <1>5, AcquireClaims, PublishClaims, OtherClaims DEF Main
<1> QED BY <1>3, <1>4, <1>5 DEF Next

\* Whatever fails and crashes, a case has no more findings than locks that were
\* set for it, and is given up as taken only after one was (main.go:61-65, 331-348).
THEOREM ClaimsAreAlwaysKept == SafeSpec => []ClaimsAreKept
<1>1. CInv => ClaimsAreKept
  <2> SUFFICES ASSUME CInv PROVE PublishedByOwner /\ DroppedIsClaimed
    BY DEF ClaimsAreKept
  <2>1. PublishedByOwner
    BY OwnersFinite DEF CInv, CountTypes, OwnersCounted, PublishedByOwner
  <2> QED BY <2>1 DEF CInv
<1> QED BY <1>1, InitCInv, NextCInv, PTL DEF SafeSpec

-----------------------------------------------------------------------------
\* The errgroup's limit.
ToolTypes == tool \in [Replica -> [Tool -> ToolState]]

TInv == ToolTypes /\ WithinToolLimit

LEMMA ToolFinite == IsFiniteSet(Tool)
<1> DEFINE f == [i \in 1..Len(ToolOrder) |-> ToolOrder[i]]
<1>1. IsFiniteSet(1..Len(ToolOrder))
  <2>1. Len(ToolOrder) \in Int
    BY DEF ToolOrder
  <2> QED BY <2>1, FS_Interval
<1>2. f \in Surjection(1..Len(ToolOrder), Tool)
  BY DEF Surjection, Tool
<1> QED BY <1>1, <1>2, FS_Surjection

LEMMA ActiveFinite ==
  \A r : IsFiniteSet(Active(r)) /\ Cardinality(Active(r)) \in Nat
<1> TAKE r
<1>1. Active(r) \in SUBSET Tool
  BY DEF Active
<1>2. IsFiniteSet(Active(r))
  BY <1>1, ToolFinite, FS_Subset
<1> QED BY <1>2, FS_CardinalityType

LEMMA ActiveFinitePrime ==
  \A r : IsFiniteSet(Active(r)') /\ Cardinality(Active(r)') \in Nat
<1> TAKE r
<1>1. Active(r)' \in SUBSET Tool
  BY DEF Active
<1>2. IsFiniteSet(Active(r)')
  BY <1>1, ToolFinite, FS_Subset
<1> QED BY <1>2, FS_CardinalityType

LEMMA InitTInv == Init => TInv
<1> SUFFICES ASSUME Init PROVE TInv
  OBVIOUS
<1>1. ToolTypes
  BY DEF Init, ToolTypes, ToolState
<1>2. ASSUME NEW r \in Replica PROVE Cardinality(Active(r)) <= ToolLimit
  <2>1. Active(r) = {}
    BY DEF Init, Active
  <2>2. Cardinality(Active(r)) = 0
    BY <2>1, FS_EmptySet
  <2> QED BY <2>2, OrchestratorAssumption
<1> QED BY <1>1, <1>2 DEF TInv, WithinToolLimit

\* A step that activates no tool.
LEMMA NoToolStarts ==
  ASSUME TInv, ToolTypes', \A r \in Replica : Active(r)' \subseteq Active(r)
  PROVE  TInv'
<1> SUFFICES ASSUME NEW r \in Replica PROVE Cardinality(Active(r)') <= ToolLimit
  BY DEF TInv, WithinToolLimit
<1>1. Active(r)' \in SUBSET Active(r)
  OBVIOUS
<1>2. Cardinality(Active(r)') <= Cardinality(Active(r))
  BY <1>1, ActiveFinite, FS_Subset
<1> QED BY <1>2, ActiveFinite, ActiveFinitePrime, OrchestratorAssumption
        DEF TInv, WithinToolLimit

\* g.Go adds one tool, and only below the limit.
LEMMA SpawnStep == ASSUME NEW r \in Replica, TInv, Spawn(r) PROVE TInv'
<1>0. PICK t : \E s \in {"running", "doomed"} : tool' = [tool EXCEPT ![r][t] = s]
  BY DEF Spawn
<1>1. PICK s \in {"running", "doomed"} : tool' = [tool EXCEPT ![r][t] = s]
  BY <1>0
<1>2. Cardinality(Active(r)) < ToolLimit
  BY DEF Spawn
<1>3. ToolTypes'
  BY <1>1 DEF TInv, ToolTypes, ToolState
<1>4. ASSUME NEW q \in Replica PROVE Cardinality(Active(q)') <= ToolLimit
  <2>1. CASE q # r
    <3>1. Active(q)' = Active(q)
      BY <1>1, <2>1 DEF Active, TInv, ToolTypes
    <3> QED BY <3>1 DEF TInv, WithinToolLimit
  <2>2. CASE q = r
    <3>1. Active(r)' \in SUBSET (Active(r) \cup {t})
      BY <1>1 DEF Active, TInv, ToolTypes
    <3>2. /\ IsFiniteSet(Active(r) \cup {t})
          /\ Cardinality(Active(r) \cup {t}) =
               IF t \in Active(r) THEN Cardinality(Active(r)) ELSE Cardinality(Active(r)) + 1
      <4>1. IsFiniteSet(Active(r))
        BY ActiveFinite, Zenon
      <4> QED BY <4>1, FS_AddElement, Zenon
    <3>3. Cardinality(Active(r)') <= Cardinality(Active(r) \cup {t})
      BY <3>1, <3>2, FS_Subset
    <3> QED BY <1>2, <2>2, <3>2, <3>3, ActiveFinite, ActiveFinitePrime, OrchestratorAssumption
  <2> QED BY <2>1, <2>2
<1> QED BY <1>3, <1>4 DEF TInv, WithinToolLimit

LEMMA NextTInv == TInv /\ [Next]_vars => TInv'
<1> SUFFICES ASSUME TInv, [Next]_vars PROVE TInv'
  OBVIOUS
<1>1. ASSUME UNCHANGED tool PROVE TInv'
  BY <1>1 DEF TInv, ToolTypes, WithinToolLimit, Active
<1>2. CASE UNCHANGED vars \/ Tick
  BY <1>1, <1>2 DEF vars, Tick, handler
<1>3. ASSUME NEW r \in Replica, Begin(r) \/ Crash(r) PROVE TInv'
  <2>1. tool' = [tool EXCEPT ![r] = [t \in Tool |-> "idle"]]
    BY <1>3 DEF Begin, Crash
  <2>2. ToolTypes' /\ \A q \in Replica : Active(q)' \subseteq Active(q)
    BY <2>1 DEF TInv, ToolTypes, ToolState, Active
  <2> QED BY <2>2, NoToolStarts
<1>4. ASSUME NEW r \in Replica, NEW t \in Tool, ToolReturns(r, t) PROVE TInv'
  <2>1. PICK o \in {"found", "clean", "error"} : tool' = [tool EXCEPT ![r][t] = o]
    BY <1>4 DEF ToolReturns
  <2>2. ToolTypes'
    BY <2>1 DEF TInv, ToolTypes, ToolState
  <2>3. \A q \in Replica : Active(q)' \subseteq Active(q)
    BY <2>1 DEF TInv, ToolTypes, Active
  <2> QED BY <2>2, <2>3, NoToolStarts
<1>5. ASSUME NEW r \in Replica,
             \/ Read(r) \/ ReadNothing(r) \/ Acquire(r) \/ LockedOut(r) \/ LockError(r)
             \/ WaitTools(r) \/ SelfCorrect(r) \/ Publish(r)
      PROVE  TInv'
  BY <1>1, <1>5 DEF Read, ReadNothing, Acquire, LockedOut, LockError, WaitTools,
     SelfCorrect, Publish, handler
<1> QED BY <1>2, <1>3, <1>4, <1>5, SpawnStep DEF Next, Main

\* However tools hang, fail and are cancelled, a handler never has more of them
\* active than g.SetLimit allows (main.go:73).
THEOREM ToolLimitHolds == SafeSpec => []WithinToolLimit
<1>1. TInv => WithinToolLimit
  BY DEF TInv
<1> QED BY <1>1, InitTInv, NextTInv, PTL DEF SafeSpec

-----------------------------------------------------------------------------
(***************************************************************************)
(* Which tools a handler has started.  Main goes through ToolOrder once:   *)
(* up to where it has come exactly the tools the message calls for are     *)
(* out, none beyond; and when it reads their flags all of them are back.   *)
(***************************************************************************)
Out(r, t) == tool[r][t] # "idle"
Back(r, t) == tool[r][t] \in {"found", "clean", "error"}

ToolsFollowTheMessage ==
  \A r \in Replica, i \in 1..Len(ToolOrder) :
    /\ pc[r] = "tools" => (Out(r, ToolOrder[i]) <=> i <= spawned[r] /\ i \in Planned(msg[r]))
    /\ pc[r] \in {"scoring", "publishing"} =>
         IF i \in Planned(msg[r]) THEN Back(r, ToolOrder[i]) ELSE ~Out(r, ToolOrder[i])

PlaceTypes == DOMAIN pc = Replica /\ DOMAIN msg = Replica /\ spawned \in [Replica -> Nat]

JInv == ToolTypes /\ PlaceTypes /\ ToolsFollowTheMessage

\* The tools are told apart by their places.
LEMMA Places ==
  /\ \A i, j \in 1..Len(ToolOrder) : ToolOrder[i] = ToolOrder[j] => i = j
  /\ \A t \in Tool : \E i \in 1..Len(ToolOrder) : ToolOrder[i] = t
  /\ \A i \in 1..Len(ToolOrder) : ToolOrder[i] \in Tool
<1>1. \A i, j \in 1..Len(ToolOrder) : ToolOrder[i] = ToolOrder[j] => i = j
  BY DEF ToolOrder
<1> QED BY <1>1 DEF Tool

LEMMA InitJInv == Init => JInv
  BY DEF Init, JInv, ToolTypes, ToolState, PlaceTypes, ToolsFollowTheMessage

\* A step of one replica that leaves the others' handlers alone.
LEMMA OneReplicaStep ==
  ASSUME JInv, NEW r \in Replica, ToolTypes', PlaceTypes',
         \A q \in Replica \ {r} :
           pc'[q] = pc[q] /\ msg'[q] = msg[q] /\ spawned'[q] = spawned[q] /\ tool'[q] = tool[q],
         \A i \in 1..Len(ToolOrder) :
           /\ pc'[r] = "tools" =>
                (tool'[r][ToolOrder[i]] # "idle" <=> i <= spawned'[r] /\ i \in Planned(msg'[r]))
           /\ pc'[r] \in {"scoring", "publishing"} =>
                IF i \in Planned(msg'[r])
                THEN tool'[r][ToolOrder[i]] \in {"found", "clean", "error"}
                ELSE tool'[r][ToolOrder[i]] = "idle"
  PROVE  JInv'
  BY DEF JInv, ToolsFollowTheMessage, Out, Back

\* g.Go: the tool handed over is the next one planned, so those between it and
\* the last are not called for and stay idle.
LEMMA SpawnJoins == ASSUME NEW r \in Replica, JInv, Spawn(r) PROVE JInv'
<1>1. PICK k \in Pending(r) :
        /\ pc[r] = "tools"
        /\ \A j \in Pending(r) : k <= j
        /\ spawned' = [spawned EXCEPT ![r] = k]
        /\ \E s \in {"running", "doomed"} : tool' = [tool EXCEPT ![r][ToolOrder[k]] = s]
        /\ UNCHANGED <<pc, msg>>
  BY DEF Spawn
<1>2. PICK s \in {"running", "doomed"} : tool' = [tool EXCEPT ![r][ToolOrder[k]] = s]
  BY <1>1
<1>3. /\ k \in 1..Len(ToolOrder) /\ k \in Planned(msg[r]) /\ k > spawned[r]
      /\ spawned[r] \in Nat
      /\ ToolOrder[k] \in Tool
  BY Places DEF Pending, Planned, JInv, PlaceTypes
<1>4. ToolTypes' /\ PlaceTypes'
  <2>1. k \in Nat
    BY <1>3 DEF ToolOrder
  <2>2. ToolTypes'
    BY <1>2 DEF JInv, ToolTypes, ToolState
  <2> QED BY <1>1, <2>1, <2>2 DEF JInv, PlaceTypes
<1>5. ASSUME NEW i \in 1..Len(ToolOrder)
      PROVE  tool'[r][ToolOrder[i]] # "idle" <=> i <= k /\ i \in Planned(msg[r])
  <2>1. Out(r, ToolOrder[i]) <=> i <= spawned[r] /\ i \in Planned(msg[r])
    BY <1>1 DEF JInv, ToolsFollowTheMessage
  <2>2. i \in Int /\ k \in Int
    BY <1>3 DEF ToolOrder
  <2>3. CASE i = k
    BY <1>2, <1>3, <2>2, <2>3 DEF JInv, ToolTypes
  <2>4. CASE i # k
    <3>1. tool'[r][ToolOrder[i]] = tool[r][ToolOrder[i]]
      BY <1>2, <1>3, <2>4, Places DEF JInv, ToolTypes
    <3>2. i \in Planned(msg[r]) /\ i > spawned[r] => k <= i
      BY <1>1 DEF Pending
    <3> QED BY <1>3, <2>1, <2>2, <2>4, <3>1, <3>2 DEF Out
  <2> QED BY <2>3, <2>4
<1>6. /\ pc'[r] = "tools" /\ msg'[r] = msg[r] /\ spawned'[r] = k
      /\ \A q \in Replica \ {r} :
           pc'[q] = pc[q] /\ msg'[q] = msg[q] /\ spawned'[q] = spawned[q] /\ tool'[q] = tool[q]
  BY <1>1, <1>2 DEF JInv, PlaceTypes, ToolTypes
<1> QED BY <1>4, <1>5, <1>6, OneReplicaStep

\* g.Wait: nothing is pending and nobody is active, so what is out is back.
LEMMA WaitJoins == ASSUME NEW r \in Replica, JInv, WaitTools(r) PROVE JInv'
<1>1. /\ pc[r] = "tools" /\ Pending(r) = {} /\ Active(r) = {}
      /\ pc' = [pc EXCEPT ![r] = "scoring"]
      /\ UNCHANGED <<msg, spawned, tool>>
  BY DEF WaitTools, Goto
<1>2. ASSUME NEW i \in 1..Len(ToolOrder)
      PROVE  IF i \in Planned(msg[r]) THEN Back(r, ToolOrder[i]) ELSE ~Out(r, ToolOrder[i])
  <2>1. Out(r, ToolOrder[i]) <=> i <= spawned[r] /\ i \in Planned(msg[r])
    BY <1>1 DEF JInv, ToolsFollowTheMessage
  <2>2. ToolOrder[i] \in Tool
    BY Places
  <2>3. tool[r][ToolOrder[i]] \notin {"running", "doomed"}
    BY <1>1, <2>2 DEF Active
  <2>4. Out(r, ToolOrder[i]) => Back(r, ToolOrder[i])
    BY <2>2, <2>3 DEF Out, Back, JInv, ToolTypes, ToolState
  <2>5. i \in Int /\ spawned[r] \in Int
    BY DEF ToolOrder, JInv, PlaceTypes
  <2>6. i \in Planned(msg[r]) => i <= spawned[r]
    BY <1>1, <2>5 DEF Pending
  <2> QED BY <2>1, <2>4, <2>6
<1>3. ToolTypes' /\ PlaceTypes'
  BY <1>1 DEF JInv, ToolTypes, PlaceTypes
<1>4. /\ pc'[r] = "scoring"
      /\ \A q \in Replica \ {r} : pc'[q] = pc[q]
  BY <1>1 DEF JInv, PlaceTypes
<1> QED BY <1>1, <1>2, <1>3, <1>4, OneReplicaStep DEF Out, Back

\* A tool that returns was out and is back.
LEMMA ReturnJoins ==
  ASSUME NEW r \in Replica, NEW t \in Tool, JInv, ToolReturns(r, t) PROVE JInv'
<1>1. /\ \E o \in {"found", "clean", "error"} : tool' = [tool EXCEPT ![r][t] = o]
      /\ tool[r][t] \in {"running", "doomed"}
      /\ UNCHANGED <<pc, msg, spawned>>
  BY DEF ToolReturns
<1>2. PICK o \in {"found", "clean", "error"} : tool' = [tool EXCEPT ![r][t] = o]
  BY <1>1
<1>3. ToolTypes' /\ PlaceTypes'
  BY <1>1, <1>2 DEF JInv, ToolTypes, ToolState, PlaceTypes
<1>4. ASSUME NEW i \in 1..Len(ToolOrder)
      PROVE  /\ Out(r, ToolOrder[i])' <=> Out(r, ToolOrder[i])
             /\ Back(r, ToolOrder[i]) => Back(r, ToolOrder[i])'
  <2>1. ToolOrder[i] \in Tool
    BY Places
  <2>2. CASE ToolOrder[i] = t
    BY <1>1, <1>2, <2>2 DEF Out, Back, JInv, ToolTypes
  <2>3. CASE ToolOrder[i] # t
    BY <1>2, <2>1, <2>3 DEF Out, Back, JInv, ToolTypes
  <2> QED BY <2>2, <2>3
<1>5. \A q \in Replica \ {r} : tool'[q] = tool[q]
  BY <1>2 DEF JInv, ToolTypes
<1> QED BY <1>1, <1>3, <1>4, <1>5, OneReplicaStep DEF JInv, ToolsFollowTheMessage, Out, Back

\* The steps that bring a replica to another part of its loop.
LEMMA OtherJoins ==
  ASSUME NEW r \in Replica, JInv,
         \/ Read(r) \/ ReadNothing(r) \/ Acquire(r) \/ LockedOut(r) \/ LockError(r) \/ Begin(r)
         \/ SelfCorrect(r) \/ Publish(r) \/ Crash(r)
  PROVE  JInv'
<1> USE DEF JInv, ToolTypes, PlaceTypes
<1>1. CASE Read(r)
  <2>1. /\ msg' = [msg EXCEPT ![r] = Head(inbox[r])] /\ pc' = [pc EXCEPT ![r] = "locking"]
        /\ UNCHANGED <<spawned, tool>>
    BY <1>1 DEF Read, Goto
  <2>2. ToolTypes' /\ PlaceTypes' /\ pc'[r] = "locking"
    BY <2>1
  <2>3. \A q \in Replica \ {r} : pc'[q] = pc[q] /\ msg'[q] = msg[q]
    BY <2>1
  <2> QED BY <2>1, <2>2, <2>3, OneReplicaStep
<1>2. CASE ReadNothing(r)
  BY <1>2 DEF ReadNothing, handler, ToolsFollowTheMessage, Out, Back
<1>3. CASE Acquire(r) \/ LockedOut(r) \/ LockError(r) \/ Publish(r)
  <2>1. /\ \E l \in {"saving", "reading"} : pc' = [pc EXCEPT ![r] = l]
        /\ UNCHANGED <<msg, spawned, tool>>
    BY <1>3 DEF Acquire, LockedOut, LockError, Publish, Goto, handler
  <2>2. ToolTypes' /\ PlaceTypes' /\ pc'[r] \in {"saving", "reading"}
    BY <2>1
  <2>3. \A q \in Replica \ {r} : pc'[q] = pc[q]
    BY <2>1
  <2> QED BY <2>1, <2>2, <2>3, OneReplicaStep
<1>4. CASE Begin(r)
  <2>1. /\ pc' = [pc EXCEPT ![r] = "tools"]
        /\ spawned' = [spawned EXCEPT ![r] = 0]
        /\ tool' = [tool EXCEPT ![r] = [t \in Tool |-> "idle"]]
        /\ msg' = msg
    BY <1>4 DEF Begin, Goto
  <2>2. ToolTypes'
    BY <2>1 DEF ToolState
  <2>3. PlaceTypes' /\ pc'[r] = "tools" /\ spawned'[r] = 0
    BY <2>1
  <2>4. \A q \in Replica \ {r} : pc'[q] = pc[q] /\ spawned'[q] = spawned[q] /\ tool'[q] = tool[q]
    BY <2>1
  <2>5. \A i \in 1..Len(ToolOrder) : tool'[r][ToolOrder[i]] = "idle" /\ ~(i <= 0)
    BY <2>1, Places DEF ToolOrder
  <2> QED BY <2>1, <2>2, <2>3, <2>4, <2>5, OneReplicaStep
<1>5. CASE SelfCorrect(r)
  <2>1. /\ pc' = [pc EXCEPT ![r] = "publishing"] /\ pc[r] = "scoring"
        /\ UNCHANGED <<msg, spawned, tool>>
    BY <1>5 DEF SelfCorrect, Goto
  <2>2. ToolTypes' /\ PlaceTypes' /\ pc'[r] = "publishing"
    BY <2>1
  <2>3. \A q \in Replica \ {r} : pc'[q] = pc[q]
    BY <2>1
  <2> QED BY <2>1, <2>2, <2>3, OneReplicaStep DEF ToolsFollowTheMessage, Out, Back
<1>6. CASE Crash(r)
  <2>1. /\ pc' = [pc EXCEPT ![r] = "reading"]
        /\ tool' = [tool EXCEPT ![r] = [t \in Tool |-> "idle"]]
        /\ UNCHANGED <<msg, spawned>>
    BY <1>6 DEF Crash, Goto
  <2>2. ToolTypes'
    BY <2>1 DEF ToolState
  <2>3. PlaceTypes' /\ pc'[r] = "reading"
    BY <2>1
  <2>4. \A q \in Replica \ {r} : pc'[q] = pc[q] /\ tool'[q] = tool[q]
    BY <2>1
  <2> QED BY <2>1, <2>2, <2>3, <2>4, OneReplicaStep
<1> QED BY <1>1, <1>2, <1>3, <1>4, <1>5, <1>6

LEMMA NextJInv == JInv /\ [Next]_vars => JInv'
<1> SUFFICES ASSUME JInv, [Next]_vars PROVE JInv'
  OBVIOUS
<1>1. CASE UNCHANGED vars \/ Tick
  <2>1. UNCHANGED <<pc, msg, spawned, tool>>
    BY <1>1 DEF vars, Tick, handler
  <2> QED BY <2>1 DEF JInv, ToolTypes, PlaceTypes, ToolsFollowTheMessage, Out, Back
<1>2. ASSUME NEW r \in Replica, Main(r) \/ Crash(r) PROVE JInv'
  BY <1>2, SpawnJoins, WaitJoins, OtherJoins DEF Main
<1> QED BY <1>1, <1>2, ReturnJoins DEF Next

\* When a handler reads its flags, exactly the tools its message calls for have
\* run and all of them are back; and never were more than g.SetLimit allows
\* active at once, however they hang, fail and are cancelled (main.go:71-196).
THEOREM ToolsAlwaysJoined == SafeSpec => []ToolsAreJoined
<1>1. JInv => ScoredOnCompleteEvidence
  <2> SUFFICES ASSUME JInv, NEW r \in Replica, NEW t \in Tool, pc[r] \in {"scoring", "publishing"}
               PROVE  Back(r, t) <=> Gate(msg[r], t)
    BY DEF ScoredOnCompleteEvidence, Back
  <2>1. PICK i \in 1..Len(ToolOrder) : ToolOrder[i] = t
    BY Places
  <2>2. IF i \in Planned(msg[r]) THEN Back(r, t) ELSE ~Out(r, t)
    BY <2>1 DEF JInv, ToolsFollowTheMessage
  <2>3. i \in Planned(msg[r]) <=> Gate(msg[r], t)
    BY <2>1 DEF Planned
  <2>4. Back(r, t) => Out(r, t)
    BY DEF Back, Out
  <2> QED BY <2>2, <2>3, <2>4
<1>2. JInv /\ WithinToolLimit => ToolsAreJoined
  BY <1>1 DEF ToolsAreJoined
<1> QED BY <1>2, InitJInv, NextJInv, ToolLimitHolds, PTL DEF SafeSpec

-----------------------------------------------------------------------------
(* The whole type invariant.  Intervals are named and kept closed. *)

LockLife == 0..LockTTL
ContextLife == 0..ToolTimeout
Place == 0..Len(ToolOrder)
Confidences == [rootkit : Nat, lateral : Nat, falsePositive : Nat]

RestTypes ==
  /\ pc \in [Replica -> {"reading", "locking", "saving", "tools", "scoring", "publishing"}]
  /\ lock \in [Case -> LockLife]
  /\ held \in [Replica -> LockLife]
  /\ ctxLeft \in [Replica -> ContextLife]
  /\ cancelled \in [Replica -> BOOLEAN]
  /\ spawned \in [Replica -> Place]
  /\ hyp \in [Replica -> Confidences]
  /\ gemma \in [Replica -> {"none", "asked", "refused"}]
  /\ findings \in [Case -> Nat]
  /\ started \in [Case -> Nat]
  /\ finished \subseteq Case
  /\ dropped \subseteq Case
  /\ faults \in Scenario

TypeInv == LInv /\ ToolTypes /\ RestTypes

LEMMA Lives ==
  /\ LockTTL \in LockLife /\ 0 \in LockLife
  /\ \A n \in LockLife : IF n > 0 THEN n - 1 \in LockLife ELSE 0 \in LockLife
  /\ \A n \in LockLife : IF n < LockTTL THEN n + 1 \in LockLife ELSE LockTTL \in LockLife
  /\ ToolTimeout \in ContextLife /\ 0 \in ContextLife
  /\ \A n \in ContextLife : IF n > 0 THEN n - 1 \in ContextLife ELSE 0 \in ContextLife
<1>1. LockTTL \in Nat /\ ToolTimeout \in Nat
  BY OrchestratorAssumption
<1> QED BY <1>1 DEF LockLife, ContextLife

\* The scores of a message and what findings add are no less than nothing.
LEMMA TrackerTyped ==
  ASSUME NEW m \in ML1Message PROVE HypothesisTracker(m) \in Confidences
<1>1. m.memory \in Score /\ m.logs \in Score
  BY OrchestratorAssumption DEF ScoredMessage
<1>2. \A n \in Score : n \in Nat
  BY DEF Score
<1>3. m.memory \in Nat /\ m.logs \in Nat
  BY <1>1, <1>2
<1> QED BY <1>3 DEF HypothesisTracker, Confidences

LEMMA AdjustTyped ==
  ASSUME NEW h \in Confidences, NEW found PROVE Adjust(h, found) \in Confidences
<1>1. Evidence(found) \in Nat
  BY DEF Evidence, Gain
<1>2. h.rootkit \in Nat /\ h.lateral \in Nat /\ h.falsePositive \in Nat
  BY DEF Confidences
<1> QED BY <1>1, <1>2 DEF Adjust, Confidences

LEMMA InitTypes == Init => TypeInv
<1> SUFFICES ASSUME Init PROVE TypeInv
  OBVIOUS
<1>1. LInv /\ ToolTypes
  BY InitLInv, InitTInv DEF TInv
<1>2. 0 \in Place
  BY DEF Place, ToolOrder
<1>3. NoHypotheses \in Confidences
  BY DEF NoHypotheses, Confidences
<1>4. RestTypes
  BY <1>2, <1>3, Lives DEF Init, RestTypes
<1> QED BY <1>1, <1>4 DEF TypeInv

\* The steps before the tools.
LEMMA LockTypesStep ==
  ASSUME TypeInv, NEW r \in Replica,
         Read(r) \/ ReadNothing(r) \/ Acquire(r) \/ LockedOut(r) \/ LockError(r)
  PROVE  RestTypes'
<1>1. RestTypes /\ msg[r].case \in Case
  BY MessageCase DEF TypeInv, LInv, LockTypes
<1> USE DEF RestTypes
<1>2. CASE Read(r)
  BY <1>1, <1>2 DEF Read, Goto, clock, history
<1>3. CASE ReadNothing(r)
  BY <1>1, <1>3 DEF ReadNothing, handler, clock, history
<1>4. CASE Acquire(r)
  <2>1. PICK c \in Case : c = msg[r].case
    BY <1>1
  <2>2. /\ lock' = [lock EXCEPT ![c] = LockTTL] /\ held' = [held EXCEPT ![r] = 0]
        /\ started' = [started EXCEPT ![c] = @ + 1] /\ pc' = [pc EXCEPT ![r] = "saving"]
    BY <1>4, <2>1 DEF Acquire, Goto
  <2>3. lock' \in [Case -> LockLife] /\ held' \in [Replica -> LockLife]
    BY <1>1, <2>2, Lives
  <2>4. started' \in [Case -> Nat]
    BY <1>1, <2>2
  <2> QED BY <1>1, <1>4, <2>2, <2>3, <2>4 DEF Acquire, handler
<1>5. CASE LockedOut(r)
  BY <1>1, <1>5 DEF LockedOut, Goto, handler, clock
<1>6. CASE LockError(r)
  <2>1. PICK c \in Case : c = msg[r].case
    BY <1>1
  <2>2. lock' \in {lock, [lock EXCEPT ![c] = IF @ = 0 THEN LockTTL ELSE @]}
    BY <1>6, <2>1 DEF LockError
  <2>3. lock' \in [Case -> LockLife]
    BY <1>1, <2>2, Lives
  <2> QED BY <1>1, <1>6, <2>3 DEF LockError, Goto, handler
<1> QED BY <1>2, <1>3, <1>4, <1>5, <1>6

\* The handler.
LEMMA HandlerTypesStep ==
  ASSUME TypeInv, NEW r \in Replica,
         \/ Begin(r) \/ Spawn(r) \/ WaitTools(r) \/ SelfCorrect(r) \/ Publish(r) \/ Crash(r)
         \/ \E t \in Tool : ToolReturns(r, t)
  PROVE  RestTypes'
<1>1. RestTypes /\ msg[r].case \in Case
  BY MessageCase DEF TypeInv, LInv, LockTypes
<1>2. CASE Begin(r)
  <2>1. HypothesisTracker(msg[r]) \in Confidences
    BY TrackerTyped DEF TypeInv, LInv, LockTypes
  <2>2. hyp' \in [Replica -> Confidences]
    BY <1>1, <1>2, <2>1 DEF RestTypes, Begin
  <2>3. 0 \in Place
    BY DEF Place, ToolOrder
  <2>4. ctxLeft' \in [Replica -> ContextLife] /\ spawned' \in [Replica -> Place]
    BY <1>1, <1>2, <2>3, Lives DEF RestTypes, Begin
  <2> QED BY <1>1, <1>2, <2>2, <2>4 DEF RestTypes, Begin, Goto, history
<1>3. CASE Spawn(r)
  <2>1. PICK i \in Pending(r) : spawned' = [spawned EXCEPT ![r] = i]
    BY <1>3 DEF Spawn
  <2>2. i \in Place
    BY <2>1 DEF Pending, Planned, Place, ToolOrder
  <2>3. spawned' \in [Replica -> Place]
    BY <1>1, <2>1, <2>2 DEF RestTypes
  <2> QED BY <1>1, <1>3, <2>3 DEF RestTypes, Spawn, clock, history
<1>4. CASE WaitTools(r)
  <2>1. Adjust(hyp[r], Found(r)) \in Confidences
    BY <1>1, AdjustTyped DEF RestTypes
  <2>2. hyp' \in [Replica -> Confidences]
    BY <1>1, <1>4, <2>1 DEF RestTypes, WaitTools
  <2> QED BY <1>1, <1>4, <2>2 DEF RestTypes, WaitTools, Goto, clock, history
<1>5. CASE SelfCorrect(r)
  <2>1. gemma' \in [Replica -> {"none", "asked", "refused"}]
    BY <1>1, <1>5 DEF RestTypes, SelfCorrect
  <2> QED BY <1>1, <1>5, <2>1 DEF RestTypes, SelfCorrect, Goto, clock, history
<1>6. CASE Publish(r)
  <2>1. PICK c \in Case : c = msg[r].case
    BY <1>1
  <2>2. findings' \in {findings, [findings EXCEPT ![c] = @ + 1]} /\ finished' = finished \cup {c}
    BY <1>6, <2>1 DEF Publish
  <2>3. findings' \in [Case -> Nat]
    BY <1>1, <2>2 DEF RestTypes
  <2> QED BY <1>1, <1>6, <2>2, <2>3 DEF RestTypes, Publish, Goto, handler, clock
<1>7. CASE Crash(r)
  BY <1>1, <1>7 DEF RestTypes, Crash, Goto, clock, history
<1>8. ASSUME NEW t \in Tool, ToolReturns(r, t) PROVE RestTypes'
  <2>1. cancelled' \in [Replica -> BOOLEAN]
    BY <1>1, <1>8 DEF RestTypes, ToolReturns
  <2> QED BY <1>1, <1>8, <2>1 DEF RestTypes, ToolReturns, clock, history
<1> QED BY <1>2, <1>3, <1>4, <1>5, <1>6, <1>7, <1>8

LEMMA NextTypes == TypeInv /\ ToolTypes' /\ [Next]_vars => TypeInv'
<1> SUFFICES ASSUME TypeInv, ToolTypes', [Next]_vars PROVE RestTypes'
  BY NextLInv DEF TypeInv
<1>1. RestTypes
  BY DEF TypeInv
<1>2. CASE UNCHANGED vars
  BY <1>1, <1>2 DEF RestTypes, vars, handler, clock, history
<1>3. CASE Tick
  <2>1. lock' \in [Case -> LockLife]
    BY <1>1, <1>3, Lives DEF RestTypes, Tick
  <2>2. held' \in [Replica -> LockLife]
    BY <1>1, <1>3, Lives DEF RestTypes, Tick
  <2>3. ctxLeft' \in [Replica -> ContextLife]
    BY <1>1, <1>3, Lives DEF RestTypes, Tick
  <2> QED BY <1>1, <1>3, <2>1, <2>2, <2>3 DEF RestTypes, Tick, handler, history
<1>4. ASSUME NEW r \in Replica, Main(r) \/ Crash(r) \/ \E t \in Tool : ToolReturns(r, t)
      PROVE  RestTypes'
  BY <1>4, LockTypesStep, HandlerTypesStep DEF Main
<1> QED BY <1>2, <1>3, <1>4 DEF Next

\* The state of every replica, of Redis and of the topic stays well-formed, the
\* confidences natural numbers among it (main.go:31-330).
THEOREM TypeCorrect == SafeSpec => []TypeOK
<1>1. TypeInv => TypeOK
  BY DEF TypeInv, LInv, LockTypes, ToolTypes, RestTypes, TypeOK, LockLife, ContextLife, Place,
     Confidences
<1>2. TInv => ToolTypes
  BY DEF TInv
<1>3. SafeSpec => []ToolTypes
  BY <1>2, InitTInv, NextTInv, PTL DEF SafeSpec
<1> QED BY <1>1, <1>3, InitTypes, NextTypes, PTL DEF SafeSpec
=============================================================================
