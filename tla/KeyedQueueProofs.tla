-------------------------- MODULE KeyedQueueProofs --------------------------
(***************************************************************************)
(* KeyedQueue implements Admission with one permit per key, for any        *)
(* callers and keys.  The ghost tickets carry the argument: the links of a *)
(* key that have not settled hold exactly the tickets from served to       *)
(* issued, each is chained behind the one before it, and the map's entry   *)
(* is the last of them.  Semaphore, which the settles run instantiates     *)
(* with the same callers, follows, for any number of permits.              *)
(***************************************************************************)
EXTENDS MCSettles, Sequences, FiniteSetTheorems, TLAPS

Unsettled(c) == step[c] \in {"chained", "running", "ended"}

\* The tickets of the links that have not settled.
Numbered ==
    /\ \A k \in Keys : served[k] <= issued[k]
    /\ \A c \in Callers : Unsettled(c) =>
         served[key[c]] <= ticket[c] /\ ticket[c] < issued[key[c]]
    /\ \A c \in Callers : step[c] = "settled" => ticket[c] < served[key[c]]
    /\ \A c \in Callers : step[c] \in {"running", "ended"} => ticket[c] = served[key[c]]
    /\ \A c, d \in Callers :
         Unsettled(c) /\ Unsettled(d) /\ key[c] = key[d] /\ ticket[c] = ticket[d] => c = d

\* Each is chained behind the one before it.
Linked ==
    \A c \in Callers : Unsettled(c) =>
      /\ prev[c] = Nobody => ticket[c] = served[key[c]]
      /\ prev[c] # Nobody =>
           /\ key[prev[c]] = key[c] /\ step[prev[c]] # "idle"
           /\ ticket[c] = ticket[prev[c]] + 1

\* The entry of the map is the last of them.
Entered ==
    \A k \in Keys :
      /\ tail[k] = Nobody => served[k] = issued[k]
      /\ tail[k] # Nobody =>
           key[tail[k]] = k /\ Unsettled(tail[k]) /\ ticket[tail[k]] + 1 = issued[k]

IInv == TypeOK /\ Numbered /\ Linked /\ Entered

\* The invariant holds at the start.
LEMMA InitIInv == Init => IInv
BY SMT DEF Init, IInv, TypeOK, Steps, Numbered, Linked, Entered, Unsettled

\* A call chains itself behind the entry it found.
LEMMA ChainsIInv == ASSUME IInv, NEW c \in Callers, Chains(c) PROVE IInv'
<1> USE NobodyAssumption
<1>1. TypeOK'
  BY SMT DEF IInv, TypeOK, Steps, Chains
<1>2. /\ step[c] = "idle" /\ key' = key /\ served' = served
      /\ step'[c] = "chained" /\ ticket'[c] = issued[key[c]]
      /\ \A d \in Callers \ {c} :
           step'[d] = step[d] /\ ticket'[d] = ticket[d] /\ prev'[d] = prev[d]
      /\ prev'[c] = tail[key[c]] /\ tail'[key[c]] = c
      /\ issued'[key[c]] = issued[key[c]] + 1
      /\ \A k \in Keys \ {key[c]} : tail'[k] = tail[k] /\ issued'[k] = issued[k]
  BY SMT DEF IInv, TypeOK, Chains
<1>3. Numbered'
  BY <1>2, SMT DEF IInv, TypeOK, Numbered, Unsettled, Steps
<1>4. Linked'
  <2> SUFFICES ASSUME NEW d \in Callers, Unsettled(d)'
               PROVE /\ prev'[d] = Nobody => ticket'[d] = served'[key'[d]]
                     /\ prev'[d] # Nobody =>
                          /\ key'[prev'[d]] = key'[d] /\ step'[prev'[d]] # "idle"
                          /\ ticket'[d] = ticket'[prev'[d]] + 1
    BY DEF Linked
  <2>1. CASE d = c
    BY <1>2, <2>1, SMT DEF IInv, TypeOK, Entered, Unsettled
  <2>2. CASE d # c
    <3>1. Unsettled(d)
      BY <1>2, <2>2, SMT DEF Unsettled
    <3>2. prev'[d] = prev[d] /\ ticket'[d] = ticket[d]
      BY <1>2, <2>2
    <3>3. prev[d] # Nobody => prev[d] \in Callers \ {c}
      BY <1>2, <3>1, SMT DEF IInv, TypeOK, Linked
    <3> QED
      BY <1>2, <3>1, <3>2, <3>3, SMT DEF IInv, Linked
  <2> QED
    BY <2>1, <2>2
<1>5. Entered'
  <2> SUFFICES ASSUME NEW k \in Keys
               PROVE /\ tail'[k] = Nobody => served'[k] = issued'[k]
                     /\ tail'[k] # Nobody =>
                          key'[tail'[k]] = k /\ Unsettled(tail[k])' /\ ticket'[tail'[k]] + 1 = issued'[k]
    BY DEF Entered
  <2>1. CASE k = key[c]
    BY <1>2, <2>1, SMT DEF Unsettled
  <2>2. CASE k # key[c]
    <3>1. tail'[k] = tail[k] /\ issued'[k] = issued[k]
      BY <1>2, <2>2
    <3>2. tail[k] # Nobody => tail[k] \in Callers \ {c}
      BY <1>2, SMT DEF IInv, TypeOK, Entered, Unsettled
    <3> QED
      BY <1>2, <3>1, <3>2, SMT DEF IInv, Entered, Unsettled
  <2> QED
    BY <2>1, <2>2
<1> QED
  BY <1>1, <1>3, <1>4, <1>5 DEF IInv

\* A call starts when the link before it has settled: it holds the ticket being served.
LEMMA StartsIInv == ASSUME IInv, NEW c \in Callers, Starts(c) PROVE IInv'
<1>1. ticket[c] = served[key[c]]
  <2>1. Unsettled(c)
    BY DEF Starts, Unsettled
  <2>2. CASE prev[c] = Nobody
    BY <2>1, <2>2 DEF IInv, Linked
  <2>3. CASE prev[c] # Nobody
    <3>1. prev[c] \in Callers /\ step[prev[c]] = "settled" /\ key[prev[c]] = key[c]
      BY <2>1, <2>3 DEF IInv, TypeOK, Linked, Starts
    <3>2. ticket[prev[c]] < served[key[c]] /\ ticket[c] = ticket[prev[c]] + 1
      BY <2>1, <2>3, <3>1 DEF IInv, Numbered, Linked
    <3>3. served[key[c]] <= ticket[c]
      BY <2>1 DEF IInv, Numbered
    <3> QED
      BY <3>1, <3>2, <3>3, SMT DEF IInv, TypeOK
  <2> QED
    BY <2>2, <2>3
<1>2. /\ UNCHANGED <<key, prev, tail, ticket, issued, served>>
      /\ step[c] = "chained" /\ step'[c] = "running"
      /\ \A d \in Callers \ {c} : step'[d] = step[d]
  BY SMT DEF IInv, TypeOK, Starts
<1>3. TypeOK'
  BY SMT DEF IInv, TypeOK, Steps, Starts
<1>4. Numbered'
  BY <1>1, <1>2, SMT DEF IInv, TypeOK, Numbered, Unsettled
<1>5. Linked' /\ Entered'
  BY <1>2, SMT DEF IInv, TypeOK, Linked, Entered, Unsettled
<1> QED
  BY <1>3, <1>4, <1>5 DEF IInv

\* The work ends; its link has not settled yet.
LEMMA EndsIInv == ASSUME IInv, NEW c \in Callers, Ends(c) PROVE IInv'
<1>1. /\ UNCHANGED <<key, prev, tail, ticket, issued, served>>
      /\ step[c] = "running" /\ step'[c] = "ended"
      /\ \A d \in Callers \ {c} : step'[d] = step[d]
  BY SMT DEF IInv, TypeOK, Ends
<1>2. TypeOK'
  BY SMT DEF IInv, TypeOK, Steps, Ends
<1>3. Numbered'
  BY <1>1, SMT DEF IInv, TypeOK, Numbered, Unsettled
<1>4. Linked' /\ Entered'
  BY <1>1, SMT DEF IInv, TypeOK, Linked, Entered, Unsettled
<1> QED
  BY <1>2, <1>3, <1>4 DEF IInv

\* The link settles and the next ticket is served; the entry goes only if it was the last.
LEMMA SettlesIInv == ASSUME IInv, NEW c \in Callers, Settles(c) PROVE IInv'
<1> USE NobodyAssumption
<1>1. TypeOK'
  BY SMT DEF IInv, TypeOK, Steps, Settles, SettlesLink
<1>2. /\ UNCHANGED <<key, prev, ticket, issued>>
      /\ step[c] = "ended" /\ step'[c] = "settled"
      /\ served'[key[c]] = served[key[c]] + 1
      /\ \A d \in Callers \ {c} : step'[d] = step[d]
      /\ \A k \in Keys \ {key[c]} : served'[k] = served[k] /\ tail'[k] = tail[k]
      /\ tail'[key[c]] = IF tail[key[c]] = c THEN Nobody ELSE tail[key[c]]
  BY SMT DEF IInv, TypeOK, Settles, SettlesLink
<1>3. ticket[c] = served[key[c]] /\ ticket[c] < issued[key[c]]
  BY <1>2 DEF IInv, Numbered, Unsettled
<1>4. ASSUME NEW d \in Callers \ {c}, key[d] = key[c], Unsettled(d)
      PROVE ticket[d] > ticket[c]
  <2>1. ticket[d] # ticket[c] /\ served[key[c]] <= ticket[d]
    BY <1>2, <1>4 DEF IInv, Numbered, Unsettled
  <2> QED
    BY <1>3, <2>1, SMT DEF IInv, TypeOK
<1>5. Numbered'
  BY <1>2, <1>3, <1>4, SMT DEF IInv, TypeOK, Numbered, Unsettled
<1>6. Linked'
  <2> SUFFICES ASSUME NEW d \in Callers, Unsettled(d)'
               PROVE /\ prev'[d] = Nobody => ticket'[d] = served'[key'[d]]
                     /\ prev'[d] # Nobody =>
                          /\ key'[prev'[d]] = key'[d] /\ step'[prev'[d]] # "idle"
                          /\ ticket'[d] = ticket'[prev'[d]] + 1
    BY DEF Linked
  <2>1. d # c /\ Unsettled(d)
    BY <1>2, SMT DEF Unsettled
  <2>2. prev[d] = Nobody => key[d] # key[c]
    BY <1>3, <1>4, <2>1, SMT DEF IInv, TypeOK, Linked
  <2>3. prev[d] # Nobody => prev[d] \in Callers /\ (step'[prev[d]] = "idle" => step[prev[d]] = "idle")
    BY <1>2, SMT DEF IInv, TypeOK
  <2> QED
    BY <1>2, <2>1, <2>2, <2>3, SMT DEF IInv, TypeOK, Linked
<1>7. Entered'
  <2> SUFFICES ASSUME NEW k \in Keys
               PROVE /\ tail'[k] = Nobody => served'[k] = issued'[k]
                     /\ tail'[k] # Nobody =>
                          key'[tail'[k]] = k /\ Unsettled(tail[k])' /\ ticket'[tail'[k]] + 1 = issued'[k]
    BY DEF Entered
  <2>1. CASE k # key[c]
    <3>1. tail'[k] = tail[k] /\ served'[k] = served[k]
      BY <1>2, <2>1
    <3>2. tail[k] # Nobody => tail[k] \in Callers \ {c}
      BY <2>1 DEF IInv, TypeOK, Entered
    <3> QED
      BY <1>2, <3>1, <3>2 DEF IInv, Entered, Unsettled
  <2>2. CASE k = key[c] /\ tail[k] = c
    BY <1>2, <1>3, <2>2, SMT DEF IInv, TypeOK, Entered
  <2>3. CASE k = key[c] /\ tail[k] # c
    <3>1. tail[k] # Nobody
      BY <1>3, <2>3, SMT DEF IInv, TypeOK, Entered
    <3>2. tail'[k] = tail[k] /\ tail[k] \in Callers \ {c}
      BY <1>2, <2>3, <3>1 DEF IInv, TypeOK
    <3> QED
      BY <1>2, <3>1, <3>2 DEF IInv, Entered, Unsettled
  <2> QED
    BY <2>1, <2>2, <2>3
<1> QED
  BY <1>1, <1>5, <1>6, <1>7 DEF IInv

\* A step that changes nothing keeps the invariant.
LEMMA StutterIInv == ASSUME IInv, UNCHANGED vars PROVE IInv'
BY SMT DEF IInv, TypeOK, Numbered, Linked, Entered, Unsettled, vars

\* Every step keeps the invariant.
LEMMA NextIInv == IInv /\ [Next]_vars => IInv'
BY ChainsIInv, StartsIInv, EndsIInv, SettlesIInv, StutterIInv DEF Next

\* The links that have not settled are numbered, chained and entered in arrival order, whatever
\* calls were made (the chain withKeyedQueue builds in locks.ts).
THEOREM IInvHolds == Spec => []IInv
BY InitIInv, NextIInv, PTL DEF Spec

\* The map has an entry exactly for the keys with work that has not settled (the cleanup of
\* withKeyedQueue): no key that has gone quiet is kept.
THEOREM NoEntryLeaks == Spec => []EntryIffWork
<1>1. IInv => EntryIffWork
  <2> SUFFICES ASSUME IInv, NEW k \in Keys PROVE tail[k] = Nobody <=> Live(k) = {}
    BY DEF EntryIffWork
  <2>1. ASSUME tail[k] = Nobody, NEW c \in Live(k) PROVE FALSE
    <3>1. Unsettled(c) /\ c \in Callers /\ key[c] = k
      BY <2>1 DEF Live, Unsettled
    <3> QED
      BY <2>1, <3>1, SMT DEF IInv, TypeOK, Numbered, Entered
  <2>2. ASSUME tail[k] # Nobody PROVE tail[k] \in Live(k)
    BY <2>2 DEF IInv, TypeOK, Entered, Live, Unsettled
  <2> QED
    BY <2>1, <2>2
<1> QED
  BY <1>1, IInvHolds, PTL

-----------------------------------------------------------------------------
(* The refinement *)

Stages == [c \in Callers |-> StageOf(c)]

\* A call waits in the abstract queue while it is chained, runs while its work runs, and is done
\* once its work has ended.
LEMMA StageMeans ==
    ASSUME NEW c \in Callers
    PROVE /\ step[c] = "idle" => Stages[c] = "idle"
          /\ step[c] = "running" => Stages[c] = "running"
BY DEF Stages, StageOf

\* A step of one call changes that call's stage only.
LEMMA StageMoves ==
    ASSUME TypeOK, NEW c \in Callers, NEW s,
           step' = [step EXCEPT ![c] = s]
    PROVE Stages' = [Stages EXCEPT ![c] = IF s = "chained" THEN "waiting"
                                          ELSE IF s \in {"ended", "settled"} THEN "done" ELSE s]
<1>1. \A d \in Callers : step'[d] = IF d = c THEN s ELSE step[d]
  BY DEF TypeOK
<1> QED
  BY <1>1 DEF Stages, StageOf

\* A chained call waits.
LEMMA ChainsArrives == ASSUME IInv, NEW c \in Callers, Chains(c) PROVE InOrder!Arrives(c)
<1>1. Stages' = [Stages EXCEPT ![c] = "waiting"]
  BY StageMoves DEF IInv, Chains
<1>2. Stages[c] = "idle"
  BY StageMeans DEF Chains
<1> QED
  BY <1>1, <1>2 DEF InOrder!Arrives, InOrder!Takes, Stages, Chains

\* A call whose predecessor's link has settled is the oldest that waits, and nothing runs.
LEMMA StartsAdmits == ASSUME IInv, NEW c \in Callers, Starts(c) PROVE InOrder!Admits(c)
<1>1. ticket[c] = served[key[c]] /\ step[c] = "chained"
  <2>1. IInv'
    BY StartsIInv
  <2>2. step'[c] = "running" /\ UNCHANGED <<key, ticket, served>>
    BY DEF Starts, IInv, TypeOK
  <2> QED
    BY <2>1, <2>2 DEF Starts, IInv, Numbered
<1>2. ASSUME NEW d \in Callers, key[d] = key[c], Unsettled(d) PROVE ticket[c] <= ticket[d]
  BY <1>1, <1>2 DEF IInv, Numbered
<1>3. ASSUME NEW d \in Callers, key[d] = key[c], step[d] = "running" PROVE FALSE
  BY <1>1, <1>3 DEF IInv, Numbered, Unsettled
<1>4. InOrder!IsNext(c, key[c])
  <2>1. c \in InOrder!Waiting(key[c])
    BY <1>1 DEF InOrder!Waiting, StageOf
  <2>2. ASSUME NEW d \in InOrder!Waiting(key[c]) PROVE ticket[c] <= ticket[d]
    <3>1. d \in Callers /\ key[d] = key[c] /\ Unsettled(d)
      BY <2>2 DEF InOrder!Waiting, StageOf, Unsettled, IInv, TypeOK, Steps
    <3> QED
      BY <1>2, <3>1
  <2> QED
    BY <2>1, <2>2 DEF InOrder!IsNext
<1>5. InOrder!Cardinality(InOrder!Running(key[c])) < 1
  <2>1. InOrder!Running(key[c]) = {}
    BY <1>3 DEF InOrder!Running, StageOf, IInv, TypeOK, Steps
  <2>2. InOrder!Cardinality({}) = Cardinality({})
    BY DEF InOrder!Cardinality, Cardinality
  <2> QED
    BY <2>1, <2>2, FS_EmptySet
<1>6. Stages' = [Stages EXCEPT ![c] = "running"]
  BY StageMoves DEF IInv, Starts
<1>7. UNCHANGED <<key, ticket, issued>>
  BY DEF Starts
<1> QED
  BY <1>4, <1>5, <1>6, <1>7 DEF InOrder!Admits, Stages

\* A call whose work has ended has left.
LEMMA EndsLeaves == ASSUME IInv, NEW c \in Callers, Ends(c) PROVE InOrder!Leaves(c)
<1>1. Stages' = [Stages EXCEPT ![c] = "done"]
  BY StageMoves DEF IInv, Ends
<1>2. Stages[c] = "running"
  BY StageMeans DEF Ends
<1> QED
  BY <1>1, <1>2 DEF InOrder!Leaves, Stages, Ends

\* The link's settling is not seen.
LEMMA SettlesStutters ==
    ASSUME IInv, NEW c \in Callers, Settles(c) PROVE UNCHANGED InOrder!vars
<1>1. \A d \in Callers : StageOf(d)' = StageOf(d)
  BY DEF StageOf, Settles, SettlesLink, IInv, TypeOK
<1> QED
  BY <1>1 DEF InOrder!vars, Settles, SettlesLink

\* The initial states map to initial states.
LEMMA InitMaps == Init => InOrder!Init
BY DEF Init, InOrder!Init, StageOf

\* Every step maps to a step or to a stutter.
LEMMA NextMaps == IInv /\ [Next]_vars => [InOrder!Next]_(InOrder!vars)
<1> SUFFICES ASSUME IInv, [Next]_vars PROVE [InOrder!Next]_(InOrder!vars)
  OBVIOUS
<1>1. ASSUME NEW c \in Callers, Chains(c) PROVE InOrder!Next
  BY <1>1, ChainsArrives DEF InOrder!Next
<1>2. ASSUME NEW c \in Callers, Starts(c) PROVE InOrder!Next
  BY <1>2, StartsAdmits DEF InOrder!Next
<1>3. ASSUME NEW c \in Callers, Ends(c) PROVE InOrder!Next
  BY <1>3, EndsLeaves DEF InOrder!Next
<1>4. ASSUME NEW c \in Callers, Settles(c) PROVE UNCHANGED InOrder!vars
  BY <1>4, SettlesStutters
<1>5. CASE UNCHANGED vars
  BY <1>5 DEF vars, InOrder!vars, StageOf
<1> QED
  BY <1>1, <1>2, <1>3, <1>4, <1>5 DEF Next

\* withKeyedQueue keeps its promise for any callers and keys: work on one key never overlaps and
\* starts in the order it was asked for.
THEOREM KeyedQueueImplementsAdmission == Spec => AdmitsInOrder
BY InitMaps, NextMaps, IInvHolds, PTL DEF Spec, AdmitsInOrder, InOrder!Spec

-----------------------------------------------------------------------------
(* The permits of the same run: Semaphore keeps them and implements Admission.  A permit is *)
(* available, with a call that runs, or on its way to a waiter, which one step of release   *)
(* hides: so nobody waits while one is available (Spare), and what waits is the queue, each *)
(* call once (Lining), oldest ticket first (InLine).                                        *)

Holding == {c \in Callers : phase[c] = "running"}

\* No permit is lost and none is made up.
Conserved == available + Cardinality(Holding) = Permits

\* Nobody waits while a permit is available.
Spare == available > 0 => waiters = <<>>

\* The calls that wait are those in the queue.
Lining ==
    /\ \A c \in Callers : phase[c] = "waiting" => \E i \in 1..Len(waiters) : waiters[i] = c
    /\ \A i \in 1..Len(waiters) : phase[waiters[i]] = "waiting"

\* They stand in the order of their tickets.
InLine ==
    /\ \A i \in 1..Len(waiters) : number[waiters[i]] < handed
    /\ \A i, j \in 1..Len(waiters) : i < j => number[waiters[i]] < number[waiters[j]]

PermitInv == Permitted!TypeOK /\ Conserved /\ Spare /\ Lining /\ InLine

LEMMA PermitsAreSome == Permits \in Nat \ {0} /\ IsFiniteSet(Callers)
<1>1. Permitted!IsFiniteSet(Callers) <=> IsFiniteSet(Callers)
  BY DEF Permitted!IsFiniteSet, IsFiniteSet
<1>. QED BY <1>1, InstancesAssumption DEF InstancesAssumption, Permitted!ConstantsAssumption

LEMMA SameSize == \A S : Permitted!Cardinality(S) = Cardinality(S)
  BY DEF Permitted!Cardinality, Cardinality

LEMMA HoldingFinite ==
    IsFiniteSet(Holding) /\ Cardinality(Holding) \in Nat
<1>1. Holding \in SUBSET Callers
  BY DEF Holding
<1>2. IsFiniteSet(Holding)
  BY PermitsAreSome, <1>1, FS_Subset
<1>. QED BY <1>2, FS_CardinalityType

\* A call starts to run.
LEMMA OneMore ==
    ASSUME NEW c \in Callers, c \notin Holding, Holding' = Holding \cup {c}
    PROVE  Cardinality(Holding') = Cardinality(Holding) + 1
  BY HoldingFinite, FS_AddElement

\* A call stops.
LEMMA OneLess ==
    ASSUME NEW c \in Holding, Holding' = Holding \ {c}
    PROVE  Cardinality(Holding') = Cardinality(Holding) - 1
  BY HoldingFinite, FS_RemoveElement

\* One call runs for another.
LEMMA OneForOne ==
    ASSUME NEW c \in Holding, NEW d \in Callers, d \notin Holding,
           Holding' = (Holding \ {c}) \cup {d}
    PROVE  Cardinality(Holding') = Cardinality(Holding)
<1>1. IsFiniteSet(Holding \ {c}) /\ Cardinality(Holding \ {c}) = Cardinality(Holding) - 1
  BY HoldingFinite, FS_RemoveElement
<1>2. Cardinality((Holding \ {c}) \cup {d}) = Cardinality(Holding \ {c}) + 1
  BY <1>1, FS_AddElement
<1>. QED BY <1>1, <1>2, HoldingFinite

(* The invariant. *)

LEMMA PermitInit == ASSUME Permitted!Init PROVE PermitInv
<1>1. Permitted!TypeOK /\ Spare /\ Lining /\ InLine
  BY PermitsAreSome DEF Permitted!Init, Permitted!TypeOK, Spare, Lining, InLine
<1>2. Holding = {}
  BY DEF Permitted!Init, Holding
<1>3. Conserved
  BY PermitsAreSome, <1>2, FS_EmptySet DEF Permitted!Init, Conserved, Holding
<1>. QED BY <1>1, <1>3 DEF PermitInv

LEMMA PermitPhases ==
    ASSUME Permitted!TypeOK, NEW c \in Callers, NEW s, phase' = [phase EXCEPT ![c] = s]
    PROVE  /\ phase'[c] = s
           /\ \A d \in Callers : d # c => phase'[d] = phase[d]
  BY DEF Permitted!TypeOK

LEMMA AcquiresKeeps == ASSUME PermitInv, NEW c \in Callers, Permitted!Acquires(c) PROVE PermitInv'
<1>0. Permitted!TypeOK /\ Conserved /\ available \in Nat /\ handed \in Nat
  BY DEF PermitInv, Permitted!TypeOK
<1>1. /\ phase[c] = "idle" /\ available > 0 /\ waiters = <<>> /\ waiters' = waiters
      /\ available' = available - 1 /\ phase' = [phase EXCEPT ![c] = "running"]
  BY DEF Permitted!Acquires, Permitted!Counted, PermitInv, Spare
<1>2. phase'[c] = "running" /\ \A d \in Callers : d # c => phase'[d] = phase[d]
  BY <1>0, <1>1, PermitPhases
<1>3. Permitted!TypeOK'
  BY PermitsAreSome, <1>0, <1>1 DEF Permitted!Acquires, Permitted!Counted, Permitted!TypeOK
<1>4. c \notin Holding /\ Holding' = Holding \cup {c}
  BY <1>1, <1>2 DEF Holding
<1>5. Cardinality(Holding') = Cardinality(Holding) + 1
  BY <1>4, OneMore
<1>6. Conserved'
  BY PermitsAreSome, <1>0, <1>1, <1>5, HoldingFinite DEF Conserved, Holding
<1>7. Spare' /\ Lining' /\ InLine'
  BY <1>1, <1>2 DEF PermitInv, Spare, Lining, InLine
<1>. QED BY <1>3, <1>6, <1>7 DEF PermitInv

LEMMA QueuesKeeps == ASSUME PermitInv, NEW c \in Callers, Permitted!Queues(c) PROVE PermitInv'
<1>0. Permitted!TypeOK /\ Conserved /\ handed \in Nat /\ waiters \in Seq(Callers)
      /\ number \in [Callers -> Nat]
  BY DEF PermitInv, Permitted!TypeOK
<1>1. /\ phase[c] = "idle" /\ available = 0 /\ available' = available
      /\ waiters' = Append(waiters, c) /\ phase' = [phase EXCEPT ![c] = "waiting"]
      /\ number' = [number EXCEPT ![c] = handed] /\ handed' = handed + 1
  BY DEF Permitted!Queues, Permitted!Counted
<1>2. phase'[c] = "waiting" /\ \A d \in Callers : d # c => phase'[d] = phase[d]
  BY <1>0, <1>1, PermitPhases
<1>3. Permitted!TypeOK'
  BY <1>0, <1>1 DEF Permitted!TypeOK
<1>4. Holding' = Holding
  BY <1>1, <1>2 DEF Holding
<1>5. Conserved'
  BY <1>0, <1>1, <1>4 DEF Conserved, Holding
<1>6. /\ Len(waiters) \in Nat /\ Len(waiters') = Len(waiters) + 1 /\ waiters'[Len(waiters) + 1] = c
      /\ \A i \in 1..Len(waiters) : waiters'[i] = waiters[i] /\ waiters[i] \in Callers
  BY <1>0, <1>1
<1>7. /\ number'[c] = handed
      /\ \A d \in Callers : d # c => number'[d] = number[d]
  BY <1>0, <1>1
<1>8. \A i \in 1..Len(waiters) : waiters[i] # c
  BY <1>1 DEF PermitInv, Lining
<1>9. Lining'
  <2>1. ASSUME NEW d \in Callers, phase'[d] = "waiting"
        PROVE  \E i \in 1..Len(waiters') : waiters'[i] = d
    <3>1. CASE d = c
      BY <1>6, <3>1
    <3>2. CASE d # c
      <4>1. PICK i \in 1..Len(waiters) : waiters[i] = d
        BY <1>2, <2>1, <3>2 DEF PermitInv, Lining
      <4>. QED BY <1>6, <4>1
    <3>. QED BY <3>1, <3>2
  <2>2. ASSUME NEW i \in 1..Len(waiters') PROVE phase'[waiters'[i]] = "waiting"
    <3>1. CASE i = Len(waiters) + 1
      BY <1>2, <1>6, <3>1
    <3>2. CASE i \in 1..Len(waiters)
      BY <1>2, <1>6, <1>8, <3>2 DEF PermitInv, Lining
    <3>. QED BY <1>6, <3>1, <3>2
  <2>. QED BY <2>1, <2>2 DEF Lining
<1>10. InLine'
  <2>1. \A i \in 1..Len(waiters) : /\ number'[waiters'[i]] = number[waiters[i]]
                                   /\ number[waiters[i]] \in Nat /\ number[waiters[i]] < handed
    BY <1>0, <1>6, <1>7, <1>8 DEF PermitInv, InLine
  <2>2. \A i \in 1..Len(waiters') : i \in 1..Len(waiters) \/ i = Len(waiters) + 1
    BY <1>6
  <2>3. \A i, j \in 1..Len(waiters) : i < j => number'[waiters'[i]] < number'[waiters'[j]]
    BY <2>1 DEF PermitInv, InLine
  <2>4. number'[waiters'[Len(waiters) + 1]] = handed
    BY <1>6, <1>7
  <2>5. ASSUME NEW i \in 1..Len(waiters') PROVE number'[waiters'[i]] < handed'
    BY <1>0, <1>1, <2>1, <2>2, <2>4
  <2>6. ASSUME NEW i \in 1..Len(waiters'), NEW j \in 1..Len(waiters'), i < j
        PROVE  number'[waiters'[i]] < number'[waiters'[j]]
    <3>1. i \in 1..Len(waiters)
      BY <1>6, <2>6
    <3>. QED BY <2>1, <2>2, <2>3, <2>4, <2>6, <3>1
  <2>. QED BY <2>5, <2>6 DEF InLine
<1>11. Spare'
  BY <1>1 DEF Spare
<1>. QED BY <1>3, <1>5, <1>9, <1>10, <1>11 DEF PermitInv

\* The head of a queue that is not empty, and what stands behind it.
LEMMA Heads ==
    ASSUME PermitInv, waiters # <<>>
    PROVE  /\ Len(waiters) \in Nat /\ 1 \in 1..Len(waiters) /\ waiters[1] = Head(waiters)
           /\ Head(waiters) \in Callers /\ phase[Head(waiters)] = "waiting"
           /\ Tail(waiters) \in Seq(Callers) /\ Len(Tail(waiters)) = Len(waiters) - 1
           /\ \A i \in 1..Len(Tail(waiters)) :
                i + 1 \in 1..Len(waiters) /\ Tail(waiters)[i] = waiters[i + 1]
           /\ \A i \in 1..Len(waiters) :
                i = 1 \/ (i - 1 \in 1..Len(Tail(waiters)) /\ Tail(waiters)[i - 1] = waiters[i])
<1>1. waiters \in Seq(Callers)
  BY DEF PermitInv, Permitted!TypeOK
<1>2. /\ Len(waiters) \in Nat /\ 1 \in 1..Len(waiters) /\ waiters[1] = Head(waiters)
      /\ Head(waiters) \in Callers
      /\ Tail(waiters) \in Seq(Callers) /\ Len(Tail(waiters)) = Len(waiters) - 1
  BY <1>1
<1>3. \A i \in 1..Len(Tail(waiters)) :
        i + 1 \in 1..Len(waiters) /\ Tail(waiters)[i] = waiters[i + 1]
  BY <1>1, <1>2
<1>4. ASSUME NEW i \in 1..Len(waiters), i # 1
      PROVE  i - 1 \in 1..Len(Tail(waiters)) /\ Tail(waiters)[i - 1] = waiters[i]
  <2>1. i - 1 \in 1..Len(Tail(waiters)) /\ (i - 1) + 1 = i
    BY <1>2, <1>4
  <2>. QED BY <1>3, <2>1
<1>5. phase[waiters[1]] = "waiting"
  BY <1>2 DEF PermitInv, Lining
<1>. QED BY <1>2, <1>3, <1>4, <1>5

LEMMA HandsOverKeeps == ASSUME PermitInv, NEW c \in Callers, Permitted!HandsOver(c) PROVE PermitInv'
<1>. DEFINE h == Head(waiters)
            rest == Tail(waiters)
<1>0. Permitted!TypeOK /\ Conserved /\ number \in [Callers -> Nat] /\ handed \in Nat
  BY DEF PermitInv, Permitted!TypeOK
<1>1. /\ phase[c] = "running" /\ waiters # <<>> /\ waiters' = rest
      /\ phase' = [phase EXCEPT ![c] = "done", ![h] = "running"]
      /\ UNCHANGED <<available, number, handed>>
  BY DEF Permitted!HandsOver
<1>2. /\ Len(waiters) \in Nat /\ 1 \in 1..Len(waiters) /\ waiters[1] = h
      /\ h \in Callers /\ phase[h] = "waiting"
      /\ rest \in Seq(Callers)
      /\ \A i \in 1..Len(rest) : i + 1 \in 1..Len(waiters) /\ rest[i] = waiters[i + 1]
      /\ \A i \in 1..Len(waiters) : i = 1 \/ (i - 1 \in 1..Len(rest) /\ rest[i - 1] = waiters[i])
  BY <1>1, Heads
<1>3. Len(rest) \in Nat
  BY <1>2
<1>. HIDE DEF h, rest
<1>4. h # c /\ phase'[c] = "done" /\ phase'[h] = "running"
      /\ \A d \in Callers : d # c /\ d # h => phase'[d] = phase[d]
  BY <1>0, <1>1, <1>2 DEF Permitted!TypeOK
<1>5. Permitted!TypeOK'
  BY <1>0, <1>1, <1>2 DEF Permitted!TypeOK
<1>6. c \in Holding /\ h \notin Holding /\ Holding' = (Holding \ {c}) \cup {h}
  BY <1>1, <1>2, <1>4 DEF Holding
<1>7. Cardinality(Holding') = Cardinality(Holding)
  BY <1>2, <1>6, OneForOne
<1>8. Conserved'
  BY <1>0, <1>1, <1>7 DEF Conserved, Holding
<1>9. Spare'
  BY <1>1 DEF PermitInv, Spare
<1>10. \A i, j \in 1..Len(waiters) : i < j => number[waiters[i]] < number[waiters[j]]
  BY DEF PermitInv, InLine
<1>11. \A i \in 1..Len(rest) : rest[i] \in Callers /\ rest[i] # h /\ phase[rest[i]] = "waiting"
  <2>. SUFFICES ASSUME NEW i \in 1..Len(rest)
                PROVE  rest[i] \in Callers /\ rest[i] # h /\ phase[rest[i]] = "waiting"
    OBVIOUS
  <2>1. rest[i] = waiters[i + 1] /\ i + 1 \in 1..Len(waiters) /\ 1 < i + 1 /\ rest[i] \in Callers
    BY <1>2, <1>3
  <2>2. number[h] < number[rest[i]] /\ number[h] \in Nat
    BY <1>0, <1>2, <1>10, <2>1
  <2>. QED BY <2>1, <2>2 DEF PermitInv, Lining
<1>12. Lining'
  <2>1. ASSUME NEW d \in Callers, phase'[d] = "waiting" PROVE \E i \in 1..Len(rest) : rest[i] = d
    <3>1. d # h /\ phase[d] = "waiting"
      BY <1>4, <2>1
    <3>2. PICK i \in 1..Len(waiters) : waiters[i] = d
      BY <3>1 DEF PermitInv, Lining
    <3>. QED BY <1>2, <3>1, <3>2
  <2>2. \A i \in 1..Len(rest) : phase'[rest[i]] = "waiting"
    BY <1>1, <1>4, <1>11
  <2>. QED BY <1>1, <2>1, <2>2 DEF Lining
<1>13. InLine'
  <2>1. \A i \in 1..Len(rest) : number[rest[i]] < handed
    BY <1>2 DEF PermitInv, InLine
  <2>2. ASSUME NEW i \in 1..Len(rest), NEW j \in 1..Len(rest), i < j
        PROVE  number[rest[i]] < number[rest[j]]
    <3>1. i + 1 < j + 1 /\ i + 1 \in 1..Len(waiters) /\ j + 1 \in 1..Len(waiters)
      BY <1>2, <1>3, <2>2
    <3>. QED BY <1>2, <1>10, <3>1
  <2>. QED BY <1>1, <2>1, <2>2 DEF InLine
<1>. QED BY <1>5, <1>8, <1>9, <1>12, <1>13 DEF PermitInv

LEMMA ReleasesKeeps == ASSUME PermitInv, NEW c \in Callers, Permitted!Releases(c) PROVE PermitInv'
<1>0. Permitted!TypeOK /\ Conserved /\ available \in 0..Permits
  BY DEF PermitInv, Permitted!TypeOK
<1>1. /\ phase[c] = "running" /\ waiters = <<>> /\ available' = available + 1
      /\ phase' = [phase EXCEPT ![c] = "done"] /\ UNCHANGED <<waiters, number, handed>>
  BY DEF Permitted!Releases
<1>2. phase'[c] = "done" /\ \A d \in Callers : d # c => phase'[d] = phase[d]
  BY <1>0, <1>1, PermitPhases
<1>3. c \in Holding /\ Holding' = Holding \ {c}
  BY <1>1, <1>2 DEF Holding
<1>4. Cardinality(Holding') = Cardinality(Holding) - 1 /\ Cardinality(Holding') \in Nat
  <2>1. IsFiniteSet(Holding \ {c})
    BY HoldingFinite, FS_RemoveElement
  <2>2. Cardinality(Holding \ {c}) \in Nat
    BY <2>1, FS_CardinalityType
  <2>. QED BY <1>3, <2>2, OneLess
<1>5. Conserved' /\ available' \in 0..Permits
  BY PermitsAreSome, <1>0, <1>1, <1>4, HoldingFinite DEF Conserved, Holding
<1>6. Permitted!TypeOK'
  BY <1>0, <1>1, <1>5 DEF Permitted!TypeOK
<1>7. Spare' /\ Lining' /\ InLine'
  BY <1>1, <1>2 DEF PermitInv, Spare, Lining, InLine
<1>. QED BY <1>5, <1>6, <1>7 DEF PermitInv

LEMMA PermitStep == PermitInv /\ [Permitted!Next]_(Permitted!vars) => PermitInv'
<1>. SUFFICES ASSUME PermitInv, [Permitted!Next]_(Permitted!vars) PROVE PermitInv'
  OBVIOUS
<1>1. ASSUME NEW c \in Callers, Permitted!Acquires(c) \/ Permitted!Queues(c) \/ Permitted!HandsOver(c) \/ Permitted!Releases(c)
      PROVE  PermitInv'
  BY <1>1, AcquiresKeeps, QueuesKeeps, HandsOverKeeps, ReleasesKeeps
<1>2. CASE UNCHANGED Permitted!vars
  BY <1>2 DEF Permitted!vars, PermitInv, Permitted!TypeOK, Conserved, Holding, Spare, Lining, InLine
<1>. QED BY <1>1, <1>2 DEF Permitted!Next

\* The permits and the queue, at every moment.
THEOREM PermitHolds == Permitted!Spec => []PermitInv
  BY PermitInit, PermitStep, PTL DEF Permitted!Spec

\* No permit is lost and none is made up, however the calls come and go.
THEOREM PermitsStay == Permitted!Spec => []Permitted!PermitsConserved
<1>1. PermitInv => Permitted!PermitsConserved
  BY SameSize DEF PermitInv, Conserved, Holding, Permitted!PermitsConserved
<1>. QED BY <1>1, PermitHolds, PTL

(* The refinement: one key, on which every call asks. *)

AskedModel == [c \in Callers |-> "model"]
IssuedModel == [k \in {"model"} |-> handed]

\* The calls that run and wait in Admission are those that do here.
LEMMA SameCalls ==
    /\ Permitted!InOrder!Running("model") = Holding
    /\ Permitted!InOrder!Waiting("model") = {c \in Callers : phase[c] = "waiting"}
    /\ \A c \in Callers : AskedModel[c] = "model"
  BY DEF Permitted!InOrder!Running, Permitted!InOrder!Waiting, Holding, AskedModel

LEMMA SameCount == Permitted!InOrder!Cardinality(Holding) = Cardinality(Holding)
  BY DEF Permitted!InOrder!Cardinality, Cardinality

\* A call takes its ticket.
LEMMA Tickets ==
    ASSUME NEW c \in Callers, Permitted!Counted(c)
    PROVE  Permitted!InOrder!Takes(c)
<1>1. IssuedModel' = [IssuedModel EXCEPT !["model"] = @ + 1]
  BY DEF Permitted!Counted, IssuedModel
<1>2. IssuedModel["model"] = handed /\ AskedModel[c] = "model" /\ AskedModel' = AskedModel
  BY DEF IssuedModel, AskedModel
<1>. QED BY <1>1, <1>2 DEF Permitted!Counted, Permitted!InOrder!Takes, IssuedModel, AskedModel

LEMMA AcquiresEnters ==
    ASSUME PermitInv, NEW c \in Callers, Permitted!Acquires(c)
    PROVE  Permitted!InOrder!Enters(c)
<1>1. Permitted!Counted(c) /\ available > 0 /\ phase' = [phase EXCEPT ![c] = "running"]
  BY DEF Permitted!Acquires
<1>2. Permitted!InOrder!Waiting("model") = {}
  BY <1>1, SameCalls DEF PermitInv, Spare, Lining
<1>3. Permitted!InOrder!Cardinality(Permitted!InOrder!Running("model")) < Permits
  <2>1. Cardinality(Holding) < Permits
    BY PermitsAreSome, <1>1, HoldingFinite DEF PermitInv, Permitted!TypeOK, Conserved, Holding
  <2>. QED BY <2>1, SameCalls, SameCount
<1>4. Permitted!InOrder!Takes(c) /\ AskedModel[c] = "model"
  BY <1>1, Tickets, SameCalls
<1>. QED BY <1>1, <1>2, <1>3, <1>4 DEF Permitted!InOrder!Enters, AskedModel

LEMMA QueuesArrives ==
    ASSUME NEW c \in Callers, Permitted!Queues(c)
    PROVE  Permitted!InOrder!Arrives(c)
  BY Tickets DEF Permitted!Queues, Permitted!InOrder!Arrives

\* The permit goes to the oldest ticket that waits.
LEMMA HandsOverToNext ==
    ASSUME PermitInv, NEW c \in Callers, Permitted!HandsOver(c)
    PROVE  Head(waiters) \in Callers /\ Permitted!InOrder!HandsOver(c, Head(waiters))
<1>. DEFINE h == Head(waiters)
<1>1. /\ phase[c] = "running" /\ waiters # <<>>
      /\ phase' = [phase EXCEPT ![c] = "done", ![h] = "running"]
      /\ UNCHANGED <<number, handed>>
  BY DEF Permitted!HandsOver
<1>2. /\ h \in Callers /\ phase[h] = "waiting" /\ waiters[1] = h /\ 1 \in 1..Len(waiters)
      /\ Len(waiters) \in Nat
  BY <1>1, Heads
<1>. HIDE DEF h
<1>3. ASSUME NEW d \in Callers, phase[d] = "waiting" PROVE number[h] <= number[d]
  <2>1. PICK i \in 1..Len(waiters) : waiters[i] = d
    BY <1>3 DEF PermitInv, Lining
  <2>2. CASE i = 1
    BY <1>2, <2>1, <2>2 DEF PermitInv, Permitted!TypeOK
  <2>3. CASE i # 1
    <3>1. 1 < i
      BY <1>2, <2>3
    <3>2. number[h] < number[d]
      BY <1>2, <2>1, <3>1 DEF PermitInv, InLine
    <3>. QED BY <1>2, <3>2 DEF PermitInv, Permitted!TypeOK
  <2>. QED BY <2>2, <2>3
<1>4. Permitted!InOrder!IsNext(h, "model")
  BY <1>2, <1>3, SameCalls DEF Permitted!InOrder!IsNext
<1>5. /\ AskedModel[c] = "model" /\ AskedModel[h] = "model"
      /\ AskedModel' = AskedModel /\ IssuedModel' = IssuedModel
  BY <1>1, <1>2 DEF AskedModel, IssuedModel
<1>6. Permitted!InOrder!HandsOver(c, h)
  BY <1>1, <1>4, <1>5 DEF Permitted!InOrder!HandsOver, AskedModel, IssuedModel
<1>. QED BY <1>2, <1>6 DEF h

LEMMA ReleasesLeaves ==
    ASSUME NEW c \in Callers, Permitted!Releases(c)
    PROVE  Permitted!InOrder!Leaves(c)
  BY DEF Permitted!Releases, Permitted!InOrder!Leaves

\* The initial states map to initial states.
LEMMA PermitInitMaps == Permitted!Init => Permitted!InOrder!Init
<1>. SUFFICES ASSUME Permitted!Init PROVE Permitted!InOrder!Init
  OBVIOUS
<1>1. AskedModel \in [Callers -> {"model"}] /\ IssuedModel = [k \in {"model"} |-> 0]
  BY DEF AskedModel, IssuedModel, Permitted!Init
<1>. QED BY <1>1 DEF Permitted!Init, Permitted!InOrder!Init, AskedModel, IssuedModel

\* Every step maps to a step.
LEMMA PermitNextMaps ==
    PermitInv /\ [Permitted!Next]_(Permitted!vars) => [Permitted!InOrder!Next]_(Permitted!InOrder!vars)
<1>. SUFFICES ASSUME PermitInv, [Permitted!Next]_(Permitted!vars)
              PROVE  [Permitted!InOrder!Next]_(Permitted!InOrder!vars)
  OBVIOUS
<1>1. ASSUME NEW c \in Callers, Permitted!Acquires(c) PROVE Permitted!InOrder!Next
  BY <1>1, AcquiresEnters DEF Permitted!InOrder!Next
<1>2. ASSUME NEW c \in Callers, Permitted!Queues(c) PROVE Permitted!InOrder!Next
  BY <1>2, QueuesArrives DEF Permitted!InOrder!Next
<1>3. ASSUME NEW c \in Callers, Permitted!HandsOver(c) PROVE Permitted!InOrder!Next
  BY <1>3, HandsOverToNext DEF Permitted!InOrder!Next
<1>4. ASSUME NEW c \in Callers, Permitted!Releases(c) PROVE Permitted!InOrder!Next
  BY <1>4, ReleasesLeaves DEF Permitted!InOrder!Next
<1>5. CASE UNCHANGED Permitted!vars
  <2>1. AskedModel' = AskedModel /\ IssuedModel' = IssuedModel
    BY <1>5 DEF Permitted!vars, AskedModel, IssuedModel
  <2>. QED BY <1>5, <2>1 DEF Permitted!vars, Permitted!InOrder!vars, AskedModel, IssuedModel
<1>. QED BY <1>1, <1>2, <1>3, <1>4, <1>5 DEF Permitted!Next

\* Semaphore.run keeps its promise for any callers and permits: never more than Permits
\* calls run at once, and those that wait are let in in the order they came.
THEOREM SemaphoreImplementsAdmission ==
    Permitted!Spec => Permitted!AdmitsInOrder
  BY PermitInitMaps, PermitNextMaps, PermitHolds, PTL
  DEF Permitted!Spec, Permitted!AdmitsInOrder, Permitted!InOrder!Spec

\* A step of the run is a step of the semaphore or leaves it alone.
LEMMA PermitSteps == [UnionNext]_allVars => [Permitted!Next]_(Permitted!vars)
  BY Zenon DEF UnionNext, allVars, permitVars, Permitted!vars

\* It lets them in in that order whatever else the process of the run is doing (semaphore.ts).
THEOREM PermitsGoInOrder == FairSpec => PermitsInOrder
<1>1. UnionInit => Permitted!Init
  BY DEF UnionInit
<1>2. FairSpec => Permitted!Spec
  BY <1>1, PermitSteps, PTL DEF FairSpec, Permitted!Spec
<1>. QED BY <1>2, SemaphoreImplementsAdmission, PTL DEF PermitsInOrder

=============================================================================
