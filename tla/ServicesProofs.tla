---------------------------- MODULE ServicesProofs ----------------------------
(***************************************************************************)
(* What the services composed by MCServices promise, for any number of     *)
(* checks, rotations, failures, steps and ticks of each.                   *)
(*                                                                         *)
(* Contact authorization (Grants): a stored verdict that is reused is newer *)
(* than every refusal given before its read.  While nothing is unconfirmed *)
(* the row, and the store that is under way, outrank every refusal.  A     *)
(* refusal breaks that only by marking the contact unconfirmed in the same *)
(* step; the mark goes only with a delete that landed, when there is no row *)
(* and the next mutation has not begun.  A read begins unmarked, so from   *)
(* then on what it can find outranks its floor.                            *)
(*                                                                         *)
(* The other services follow, each with the invariant its theorem rests on, *)
(* and are joined at the end of their section to the steps of the services *)
(* run: the notices of a refusal and the hand-off that comes after the     *)
(* copy, the monthly figure of the spend ceiling and its health, the       *)
(* ladder of follow-ups, the outgoing buses and the mirrored row of a      *)
(* conversation.                                                           *)
(***************************************************************************)
EXTENDS MCServices, FiniteSets, FiniteSetTheorems, TLAPS

\* What is kept or about to be kept outranks the refusal at `since'.
RowSince(since)  == row.kept => row.asked > since
HeadSince(since) == HasWork /\ Working.under = "store" => Working.asked > since

\* Unless a write is unconfirmed, nothing kept or under way is as old as a known refusal.
Outranks ==
    /\ refused = known.refusedAt
    /\ ~known.unconfirmed => RowSince(refused) /\ HeadSince(refused)

\* What a read can find outranks what was known when it began.
Floors == \A c \in Checks : check[c].at = "reading" =>
    check[c].floor <= refused /\ RowSince(check[c].floor) /\ HeadSince(check[c].floor)

\* Only the head of the queue has begun, and a store is under way only for one that was queued.
HeadOnly ==
    /\ \A i \in 2..Len(mutations) : mutations[i].under = "queued"
    /\ \A i \in 1..Len(mutations) : mutations[i].under = "store" => mutations[i].does = "store"

\* The revision a check read is no newer than the credential it asks with.
StampsAreOld ==
    /\ \A c \in Checks : check[c].stamp <= revision
    /\ \A c \in Checks : check[c].at = "asking" => check[c].stamp <= check[c].used
    /\ \A i \in 1..Len(mutations) :
         mutations[i].does = "store" => mutations[i].stamp <= mutations[i].used
    /\ row.kept => row.stamp <= row.used

ReusedIsDone == \A c \in Checks : check[c].reused => check[c].at = "done"

IInv == TypeOK /\ Outranks /\ Floors /\ HeadOnly /\ StampsAreOld /\ ReusedIsDone /\ ServedIsCurrent

-----------------------------------------------------------------------------
\* The invariant holds initially.
LEMMA InitIInv == Init => IInv
BY DEF Init, IInv, TypeOK, Mutation, Stamp, CheckRecord, Idle, NoRow, Outranks, RowSince, HeadSince, HasWork,
       Working, Floors, HeadOnly, StampsAreOld, ReusedIsDone, ServedIsCurrent, Unreadable

\* The numbers of a state.
LEMMA Numbers ==
    ASSUME TypeOK
    PROVE /\ \A c \in Checks : /\ check[c].asked \in Nat /\ check[c].stamp \in Int
                              /\ check[c].used \in Nat /\ check[c].floor \in Nat
          /\ \A i \in 1..Len(mutations) : /\ mutations[i].asked \in Nat
                                        /\ mutations[i].stamp \in Int /\ mutations[i].used \in Nat
          /\ row.asked \in Nat /\ row.stamp \in Int /\ row.used \in Nat
          /\ refused \in Nat /\ revision \in Nat /\ clock \in Nat /\ known.refusedAt \in Nat
<1>1. \A c \in Checks : /\ check[c].asked \in Nat /\ check[c].stamp \in Int
                       /\ check[c].used \in Nat /\ check[c].floor \in Nat
  BY DEF TypeOK, CheckRecord, Stamp, Unreadable
<1>2. ASSUME NEW i \in 1..Len(mutations)
      PROVE mutations[i].asked \in Nat /\ mutations[i].stamp \in Int /\ mutations[i].used \in Nat
  <2>1. mutations[i] \in Mutation
    BY DEF TypeOK
  <2> QED
    BY <2>1 DEF Mutation, Stamp, Unreadable
<1>3. /\ row.asked \in Nat /\ row.stamp \in Int /\ row.used \in Nat
      /\ refused \in Nat /\ revision \in Nat /\ clock \in Nat /\ known.refusedAt \in Nat
  BY DEF TypeOK, Stamp, Unreadable
<1> QED
  BY <1>1, <1>2, <1>3

\* A rotation only moves the revision on.
LEMMA RotatesIInv == ASSUME IInv, Rotates PROVE IInv'
<1>1. TypeOK' /\ revision <= revision'
  BY DEF IInv, TypeOK, Rotates
<1>2. UNCHANGED <<row, known, mutations, check, refused>>
  BY DEF Rotates
<1>3. Outranks' /\ Floors' /\ HeadOnly' /\ ReusedIsDone' /\ ServedIsCurrent'
  BY <1>2 DEF IInv, Outranks, Floors, HeadOnly, ReusedIsDone, ServedIsCurrent, RowSince, HeadSince,
              HasWork, Working
<1>4. StampsAreOld'
  BY <1>1, <1>2, Numbers DEF IInv, StampsAreOld, TypeOK
<1> QED
  BY <1>1, <1>3, <1>4 DEF IInv

\* What a check queues joins behind what is there and has not begun.
LEMMA QueueGrows ==
    ASSUME IInv, NEW c \in Checks, NEW does \in {"delete", "store"},
           mutations' = Enqueued(c, does),
           does = "store" => check[c].stamp <= check[c].used
    PROVE /\ mutations' \in Seq(Mutation)
          /\ HeadOnly'
          /\ \A i \in 1..Len(mutations') :
               mutations'[i].does = "store" => mutations'[i].stamp <= mutations'[i].used
          /\ \A since : HeadSince(since) => (HasWork' /\ Working'.under = "store" => Working'.asked > since)
<1> DEFINE e == [by |-> c, does |-> does, under |-> "queued",
                 asked |-> check[c].asked, stamp |-> check[c].stamp, used |-> check[c].used]
<1>1. e \in Mutation
  BY DEF IInv, TypeOK, Mutation, CheckRecord
<1>2. mutations \in Seq(Mutation) /\ mutations' = Append(mutations, e)
  BY DEF IInv, TypeOK, Enqueued
<1>3. Len(mutations') = Len(mutations) + 1 /\ mutations' \in Seq(Mutation)
  BY <1>1, <1>2
<1>4. \A i \in 1..Len(mutations') : mutations'[i] = IF i <= Len(mutations) THEN mutations[i] ELSE e
  BY <1>1, <1>2
<1>5. HeadOnly'
  BY <1>2, <1>3, <1>4 DEF IInv, HeadOnly
<1>6. \A i \in 1..Len(mutations') :
        mutations'[i].does = "store" => mutations'[i].stamp <= mutations'[i].used
  BY <1>2, <1>3, <1>4 DEF IInv, StampsAreOld
<1>7. mutations' # <<>> /\ Head(mutations') = mutations'[1]
  BY <1>1, <1>2, <1>3
<1>8. ASSUME NEW since, HeadSince(since), Head(mutations').under = "store"
      PROVE Head(mutations').asked > since
  <2>1. CASE mutations = <<>>
    BY <1>3, <1>4, <1>7, <1>8, <2>1
  <2>2. CASE mutations # <<>>
    <3>1. Len(mutations) >= 1 /\ Head(mutations) = mutations[1]
      BY <1>2, <2>2
    <3> QED
      BY <1>3, <1>4, <1>7, <1>8, <2>2, <3>1 DEF HeadSince, HasWork, Working
  <2> QED
    BY <2>1, <2>2
<1> QED
  BY <1>3, <1>5, <1>6, <1>8 DEF HasWork, Working

\* A step of one check that leaves the row alone, and queues at the end of the queue if at all.
LEMMA CheckSteps ==
    ASSUME IInv, NEW c \in Checks, TypeOK', HeadOnly',
           row' = row, revision' = revision,
           refused' = known'.refusedAt, refused <= refused', ~known'.unconfirmed => known' = known,
           \A i \in 1..Len(mutations') :
             mutations'[i].does = "store" => mutations'[i].stamp <= mutations'[i].used,
           \A since : HeadSince(since) =>
             (HasWork' /\ Working'.under = "store" => Working'.asked > since),
           \A d \in Checks \ {c} : check'[d] = check[d],
           check'[c].stamp <= revision,
           check'[c].at = "asking" => check'[c].stamp <= check'[c].used,
           check'[c].reused => /\ check'[c].at = "done" /\ check'[c].served > check'[c].floor
                               /\ check'[c].used >= check'[c].stamp,
           check'[c].at = "reading" => /\ check'[c].floor <= refused
                                       /\ RowSince(check'[c].floor) /\ HeadSince(check'[c].floor)
    PROVE IInv'
<1>1. Outranks'
  <2>1. ASSUME ~known'.unconfirmed PROVE RowSince(refused) /\ HeadSince(refused) /\ refused' = refused
    BY <2>1 DEF IInv, Outranks
  <2> QED
    BY <2>1 DEF Outranks, RowSince, HeadSince
<1>2. Floors'
  <2>1. ASSUME NEW d \in Checks, check'[d].at = "reading"
        PROVE check'[d].floor <= refused /\ RowSince(check'[d].floor) /\ HeadSince(check'[d].floor)
    BY <2>1 DEF IInv, Floors
  <2>2. ASSUME NEW d \in Checks, check'[d].at = "reading" PROVE check'[d].floor <= refused'
    <3>1. check'[d].floor \in Nat /\ refused \in Nat /\ refused' \in Nat
      BY DEF IInv, TypeOK, CheckRecord
    <3> QED
      BY <2>1, <2>2, <3>1
  <2> QED
    BY <2>1, <2>2 DEF Floors, RowSince, HeadSince
<1>3. StampsAreOld'
  BY DEF IInv, StampsAreOld
<1>4. ReusedIsDone' /\ ServedIsCurrent'
  BY DEF IInv, ReusedIsDone, ServedIsCurrent
<1> QED
  BY <1>1, <1>2, <1>3, <1>4 DEF IInv

\* A step of one check that touches neither the queue nor what is known.
LEMMA QuietSteps ==
    ASSUME IInv, NEW c \in Checks, TypeOK',
           UNCHANGED <<row, known, mutations, revision, refused>>,
           \A d \in Checks \ {c} : check'[d] = check[d],
           check'[c].stamp <= revision,
           check'[c].at = "asking" => check'[c].stamp <= check'[c].used,
           check'[c].reused => /\ check'[c].at = "done" /\ check'[c].served > check'[c].floor
                               /\ check'[c].used >= check'[c].stamp,
           check'[c].at = "reading" => /\ check'[c].floor <= refused
                                       /\ RowSince(check'[c].floor) /\ HeadSince(check'[c].floor)
    PROVE IInv'
<1>1. HeadOnly' /\ refused' = known'.refusedAt /\ refused <= refused'
  BY DEF IInv, HeadOnly, Outranks, TypeOK
<1>2. \A i \in 1..Len(mutations') :
        mutations'[i].does = "store" => mutations'[i].stamp <= mutations'[i].used
  BY DEF IInv, StampsAreOld
<1>3. \A since : HeadSince(since) =>
        (HasWork' /\ Working'.under = "store" => Working'.asked > since)
  BY DEF HeadSince, HasWork, Working
<1> QED
  BY <1>1, <1>2, <1>3, CheckSteps

\* A check moves to a new record.
LEMMA Moves ==
    ASSUME TypeOK, NEW c \in Checks, NEW r \in CheckRecord, check' = [check EXCEPT ![c] = r]
    PROVE /\ check' \in [Checks -> CheckRecord]
          /\ check'[c] = r
          /\ \A d \in Checks \ {c} : check'[d] = check[d]
BY DEF TypeOK

\* A check starts, and queues the retry of an unconfirmed write.
LEMMA StartsIInv == ASSUME IInv, NEW c \in Checks, Starts(c) PROVE IInv'
<1>1. PICK mode \in {"once", "perMessage"} :
        check' = [check EXCEPT ![c] = [@ EXCEPT
            !.at = IF known.unconfirmed THEN "retrying" ELSE "stamping", !.mode = mode, !.asked = clock']]
  BY DEF Starts
<1>2. clock' \in Nat /\ UNCHANGED <<row, known, revision, refused, faults>>
  BY DEF Starts, IInv, TypeOK
<1> DEFINE r == [check[c] EXCEPT
            !.at = IF known.unconfirmed THEN "retrying" ELSE "stamping", !.mode = mode, !.asked = clock']
<1>3. /\ r \in CheckRecord /\ r.stamp = check[c].stamp /\ r.reused = check[c].reused
      /\ r.at \in {"retrying", "stamping"}
  BY <1>2 DEF IInv, TypeOK, CheckRecord
<1>4. check[c].stamp <= revision /\ ~check[c].reused
  BY DEF IInv, StampsAreOld, ReusedIsDone, Starts
<1> HIDE DEF r
<1>5. /\ check' \in [Checks -> CheckRecord] /\ check'[c] = r
      /\ \A d \in Checks \ {c} : check'[d] = check[d]
  BY <1>1, <1>3, Moves DEF IInv, r
<1>6. CASE known.unconfirmed
  <2>1. mutations' = Enqueued(c, "delete")
    BY <1>6 DEF Starts
  <2>2. /\ mutations' \in Seq(Mutation) /\ HeadOnly'
        /\ \A i \in 1..Len(mutations') :
             mutations'[i].does = "store" => mutations'[i].stamp <= mutations'[i].used
        /\ \A since : HeadSince(since) =>
             (HasWork' /\ Working'.under = "store" => Working'.asked > since)
    BY <2>1, QueueGrows
  <2>3. TypeOK'
    BY <1>2, <1>5, <2>2 DEF IInv, TypeOK
  <2>4. refused' = known'.refusedAt /\ refused <= refused'
    BY <1>2 DEF IInv, Outranks, TypeOK
  <2> QED
    BY <1>2, <1>3, <1>4, <1>5, <2>2, <2>3, <2>4, CheckSteps
<1>7. CASE ~known.unconfirmed
  <2>1. mutations' = mutations
    BY <1>7 DEF Starts
  <2>2. TypeOK'
    BY <1>2, <1>5, <2>1 DEF IInv, TypeOK
  <2> QED
    BY <1>2, <1>3, <1>4, <1>5, <2>1, <2>2, QuietSteps
<1> QED
  BY <1>6, <1>7

\* The credential's revision is read, and the stored verdict's query begins.
LEMMA StampsIInv == ASSUME IInv, NEW c \in Checks, Stamps(c) PROVE IInv'
<1>1. UNCHANGED <<row, known, mutations, clock, revision, refused>> /\ faults' \in Nat
  BY DEF Stamps, Fault, IInv, TypeOK
<1>2. check[c].stamp <= revision /\ ~check[c].reused /\ check[c] \in CheckRecord
      /\ revision \in Nat /\ refused \in Nat
  BY DEF IInv, StampsAreOld, ReusedIsDone, Stamps, TypeOK
<1>3. ASSUME NEW r \in CheckRecord, check' = [check EXCEPT ![c] = r],
             r.stamp <= revision, ~r.reused, r.at \in {"reading", "resolving"},
             r.at = "reading" => ~known.unconfirmed /\ r.floor = refused
      PROVE IInv'
  <2>1. /\ check' \in [Checks -> CheckRecord] /\ check'[c] = r
        /\ \A d \in Checks \ {c} : check'[d] = check[d]
    BY <1>3, Moves DEF IInv
  <2>2. TypeOK'
    BY <1>1, <2>1 DEF IInv, TypeOK
  <2>3. r.at = "reading" => r.floor <= refused /\ RowSince(r.floor) /\ HeadSince(r.floor)
    BY <1>2, <1>3 DEF IInv, Outranks
  <2> QED
    BY <1>1, <1>3, <2>1, <2>2, <2>3, QuietSteps
<1>4. CASE check' = [check EXCEPT ![c] = [@ EXCEPT
               !.at = IF known.unconfirmed THEN "resolving" ELSE "reading",
               !.stamp = revision, !.floor = refused]]
  <2> DEFINE r == [check[c] EXCEPT !.at = IF known.unconfirmed THEN "resolving" ELSE "reading",
                                   !.stamp = revision, !.floor = refused]
  <2>1. /\ r.stamp = revision /\ ~r.reused /\ r.at \in {"reading", "resolving"}
        /\ r.at = "reading" => ~known.unconfirmed /\ r.floor = refused
    BY <1>2 DEF CheckRecord
  <2>3. r \in CheckRecord
    BY <1>2 DEF CheckRecord, Stamp
  <2>2. check' = [check EXCEPT ![c] = r]
    BY <1>4
  <2>4. r.stamp <= revision
    BY <1>2, <2>1
  <2> HIDE DEF r
  <2> QED
    BY <1>3, <2>1, <2>2, <2>3, <2>4
<1>5. CASE check' = [check EXCEPT ![c].at = "resolving", ![c].stamp = Unreadable]
  <2> DEFINE r == [check[c] EXCEPT !.at = "resolving", !.stamp = Unreadable]
  <2>1. r.stamp = -1 /\ ~r.reused /\ r.at = "resolving"
    BY <1>2 DEF CheckRecord, Unreadable
  <2>3. r \in CheckRecord
    BY <1>2 DEF CheckRecord, Stamp
  <2>2. check' = [check EXCEPT ![c] = r]
    BY <1>5 DEF IInv, TypeOK
  <2>4. r.stamp <= revision
    BY <1>2, <2>1
  <2> QED
    BY <1>3, <2>1, <2>2, <2>3, <2>4
<1>6. CASE check' = [check EXCEPT ![c].at = "resolving"]
  <2> DEFINE r == [check[c] EXCEPT !.at = "resolving"]
  <2>1. r \in CheckRecord /\ r.stamp <= revision /\ ~r.reused /\ r.at = "resolving"
    BY <1>2 DEF CheckRecord
  <2>2. check' = [check EXCEPT ![c] = r]
    BY <1>6
  <2> QED
    BY <1>3, <2>1, <2>2
<1> QED
  BY <1>4, <1>5, <1>6 DEF Stamps

\* A step that ends the wait of a check without serving it a stored verdict.
LEMMA PlainSteps ==
    ASSUME IInv, NEW c \in Checks, NEW r \in CheckRecord, check' = [check EXCEPT ![c] = r],
           UNCHANGED <<row, known, mutations, clock, revision, refused>>, faults' \in Nat,
           ~r.reused, r.at # "reading", r.stamp <= revision,
           r.at = "asking" => r.stamp <= r.used
    PROVE IInv'
<1>1. /\ check' \in [Checks -> CheckRecord] /\ check'[c] = r
      /\ \A d \in Checks \ {c} : check'[d] = check[d]
  BY Moves DEF IInv
<1>2. TypeOK'
  BY <1>1 DEF IInv, TypeOK
<1> QED
  BY <1>1, <1>2, QuietSteps

\* A row that matches is served: it outranks the floor of the check that reads it.
LEMMA ReadsIInv == ASSUME IInv, NEW c \in Checks, Reads(c) PROVE IInv'
<1>1. /\ UNCHANGED <<row, known, mutations, clock, revision, refused>> /\ faults' \in Nat
      /\ check[c] \in CheckRecord /\ check[c].stamp <= revision /\ ~check[c].reused
      /\ check[c].at = "reading"
  BY DEF Reads, Fault, IInv, TypeOK, StampsAreOld, ReusedIsDone
<1>2. CASE check' = [check EXCEPT ![c].at = "resolving"]
  <2> DEFINE r == [check[c] EXCEPT !.at = "resolving"]
  <2>1. r \in CheckRecord /\ r.stamp <= revision /\ ~r.reused /\ r.at = "resolving"
    BY <1>1 DEF CheckRecord
  <2>2. check' = [check EXCEPT ![c] = r]
    BY <1>2
  <2> HIDE DEF r
  <2> QED
    BY <1>1, <2>1, <2>2, PlainSteps
<1>3. CASE /\ row.kept /\ row.stamp = check[c].stamp
           /\ check' = [check EXCEPT ![c] = [@ EXCEPT
               !.at = "done", !.reused = TRUE, !.served = row.asked, !.used = row.used]]
  <2> DEFINE r == [check[c] EXCEPT
               !.at = "done", !.reused = TRUE, !.served = row.asked, !.used = row.used]
  <2>1. row.asked \in Nat /\ row.used \in Nat
    BY Numbers DEF IInv
  <2>2. r \in CheckRecord
    BY <1>1, <2>1 DEF CheckRecord
  <2>3. /\ r.at = "done" /\ r.served = row.asked /\ r.used = row.used
        /\ r.stamp = check[c].stamp /\ r.floor = check[c].floor
    BY <1>1 DEF CheckRecord
  <2>4. row.asked > check[c].floor
    BY <1>1, <1>3 DEF IInv, Floors, RowSince
  <2>5. row.used >= row.stamp
    BY <1>3, Numbers DEF IInv, StampsAreOld
  <2>6. check' = [check EXCEPT ![c] = r]
    BY <1>3
  <2> HIDE DEF r
  <2>7. /\ check' \in [Checks -> CheckRecord] /\ check'[c] = r
        /\ \A d \in Checks \ {c} : check'[d] = check[d]
    BY <2>2, <2>6, Moves DEF IInv
  <2>8. TypeOK'
    BY <1>1, <2>7 DEF IInv, TypeOK
  <2>9. r.stamp <= revision /\ r.served > r.floor /\ r.used >= r.stamp
    BY <1>1, <1>3, <2>3, <2>4, <2>5
  <2> QED
    BY <1>1, <2>3, <2>7, <2>8, <2>9, QuietSteps
<1> QED
  BY <1>2, <1>3 DEF Reads

\* The credential is resolved: it is at least the revision that was read.
LEMMA ResolvesIInv == ASSUME IInv, NEW c \in Checks, Resolves(c) PROVE IInv'
<1> DEFINE r == [check[c] EXCEPT !.at = "asking", !.used = revision]
<1>1. /\ UNCHANGED <<row, known, mutations, clock, revision, refused>> /\ faults' \in Nat
      /\ check[c] \in CheckRecord /\ check[c].stamp <= revision /\ ~check[c].reused
      /\ revision \in Nat
  BY DEF Resolves, IInv, TypeOK, StampsAreOld, ReusedIsDone
<1>2. r \in CheckRecord /\ ~r.reused /\ r.at = "asking" /\ r.stamp <= revision /\ r.stamp <= r.used
  BY <1>1 DEF CheckRecord
<1>3. check' = [check EXCEPT ![c] = r]
  BY <1>1 DEF Resolves, IInv, TypeOK
<1> HIDE DEF r
<1> QED
  BY <1>1, <1>2, <1>3, PlainSteps

\* A check that is over.
LEMMA OverIsOver == Over \in CheckRecord /\ Over.at = "done" /\ ~Over.reused /\ Over.stamp = 0
BY DEF Over, Idle, CheckRecord, Stamp

\* A check gives up.
LEMMA GivesUpIInv == ASSUME IInv, NEW c \in Checks, GivesUp(c) PROVE IInv'
<1>1. /\ UNCHANGED <<row, known, mutations, clock, revision, refused>> /\ faults' \in Nat
      /\ check' = [check EXCEPT ![c] = Over] /\ 0 <= revision
  BY DEF GivesUp, IInv, TypeOK
<1> QED
  BY <1>1, OverIsOver, PlainSteps

\* The endpoint answers: a refusal marks the contact in the step in which it is known.
LEMMA AnswersIInv == ASSUME IInv, NEW c \in Checks, Answers(c) PROVE IInv'
<1>1. /\ UNCHANGED <<row, clock, revision, faults>> /\ revision \in Nat
      /\ check[c] \in CheckRecord /\ check[c].stamp <= revision /\ ~check[c].reused
      /\ check[c].stamp <= check[c].used
  BY DEF Answers, IInv, TypeOK, StampsAreOld, ReusedIsDone
<1> DEFINE r == [check[c] EXCEPT !.at = "booking"]
<1>2. r \in CheckRecord /\ r.at = "booking" /\ ~r.reused /\ r.stamp <= revision
  BY <1>1 DEF CheckRecord
<1>3. ASSUME NEW does \in {"delete", "store"}, mutations' = Enqueued(c, does),
             check' = [check EXCEPT ![c].at = "booking"],
             known' \in [refusedAt : Nat, unconfirmed : BOOLEAN], refused' \in Nat,
             refused' = known'.refusedAt, refused <= refused', ~known'.unconfirmed => known' = known
      PROVE IInv'
  <2>1. /\ mutations' \in Seq(Mutation) /\ HeadOnly'
        /\ \A i \in 1..Len(mutations') :
             mutations'[i].does = "store" => mutations'[i].stamp <= mutations'[i].used
        /\ \A since : HeadSince(since) =>
             (HasWork' /\ Working'.under = "store" => Working'.asked > since)
    BY <1>1, <1>3, QueueGrows
  <2>2. check' = [check EXCEPT ![c] = r]
    BY <1>3
  <2> HIDE DEF r
  <2>3. /\ check' \in [Checks -> CheckRecord] /\ check'[c] = r
        /\ \A d \in Checks \ {c} : check'[d] = check[d]
    BY <1>2, <2>2, Moves DEF IInv
  <2>4. TypeOK'
    BY <1>1, <1>3, <2>1, <2>3 DEF IInv, TypeOK
  <2> QED
    BY <1>1, <1>2, <1>3, <2>1, <2>3, <2>4, CheckSteps
<1>4. CASE /\ Refuses(c) /\ check' = [check EXCEPT ![c].at = "booking"]
           /\ refused' = Newest(refused, check[c].asked)
  <2>1. /\ check[c].asked \in Nat /\ refused \in Nat /\ known.refusedAt = refused
    BY Numbers DEF IInv, Outranks
  <2>2. /\ known' = [refusedAt |-> Newest(check[c].asked, known.refusedAt), unconfirmed |-> TRUE]
        /\ mutations' = Enqueued(c, "delete")
    BY <1>4 DEF Refuses, Remembers
  <2>3. refused' = known'.refusedAt /\ refused <= refused' /\ refused' \in Nat
    BY <1>4, <2>1, <2>2 DEF Newest
  <2>4. known' \in [refusedAt : Nat, unconfirmed : BOOLEAN] /\ known'.unconfirmed
    BY <2>2, <2>3
  <2> QED
    BY <1>3, <1>4, <2>2, <2>3, <2>4
<1>5. CASE mutations' = Enqueued(c, "store") /\ check' = [check EXCEPT ![c].at = "booking"]
           /\ UNCHANGED <<known, refused>>
  <2>1. /\ refused' = known'.refusedAt /\ refused <= refused' /\ refused' \in Nat
        /\ known' \in [refusedAt : Nat, unconfirmed : BOOLEAN] /\ known' = known
    BY <1>5 DEF IInv, Outranks, TypeOK
  <2> QED
    BY <1>3, <1>5, <2>1
<1>6. CASE check' = [check EXCEPT ![c] = Over] /\ UNCHANGED <<known, mutations, refused>>
  <2>1. UNCHANGED <<row, known, mutations, clock, revision, refused>> /\ faults' \in Nat /\ 0 <= revision
    BY <1>1, <1>6 DEF IInv, TypeOK
  <2> QED
    BY <1>6, <2>1, OverIsOver, PlainSteps
<1> QED
  BY <1>4, <1>5, <1>6 DEF Answers

-----------------------------------------------------------------------------
\* The head begins; a store begins only above every refusal.
LEMMA MutationBeginsIInv == ASSUME IInv, MutationBegins PROVE IInv'
<1>1. /\ UNCHANGED <<row, known, check, clock, revision, refused, faults>>
      /\ mutations # <<>> /\ mutations \in Seq(Mutation)
      /\ mutations' = [mutations EXCEPT ![1].under = Begins]
  BY DEF MutationBegins, HasWork, IInv, TypeOK
<1>2. /\ Len(mutations) \in Nat /\ Len(mutations) >= 1 /\ Head(mutations) = mutations[1]
      /\ mutations[1] \in Mutation
  BY <1>1
<1>3. Begins \in {"delete", "clear", "store"} /\ (Begins = "store" => Working.does = "store")
  BY <1>2 DEF Begins, Working, Mutation
<1> DEFINE e == [mutations[1] EXCEPT !.under = Begins]
<1>4. /\ e \in Mutation /\ e.under = Begins /\ e.does = Working.does /\ e.asked = Working.asked
      /\ e.stamp = Working.stamp /\ e.used = Working.used
  BY <1>2, <1>3 DEF Mutation, Working
<1>5. mutations' = [mutations EXCEPT ![1] = e]
  BY <1>1
<1> HIDE DEF e
<1>6. /\ mutations' \in Seq(Mutation) /\ Len(mutations') = Len(mutations)
      /\ \A i \in 1..Len(mutations) : mutations'[i] = IF i = 1 THEN e ELSE mutations[i]
  BY <1>1, <1>2, <1>4, <1>5
<1>7. Head(mutations') = e
  BY <1>2, <1>6
<1>8. TypeOK'
  BY <1>1, <1>6 DEF IInv, TypeOK
<1>9. HeadOnly'
  BY <1>2, <1>3, <1>4, <1>6 DEF IInv, HeadOnly, Working
<1>10. StampsAreOld'
  BY <1>1, <1>2, <1>4, <1>6 DEF IInv, StampsAreOld, Working
<1>11. e.under = "store" => e.asked > known.refusedAt
  <2>1. e.asked \in Nat /\ known.refusedAt \in Nat
    BY <1>4, Numbers DEF Mutation, IInv
  <2> QED
    BY <1>4, <2>1 DEF Begins, RefusedSince
<1>12. Outranks'
  BY <1>1, <1>7, <1>11 DEF IInv, Outranks, RowSince, HeadSince, Working, HasWork
<1>13. Floors'
  <2>1. ASSUME NEW c \in Checks, check[c].at = "reading", e.under = "store" PROVE e.asked > check[c].floor
    <3>1. e.asked \in Nat /\ known.refusedAt \in Nat /\ check[c].floor \in Nat
      BY <1>4, Numbers DEF Mutation, IInv
    <3>2. check[c].floor <= known.refusedAt
      BY <2>1 DEF IInv, Floors, Outranks
    <3> QED
      BY <1>11, <2>1, <3>1, <3>2
  <2> QED
    BY <1>1, <1>7, <2>1 DEF IInv, Floors, RowSince, HeadSince, Working, HasWork
<1>14. ReusedIsDone' /\ ServedIsCurrent'
  BY <1>1 DEF IInv, ReusedIsDone, ServedIsCurrent
<1> QED
  BY <1>8, <1>9, <1>10, <1>12, <1>13, <1>14 DEF IInv

\* The head leaves the queue, with the row it leaves behind; the mark goes only with the row.
LEMMA SettlesIInv ==
    ASSUME IInv, HasWork, Settled, faults' \in Nat,
           row' \in {row, NoRow} \/ (row' = Stored /\ Working.under = "store"),
           known' \in [refusedAt : Nat, unconfirmed : BOOLEAN], known'.refusedAt = known.refusedAt,
           ~known'.unconfirmed => row' = NoRow \/ ~known.unconfirmed
    PROVE IInv'
<1>1. /\ UNCHANGED <<clock, revision, refused>> /\ revision \in Nat
      /\ mutations # <<>> /\ mutations \in Seq(Mutation) /\ mutations' = Tail(mutations)
  BY DEF Settled, HasWork, IInv, TypeOK
<1>2. /\ Len(mutations) \in Nat /\ Len(mutations) >= 1 /\ Working = mutations[1]
      /\ mutations[1] \in Mutation
  BY <1>1 DEF Working
<1>3. /\ mutations' \in Seq(Mutation) /\ Len(mutations') = Len(mutations) - 1
      /\ \A i \in 1..Len(mutations') : mutations'[i] = mutations[i + 1]
  BY <1>1, <1>2
<1>4. \A i \in 1..Len(mutations') : mutations'[i].under = "queued" /\ i + 1 \in 1..Len(mutations)
  BY <1>2, <1>3 DEF IInv, HeadOnly
<1>5. HeadOnly'
  BY <1>3, <1>4 DEF HeadOnly
<1>6. ~(HasWork' /\ Working'.under = "store")
  <2>1. ASSUME mutations' # <<>> PROVE Head(mutations').under = "queued"
    BY <1>3, <1>4, <2>1
  <2> QED
    BY <2>1 DEF HasWork, Working
<1>7. \A since : HeadSince(since) /\ RowSince(since) => (row'.kept => row'.asked > since)
  BY DEF RowSince, HeadSince, Stored, NoRow
<1>8. row' \in [kept : BOOLEAN, asked : Nat, stamp : Stamp, used : Nat]
  <2>1. NoRow \in [kept : BOOLEAN, asked : Nat, stamp : Stamp, used : Nat]
    BY DEF NoRow, Stamp
  <2>2. Stored \in [kept : BOOLEAN, asked : Nat, stamp : Stamp, used : Nat]
    BY <1>2 DEF Stored, Mutation
  <2> QED
    BY <2>1, <2>2 DEF IInv, TypeOK
<1>9. row'.kept => row'.stamp <= row'.used
  BY <1>2 DEF IInv, StampsAreOld, HeadOnly, Stored, NoRow
<1>10. /\ check' \in [Checks -> CheckRecord]
       /\ \A d \in Checks : check'[d] = check[d] \/ check'[d] = Over
                            \/ (check[d].at = "retrying" /\ check'[d] = [check[d] EXCEPT !.at = "stamping"])
  <2> DEFINE b == Working.by
             r == CASE check[b].at = "retrying" -> [check[b] EXCEPT !.at = "stamping"]
                    [] check[b].at = "booking" -> Over
                    [] OTHER -> check[b]
  <2>1. b \in Checks /\ check[b] \in CheckRecord
    BY <1>2 DEF Mutation, IInv, TypeOK
  <2>2. r \in CheckRecord
    BY <2>1, OverIsOver DEF CheckRecord
  <2>3. check' = [check EXCEPT ![b] = r]
    BY DEF Settled, CallerGoesOn
  <2>4. \/ r = check[b] \/ r = Over
        \/ (check[b].at = "retrying" /\ r = [check[b] EXCEPT !.at = "stamping"])
    OBVIOUS
  <2> HIDE DEF b, r
  <2>5. /\ check' \in [Checks -> CheckRecord] /\ check'[b] = r
        /\ \A d \in Checks \ {b} : check'[d] = check[d]
    BY <2>1, <2>2, <2>3, Moves DEF IInv
  <2> QED
    BY <2>4, <2>5
<1>11. \A d \in Checks :
         /\ check'[d].at = "reading" => check'[d] = check[d]
         /\ check'[d].at = "asking" => check'[d] = check[d]
         /\ check'[d].reused => check'[d] = check[d] \/ (check[d].reused /\ check[d].at = "retrying")
         /\ check'[d].stamp \in {check[d].stamp, 0}
  <2>1. TAKE d \in Checks
  <2>2. check[d] \in CheckRecord
    BY DEF IInv, TypeOK
  <2>3. CASE check'[d] = Over
    BY <2>3, OverIsOver
  <2>4. CASE check[d].at = "retrying" /\ check'[d] = [check[d] EXCEPT !.at = "stamping"]
    BY <2>2, <2>4 DEF CheckRecord
  <2> QED
    BY <1>10, <2>3, <2>4
<1>12. TypeOK'
  BY <1>1, <1>3, <1>8, <1>10 DEF IInv, TypeOK
<1>13. Outranks'
  <2>1. ASSUME ~known'.unconfirmed PROVE row'.kept => row'.asked > refused
    BY <1>7, <2>1 DEF IInv, Outranks, NoRow
  <2> QED
    BY <1>1, <1>6, <2>1 DEF IInv, Outranks, RowSince, HeadSince
<1>14. Floors'
  BY <1>1, <1>6, <1>7, <1>11 DEF IInv, Floors, RowSince, HeadSince
<1>15. StampsAreOld'
  BY <1>1, <1>2, <1>3, <1>4, <1>9, <1>11 DEF IInv, StampsAreOld
<1>16. ReusedIsDone' /\ ServedIsCurrent'
  BY <1>11 DEF IInv, ReusedIsDone, ServedIsCurrent
<1> QED
  BY <1>5, <1>12, <1>13, <1>14, <1>15, <1>16 DEF IInv

\* A statement that commits.
LEMMA MutationLandsIInv == ASSUME IInv, MutationLands PROVE IInv'
<1>1. /\ HasWork /\ Settled /\ faults' \in Nat
      /\ row' = NoRow \/ (row' = Stored /\ Working.under = "store" /\ known' = known)
  BY DEF MutationLands, IInv, TypeOK
<1>2. /\ known' \in [refusedAt : Nat, unconfirmed : BOOLEAN] /\ known'.refusedAt = known.refusedAt
  BY DEF MutationLands, IInv, TypeOK
<1> QED
  BY <1>1, <1>2, SettlesIInv

\* A statement that throws: a store that may have committed leaves the contact marked.
LEMMA MutationFailsIInv == ASSUME IInv, MutationFails PROVE IInv'
<1>1. /\ HasWork /\ Settled /\ faults' \in Nat
      /\ row' = row \/ (row' = Stored /\ Working.under = "store")
  BY DEF MutationFails, Fault, IInv, TypeOK
<1>2. /\ known' \in [refusedAt : Nat, unconfirmed : BOOLEAN] /\ known'.refusedAt = known.refusedAt
      /\ known.unconfirmed => known'.unconfirmed
  BY DEF MutationFails, FailureKnown, IInv, TypeOK
<1> QED
  BY <1>1, <1>2, SettlesIInv

-----------------------------------------------------------------------------
\* Every step keeps the invariant.
LEMMA NextIInv == IInv /\ [Next]_vars => IInv'
<1> SUFFICES ASSUME IInv, [Next]_vars PROVE IInv'
  OBVIOUS
<1>1. ASSUME NEW c \in Checks,
             Starts(c) \/ Stamps(c) \/ Reads(c) \/ Resolves(c) \/ Answers(c) \/ GivesUp(c)
      PROVE IInv'
  BY <1>1, StartsIInv, StampsIInv, ReadsIInv, ResolvesIInv, AnswersIInv, GivesUpIInv
<1>2. CASE UNCHANGED vars
  BY <1>2 DEF vars, IInv, TypeOK, Outranks, Floors, HeadOnly, StampsAreOld, ReusedIsDone,
              ServedIsCurrent, RowSince, HeadSince, HasWork, Working
<1> QED
  BY <1>1, <1>2, RotatesIInv, MutationBeginsIInv, MutationLandsIInv, MutationFailsIInv DEF Next

\* A stored verdict is reused only while it is newer than every refusal given before its read
\* (grants.ts), for any number of overlapping checks, credential rotations and failed writes.
THEOREM ReusedVerdictsAreCurrent == Spec => []ServedIsCurrent
<1>1. IInv => ServedIsCurrent
  BY DEF IInv
<1> QED
  BY <1>1, InitIInv, NextIInv, PTL DEF Spec
-----------------------------------------------------------------------------
(* Notices: the windows                                                      *)

\* The claims a window may be held by, and what is open is what stands.
Windows ==
    /\ window \in [{"copy", "note"} -> Nat] /\ mine \in [Deliveries -> Nat] /\ claims \in Nat
    /\ cooldown \in BOOLEAN
    /\ open \subseteq {"copy", "note"} \X (1..claims)
    /\ \A w \in open : w[2] = window[w[1]]

\* All that either gate may do to the windows in one step: nothing, a lapse, a claim of a window
\* that is free, or the return of a claim.
WindowStep ==
    \/ UNCHANGED <<window, mine, claims, open>>
    \/ \E n \in {"copy", "note"} : Ceiling!Lapses(n)
    \/ \E d \in Deliveries, n \in {"copy", "note"} : Ceiling!Voices(n) /\ Ceiling!Claims(d, n)
    \/ \E d \in Deliveries, n \in {"copy", "note"} :
         Ceiling!GivesBack(d, n) /\ UNCHANGED <<mine, claims>>

\* A step of the spend ceiling's gate is such a step.
LEMMA CeilingMovesWindows == Ceiling!Next => WindowStep /\ UNCHANGED cooldown
<1> SUFFICES ASSUME Ceiling!Next PROVE WindowStep /\ UNCHANGED cooldown
  OBVIOUS
<1>1. CASE Ceiling!ChangesHands
  BY <1>1 DEF Ceiling!ChangesHands, WindowStep
<1>2. ASSUME NEW n \in {"copy", "note"}, Ceiling!Lapses(n) PROVE WindowStep /\ UNCHANGED cooldown
  BY <1>2 DEF WindowStep, Ceiling!Lapses
<1>3. ASSUME NEW d \in Deliveries, Ceiling!Comes(d) \/ Ceiling!Opens(d)
      PROVE WindowStep /\ UNCHANGED cooldown
  BY <1>3 DEF WindowStep, Ceiling!Comes, Ceiling!Opens
<1>4. ASSUME NEW d \in Deliveries, Ceiling!Begins(d) \/ Ceiling!Explains(d)
      PROVE WindowStep /\ UNCHANGED cooldown
  BY <1>4, Zenon DEF WindowStep, Ceiling!Begins, Ceiling!Explains
<1>5. ASSUME NEW d \in Deliveries, Ceiling!Asks(d) \/ Ceiling!Sends(d) \/ Ceiling!Posts(d)
      PROVE WindowStep /\ UNCHANGED cooldown
  BY <1>5, Zenon DEF WindowStep, Ceiling!Asks, Ceiling!Sends, Ceiling!Posts, Ceiling!Withheld
<1> QED
  BY <1>1, <1>2, <1>3, <1>4, <1>5 DEF Ceiling!Next, Ceiling!Notice

\* And so is a step of contact authorization's.
LEMMA GateMovesWindows == Gate!Next => WindowStep /\ UNCHANGED cooldown
<1> SUFFICES ASSUME Gate!Next PROVE WindowStep /\ UNCHANGED cooldown
  OBVIOUS
<1>1. CASE Gate!ChangesHands
  BY <1>1 DEF Gate!ChangesHands, WindowStep
<1>2. ASSUME NEW n \in {"copy", "note"}, Gate!Lapses(n) PROVE WindowStep /\ UNCHANGED cooldown
  BY <1>2 DEF WindowStep, Gate!Lapses, Ceiling!Lapses, Gate!None, Ceiling!None
<1>3. ASSUME NEW d \in Deliveries, Gate!Comes(d) \/ Gate!Opens(d)
      PROVE WindowStep /\ UNCHANGED cooldown
  BY <1>3 DEF WindowStep, Gate!Comes, Gate!Opens
<1>4. ASSUME NEW d \in Deliveries, NEW n \in {"copy", "note"}
      PROVE /\ Gate!Voices(n) <=> Ceiling!Voices(n)
            /\ Gate!Claims(d, n) <=> Ceiling!Claims(d, n)
            /\ Gate!GivesBack(d, n) <=> Ceiling!GivesBack(d, n)
  BY DEF Gate!Voices, Ceiling!Voices, Gate!Claims, Ceiling!Claims, Gate!GivesBack,
         Ceiling!GivesBack, Gate!Releases, Ceiling!Releases, Gate!None, Ceiling!None
<1>5. ASSUME NEW d \in Deliveries, Gate!Begins(d) \/ Gate!Explains(d)
      PROVE WindowStep /\ UNCHANGED cooldown
  BY <1>4, <1>5, Zenon DEF WindowStep, Gate!Begins, Gate!Explains
<1>6. ASSUME NEW d \in Deliveries, Gate!Asks(d) \/ Gate!Sends(d) \/ Gate!Posts(d)
      PROVE WindowStep /\ UNCHANGED cooldown
  BY <1>4, <1>6, Zenon DEF WindowStep, Gate!Asks, Gate!Sends, Gate!Posts, Gate!Withheld
<1> QED
  BY <1>1, <1>2, <1>3, <1>5, <1>6 DEF Gate!Next, Gate!Notice

\* No such step opens a second window: the claim of a free window is a new one, and a release lets
\* go of nothing but its own.
LEMMA WindowsStand == ASSUME Windows, WindowStep, UNCHANGED cooldown PROVE Windows'
<1>1. CASE UNCHANGED <<window, mine, claims, open>>
  BY <1>1 DEF Windows
<1>2. ASSUME NEW n \in {"copy", "note"}, Ceiling!Lapses(n) PROVE Windows'
  BY <1>2 DEF Windows, Ceiling!Lapses, Ceiling!None
<1>3. ASSUME NEW d \in Deliveries, NEW n \in {"copy", "note"}, Ceiling!Voices(n), Ceiling!Claims(d, n)
      PROVE Windows'
  <2>1. CASE ~cooldown
    BY <1>3, <2>1 DEF Windows, Ceiling!Claims, Ceiling!None
  <2>2. CASE cooldown
    <3>1. /\ claims' = claims + 1 /\ mine' = [mine EXCEPT ![d] = claims + 1]
          /\ window' = [window EXCEPT ![n] = claims + 1]
          /\ open' = open \cup {<<n, claims + 1>>}
      BY <1>3, <2>2 DEF Ceiling!Claims
    <3>2. \A w \in open : w[1] # n
      BY <1>3, <2>2 DEF Windows, Ceiling!Voices, Ceiling!None
    <3>3. open' \subseteq {"copy", "note"} \X (1..claims')
      BY <3>1 DEF Windows
    <3>4. \A w \in open' : w[2] = window'[w[1]]
      BY <3>1, <3>2 DEF Windows
    <3> QED
      BY <3>1, <3>3, <3>4 DEF Windows
  <2> QED
    BY <2>1, <2>2 DEF Windows
<1>4. ASSUME NEW d \in Deliveries, NEW n \in {"copy", "note"}, Ceiling!GivesBack(d, n),
             UNCHANGED <<mine, claims>>
      PROVE Windows'
  <2>1. /\ window' = [window EXCEPT ![n] = IF @ = mine[d] THEN 0 ELSE @]
        /\ open' = open \ {<<n, mine[d]>>}
    BY <1>4 DEF Ceiling!GivesBack, Ceiling!Releases, Ceiling!None
  <2>2. ASSUME NEW w \in open' PROVE w[2] = window'[w[1]]
    <3>1. w \in open /\ w \in {"copy", "note"} \X (1..claims) /\ w # <<n, mine[d]>>
      BY <2>1 DEF Windows
    <3>2. w[1] = n => w[2] # mine[d]
      BY <3>1
    <3> QED
      BY <2>1, <3>1, <3>2 DEF Windows
  <2> QED
    BY <1>4, <2>1, <2>2 DEF Windows
<1> QED
  BY <1>1, <1>2, <1>3, <1>4 DEF WindowStep

\* What stands of one notice is at most one claim.
LEMMA StandingIsOne ==
    ASSUME Windows, NEW n \in {"copy", "note"}
    PROVE Cardinality({w \in open : w[1] = n}) <= 1
<1> DEFINE ofIt == {w \in open : w[1] = n}
<1>1. \A w \in ofIt : w = <<n, window[n]>>
  BY DEF Windows
<1>2. ofIt \subseteq {<<n, window[n]>>}
  BY <1>1
<1>3. IsFiniteSet({<<n, window[n]>>}) /\ Cardinality({<<n, window[n]>>}) = 1
  BY FS_Singleton
<1> HIDE DEF ofIt
<1>4. Cardinality(ofIt) <= Cardinality({<<n, window[n]>>})
  BY <1>2, <1>3, FS_Subset
<1> QED
  BY <1>3, <1>4 DEF ofIt

-----------------------------------------------------------------------------
(* Notices: told, then handed off                                            *)

Running(d) == refusal[d] \in {"asking", "sending", "opening", "explaining", "posting"}

\* One sequence at a time: what runs is at the head of the line, and what is queued is in it.
HeadRuns ==
    /\ refusal \in [Deliveries -> {"idle", "queued", "joined", "asking", "sending", "opening",
                                   "explaining", "posting", "done"}]
    /\ line \in Seq(Deliveries)
    /\ \A d \in Deliveries : Running(d) => line # <<>> /\ Head(line) = d
    /\ \A d \in Deliveries : refusal[d] = "queued" => \E i \in 1..Len(line) : line[i] = d

\* A window of the copy that is held was held by a copy that went out, or by the one under way.
Informed == told \/ excused
CopyStands ==
    /\ told \in BOOLEAN /\ excused \in BOOLEAN /\ holder \in {"bot", "gate", "person"}
    /\ window["copy"] # 0 =>
         Informed \/ \E d \in Deliveries : refusal[d] \in {"asking", "sending"} /\ mine[d] = window["copy"]
    /\ \A d \in Deliveries : refusal[d] = "opening" /\ holder = "bot" => Informed
    /\ holder = "gate" => Informed

CeilingInv == Windows /\ HeadRuns /\ CopyStands

\* The line after a step of one delivery: as it was, or without its head once that is over.
LEMMA LineMoves ==
    ASSUME HeadRuns, NEW d \in Deliveries, NEW pc \in {"asking", "sending", "opening", "explaining",
           "posting"}, refusal' = [refusal EXCEPT ![d] = pc], line' = line,
           refusal[d] = "queued" => d = Head(line),
           refusal[d] = "queued" \/ Running(d)
    PROVE HeadRuns'
<1>1. line # <<>> /\ Head(line) = d
  BY DEF HeadRuns
<1>2. \A e \in Deliveries : Running(e)' => line # <<>> /\ Head(line) = e
  BY <1>1 DEF HeadRuns, Running
<1> QED
  BY <1>2 DEF HeadRuns

\* With the head over, nothing runs, and what was queued is still in line.
LEMMA LineShrinks ==
    ASSUME HeadRuns, NEW d \in Deliveries, Running(d), Ceiling!Finishes(d)
    PROVE HeadRuns'
<1>1. line # <<>> /\ Head(line) = d /\ line' = Tail(line)
  BY DEF HeadRuns, Ceiling!Finishes
<1>2. \A e \in Deliveries : refusal'[e] = refusal[e] \/ refusal'[e] = "done"
  BY DEF HeadRuns, Ceiling!Finishes
<1>3. refusal'[d] = "done"
  BY DEF HeadRuns, Ceiling!Finishes
<1>4. \A e \in Deliveries : ~Running(e)'
  BY <1>1, <1>2, <1>3 DEF HeadRuns, Running
<1>5. ASSUME NEW e \in Deliveries, refusal'[e] = "queued"
      PROVE \E i \in 1..Len(line') : line'[i] = e
  <2>1. refusal[e] = "queued" /\ e # d
    BY <1>2, <1>3, <1>5
  <2>2. PICK i \in 1..Len(line) : line[i] = e
    BY <2>1 DEF HeadRuns
  <2>3. line \in Seq(Deliveries) /\ line[1] = d /\ i # 1
    BY <1>1, <2>1, <2>2 DEF HeadRuns
  <2>4. i - 1 \in 1..Len(line') /\ line'[i - 1] = e
    BY <1>1, <2>2, <2>3
  <2> QED
    BY <2>4
<1>6. refusal' \in [Deliveries -> {"idle", "queued", "joined", "asking", "sending", "opening",
                                  "explaining", "posting", "done"}]
  BY DEF HeadRuns, Ceiling!Finishes
<1>7. line' \in Seq(Deliveries)
  BY <1>1 DEF HeadRuns
<1> QED
  BY <1>4, <1>5, <1>6, <1>7 DEF HeadRuns

\* A delivery that arrives joins the one in flight, or the end of the line.
LEMMA LineGrows ==
    ASSUME HeadRuns, NEW d \in Deliveries, Ceiling!Arrives(d) PROVE HeadRuns'
<1>1. CASE line' = line /\ refusal' = [refusal EXCEPT ![d] = "joined"]
  <2>1. \A e \in Deliveries : (Running(e)' => Running(e)) /\ (refusal'[e] = "queued" => refusal[e] = "queued")
    BY <1>1 DEF HeadRuns, Running
  <2> QED
    BY <1>1, <2>1 DEF HeadRuns
<1>2. CASE line' = Append(line, d) /\ refusal' = [refusal EXCEPT ![d] = "queued"]
  <2>1. \A e \in Deliveries : (Running(e)' => Running(e))
                              /\ (refusal'[e] = "queued" => refusal[e] = "queued" \/ e = d)
    BY <1>2 DEF HeadRuns, Running
  <2>2. /\ line' \in Seq(Deliveries) /\ Len(line') = Len(line) + 1 /\ line'[Len(line')] = d
        /\ \A i \in 1..Len(line) : line'[i] = line[i]
        /\ line' # <<>> /\ (line # <<>> => Head(line') = Head(line))
    BY <1>2 DEF HeadRuns
  <2>3. ASSUME NEW e \in Deliveries, refusal'[e] = "queued"
        PROVE \E i \in 1..Len(line') : line'[i] = e
    <3>1. CASE e = d
      <4>1. Len(line') \in 1..Len(line')
        BY <2>2 DEF HeadRuns
      <4> QED
        BY <2>2, <3>1, <4>1
    <3>2. CASE e # d
      <4>1. PICK i \in 1..Len(line) : line[i] = e
        BY <2>1, <2>3, <3>2 DEF HeadRuns
      <4>2. i \in 1..Len(line')
        BY <2>2, <4>1 DEF HeadRuns
      <4> QED
        BY <2>2, <4>1, <4>2
    <3> QED
      BY <3>1, <3>2
  <2>4. refusal' \in [Deliveries -> {"idle", "queued", "joined", "asking", "sending", "opening",
                                    "explaining", "posting", "done"}]
    BY <1>2 DEF HeadRuns
  <2> QED
    BY <2>1, <2>2, <2>3, <2>4 DEF HeadRuns
<1> QED
  BY <1>1, <1>2 DEF Ceiling!Arrives, Ceiling!GoesTo

\* Nobody else runs beside a delivery that runs or begins.
LEMMA RunsAlone ==
    ASSUME HeadRuns, NEW d \in Deliveries, Running(d) \/ (refusal[d] = "queued" /\ Head(line) = d),
           NEW e \in Deliveries, Running(e)
    PROVE e = d
BY DEF HeadRuns

\* Before its turn a delivery has nothing of the copy under way: a step of the world.
LEMMA WorldKeepsTold ==
    ASSUME CeilingInv,
           Ceiling!ChangesHands \/ (\E n \in {"copy", "note"} : Ceiling!Lapses(n))
             \/ \E d \in Deliveries : Ceiling!Comes(d)
    PROVE HeadRuns' /\ CopyStands'
<1>1. CASE Ceiling!ChangesHands
  <2>1. UNCHANGED <<refusal, line, window, mine, told>>
    BY <1>1 DEF Ceiling!ChangesHands
  <2>2. HeadRuns'
    BY <2>1 DEF CeilingInv, HeadRuns, Running
  <2>3. ASSUME holder = "person" PROVE CopyStands'
    <3> DEFINE opening == \E d \in Deliveries : refusal[d] = "opening"
    <3>1. excused' = (excused \/ opening) /\ holder' = "bot"
      BY <1>1, <2>3 DEF Ceiling!ChangesHands
    <3>2. opening \in BOOLEAN /\ \A d \in Deliveries : refusal[d] = "opening" => opening
      OBVIOUS
    <3> HIDE DEF opening
    <3>3. excused' \in BOOLEAN /\ (excused => excused') /\ (opening => excused')
      BY <3>1, <3>2 DEF CeilingInv, CopyStands
    <3> QED
      BY <2>1, <3>1, <3>2, <3>3 DEF CeilingInv, CopyStands, Informed
  <2>4. ASSUME holder # "person" PROVE CopyStands'
    BY <1>1, <2>1, <2>4 DEF CeilingInv, CopyStands, Informed, Ceiling!ChangesHands
  <2> QED
    BY <2>2, <2>3, <2>4
<1>2. ASSUME NEW n \in {"copy", "note"}, Ceiling!Lapses(n) PROVE HeadRuns' /\ CopyStands'
  <2>1. HeadRuns'
    BY <1>2 DEF CeilingInv, HeadRuns, Running, Ceiling!Lapses
  <2>2. window'["copy"] = 0 \/ window'["copy"] = window["copy"]
    BY <1>2 DEF CeilingInv, Windows, Ceiling!Lapses, Ceiling!None
  <2> QED
    BY <1>2, <2>1, <2>2 DEF CeilingInv, CopyStands, Informed, Ceiling!Lapses
<1>3. ASSUME NEW d \in Deliveries, Ceiling!Comes(d) PROVE HeadRuns' /\ CopyStands'
  <2>1. /\ UNCHANGED <<window, mine, holder, told, excused>> /\ refusal[d] = "idle"
        /\ \A e \in Deliveries \ {d} : refusal'[e] = refusal[e]
        /\ refusal'[d] \in {"queued", "joined"}
    BY <1>3 DEF CeilingInv, HeadRuns, Ceiling!Comes, Ceiling!Arrives, Ceiling!GoesTo
  <2>2. \A e \in Deliveries : refusal[e] \in {"asking", "sending"} => refusal'[e] = refusal[e]
    BY <2>1
  <2>3. \A e \in Deliveries : refusal'[e] = "opening" => refusal[e] = "opening"
    BY <2>1
  <2>4. CopyStands'
    BY <2>1, <2>2, <2>3 DEF CeilingInv, CopyStands, Informed
  <2> QED
    BY <1>3, <2>4, LineGrows DEF CeilingInv, Ceiling!Comes
<1> QED
  BY <1>1, <1>2, <1>3

\* A delivery whose turn it is claims the copy's window, or finds it held for good.
LEMMA BeginsTold ==
    ASSUME CeilingInv, NEW d \in Deliveries, Ceiling!Begins(d) PROVE HeadRuns' /\ CopyStands'
<1>1. refusal[d] = "queued" /\ line # <<>> /\ d = Head(line)
  BY DEF CeilingInv, HeadRuns, Ceiling!Begins
<1>2. \A e \in Deliveries : ~Running(e)
  BY <1>1, RunsAlone DEF CeilingInv, Running
<1>3. UNCHANGED <<line, holder, told, excused>>
  BY DEF Ceiling!Begins
<1>4. CASE Ceiling!Voices("copy")
  <2>1. Ceiling!Claims(d, "copy") /\ refusal' = [refusal EXCEPT ![d] = "asking"]
    BY <1>4 DEF Ceiling!Begins, Ceiling!GoesTo
  <2>2. HeadRuns'
    BY <1>1, <1>3, <2>1, LineMoves DEF CeilingInv
  <2>3. refusal'[d] = "asking" /\ \A e \in Deliveries : refusal'[e] # "opening"
    BY <1>2, <2>1 DEF CeilingInv, HeadRuns, Running
  <2>4. window'["copy"] # 0 => Informed \/ mine'[d] = window'["copy"]
    <3>1. CASE cooldown
      BY <2>1, <3>1 DEF CeilingInv, Windows, Ceiling!Claims
    <3>2. CASE ~cooldown
      BY <1>2, <2>1, <3>2 DEF CeilingInv, CopyStands, Ceiling!Claims, Running
    <3> QED
      BY <3>1, <3>2
  <2> QED
    BY <1>3, <2>2, <2>3, <2>4 DEF CeilingInv, CopyStands, Informed
<1>5. CASE ~Ceiling!Voices("copy")
  <2>1. UNCHANGED <<window, mine>> /\ refusal' = [refusal EXCEPT ![d] = "opening"]
    BY <1>5 DEF Ceiling!Begins, Ceiling!GoesTo
  <2>2. HeadRuns'
    BY <1>1, <1>3, <2>1, LineMoves DEF CeilingInv
  <2>3. Informed
    BY <1>2, <1>5 DEF CeilingInv, CopyStands, Ceiling!Voices, Ceiling!None, Running
  <2> QED
    BY <1>3, <2>2, <2>3 DEF CeilingInv, CopyStands, Informed
<1> QED
  BY <1>4, <1>5

\* A copy that is not sent gives back the window, unless that is held for good.
LEMMA WithheldTold ==
    ASSUME CeilingInv, NEW d \in Deliveries, refusal[d] \in {"asking", "sending"}, Ceiling!Withheld(d),
           UNCHANGED <<line, mine, holder, told>>,
           (holder # "bot" /\ excused' = excused) \/ excused' = TRUE
    PROVE HeadRuns' /\ CopyStands'
<1>1. Running(d) /\ refusal' = [refusal EXCEPT ![d] = "opening"]
  BY DEF Running, Ceiling!Withheld, Ceiling!GoesTo
<1>2. HeadRuns'
  BY <1>1, LineMoves DEF CeilingInv, Running
<1>3. \A e \in Deliveries : refusal[e] \in {"asking", "sending", "opening"} => e = d
  BY <1>1, RunsAlone DEF CeilingInv, Running
<1>4. window'["copy"] # 0 => Informed
  BY <1>3 DEF CeilingInv, Windows, CopyStands, Ceiling!Withheld, Ceiling!GivesBack, Ceiling!Releases,
              Ceiling!None
<1>5. Informed => Informed'
  BY DEF Informed
<1>6. \A e \in Deliveries : refusal'[e] = "opening" => e = d
  BY <1>1, <1>3 DEF CeilingInv, HeadRuns
<1> QED
  BY <1>2, <1>4, <1>5, <1>6 DEF CeilingInv, CopyStands, Informed

\* The copy: fenced, then sent.
LEMMA CopyTold ==
    ASSUME CeilingInv, NEW d \in Deliveries, Ceiling!Asks(d) \/ Ceiling!Sends(d)
    PROVE HeadRuns' /\ CopyStands'
<1>1. refusal[d] \in {"asking", "sending"} /\ Running(d)
  BY DEF Ceiling!Asks, Ceiling!Sends, Running
<1>2. \A e \in Deliveries : refusal[e] \in {"asking", "sending", "opening"} => e = d
  BY <1>1, RunsAlone DEF CeilingInv, Running
<1>3. CASE /\ Ceiling!Withheld(d) /\ UNCHANGED <<line, mine, holder, told>>
           /\ (holder # "bot" /\ excused' = excused) \/ excused' = TRUE
  BY <1>1, <1>3, WithheldTold
<1>4. CASE /\ refusal' = [refusal EXCEPT ![d] = "sending"]
           /\ UNCHANGED <<line, window, mine, holder, told, excused>>
  <2>1. HeadRuns'
    BY <1>1, <1>4, LineMoves DEF CeilingInv, Running
  <2>2. \A e \in Deliveries : refusal[e] \in {"asking", "sending"} => refusal'[e] \in {"asking", "sending"}
    BY <1>4 DEF CeilingInv, HeadRuns
  <2>3. \A e \in Deliveries : refusal'[e] # "opening"
    BY <1>1, <1>2, <1>4 DEF CeilingInv, HeadRuns
  <2> QED
    BY <1>4, <2>1, <2>2, <2>3 DEF CeilingInv, CopyStands, Informed
<1>5. CASE /\ refusal' = [refusal EXCEPT ![d] = "opening"] /\ told' = TRUE
           /\ UNCHANGED <<line, window, mine, holder, excused>>
  <2>1. HeadRuns'
    BY <1>1, <1>5, LineMoves DEF CeilingInv, Running
  <2> QED
    BY <1>5, <2>1 DEF CeilingInv, CopyStands, Informed
<1> QED
  BY <1>3, <1>4, <1>5, Zenon DEF Ceiling!Asks, Ceiling!Sends, Ceiling!GoesTo

\* The handoff and the note come after, and touch neither the copy's window nor what was told.
LEMMA AfterCopyTold ==
    ASSUME CeilingInv, NEW d \in Deliveries,
           Ceiling!Opens(d) \/ Ceiling!Explains(d) \/ Ceiling!Posts(d)
    PROVE HeadRuns' /\ CopyStands'
<1>1. refusal[d] \in {"opening", "explaining", "posting"} /\ Running(d)
  BY DEF Ceiling!Opens, Ceiling!Explains, Ceiling!Posts, Running
<1>2. \A e \in Deliveries : Running(e) => e = d
  BY <1>1, RunsAlone DEF CeilingInv
<1>3. window["copy"] # 0 => Informed
  BY <1>1, <1>2 DEF CeilingInv, CopyStands, Running
<1>4. UNCHANGED <<told, excused>>
  BY DEF Ceiling!Opens, Ceiling!Explains, Ceiling!Posts
<1>5. window'["copy"] = window["copy"]
  BY DEF CeilingInv, Windows, Ceiling!Opens, Ceiling!Explains, Ceiling!Posts, Ceiling!Claims,
         Ceiling!GivesBack, Ceiling!Releases
<1>6. CASE Ceiling!Opens(d)
  <2>1. refusal' = [refusal EXCEPT ![d] = "explaining"] /\ line' = line
    BY <1>6 DEF Ceiling!Opens, Ceiling!GoesTo
  <2>2. HeadRuns'
    BY <1>1, <2>1, LineMoves DEF CeilingInv, Running
  <2>3. \A e \in Deliveries : refusal'[e] # "opening"
    BY <1>2, <2>1 DEF CeilingInv, HeadRuns, Running
  <2>4. holder' \in {"bot", "gate", "person"} /\ (holder' = "gate" => Informed)
    BY <1>6 DEF CeilingInv, CopyStands, Ceiling!Opens
  <2> QED
    BY <1>3, <1>4, <1>5, <2>2, <2>3, <2>4 DEF CeilingInv, CopyStands, Informed
<1>7. CASE Ceiling!Explains(d) \/ Ceiling!Posts(d)
  <2>1. holder' = holder /\ refusal[d] # "opening"
    BY <1>7 DEF Ceiling!Explains, Ceiling!Posts
  <2>2. \/ Ceiling!Finishes(d)
        \/ refusal' = [refusal EXCEPT ![d] = "posting"] /\ line' = line
    BY <1>7 DEF Ceiling!Explains, Ceiling!Posts, Ceiling!GoesTo
  <2>3. HeadRuns'
    BY <1>1, <2>2, LineMoves, LineShrinks DEF CeilingInv, Running
  <2>4. \A e \in Deliveries : refusal'[e] # "opening"
    BY <1>2, <2>1, <2>2 DEF CeilingInv, HeadRuns, Running, Ceiling!Finishes
  <2> QED
    BY <1>3, <1>4, <1>5, <2>1, <2>3, <2>4 DEF CeilingInv, CopyStands, Informed
<1> QED
  BY <1>6, <1>7

\* Every step of the gate preserves the invariant.
LEMMA CeilingStep == ASSUME CeilingInv, Ceiling!Next PROVE CeilingInv'
<1>1. Windows'
  BY CeilingMovesWindows, WindowsStand DEF CeilingInv
<1>2. HeadRuns' /\ CopyStands'
  BY WorldKeepsTold, BeginsTold, CopyTold, AfterCopyTold DEF Ceiling!Next, Ceiling!Notice
<1> QED
  BY <1>1, <1>2 DEF CeilingInv

-----------------------------------------------------------------------------
(* The run's specification                                                   *)

\* Both gates begin with nothing claimed and nobody told.
LEMMA NoticesInit == UnionInit => CeilingInv
<1> SUFFICES ASSUME Ceiling!Init PROVE CeilingInv
  BY DEF UnionInit
<1>1. Windows
  BY DEF Ceiling!Init, Windows, Ceiling!Notice, Ceiling!None
<1>2. HeadRuns
  BY DEF Ceiling!Init, HeadRuns, Running
<1>3. CopyStands
  BY DEF Ceiling!Init, CopyStands, Ceiling!Notice, Ceiling!None
<1> QED
  BY <1>1, <1>2, <1>3 DEF CeilingInv

\* Of each notice one window is open at a time, by either gate: a release never takes another
\* delivery's window away, however slow a send that fails (state.ts, notice.ts).
THEOREM OneWindowOfEachNotice == UnionSpec => []OneOpenWindow
<1> DEFINE Inv == instance \in {"ceiling", "gate"} => Windows
<1>1. UnionInit => Inv
  BY NoticesInit DEF CeilingInv
<1>2. Inv /\ [UnionNext]_allVars => Inv'
  <2> SUFFICES ASSUME Inv, [UnionNext]_allVars, instance' \in {"ceiling", "gate"}
               PROVE Windows'
    OBVIOUS
  <2>1. CASE UNCHANGED allVars
    BY <2>1 DEF allVars, noticeVars, Windows
  <2>2. CASE UnionNext
    <3>1. instance' = instance /\ Windows
      BY <2>2 DEF UnionNext
    <3>2. (instance = "ceiling" /\ Ceiling!Next) \/ (instance = "gate" /\ Gate!Next)
      BY <2>2, <3>1, Zenon DEF UnionNext
    <3> QED
      BY <3>1, <3>2, CeilingMovesWindows, GateMovesWindows, WindowsStand
  <2> QED
    BY <2>1, <2>2
<1>3. Inv => OneOpenWindow
  <2>1. /\ \A S : Ceiling!Cardinality(S) = Cardinality(S)
        /\ \A S : Gate!Cardinality(S) = Cardinality(S)
    BY DEF Cardinality, Ceiling!Cardinality, Gate!Cardinality, IsFiniteSet, Ceiling!IsFiniteSet, Gate!IsFiniteSet
  <2> QED
    BY <2>1, StandingIsOne DEF OneOpenWindow, Ceiling!OneOpenWindow, Gate!OneOpenWindow,
                               Ceiling!Notice, Gate!Notice
<1> QED
  BY <1>1, <1>2, <1>3, PTL DEF UnionSpec

\* The spend ceiling never hands a conversation to a person before the customer was told, however
\* deliveries of refusals overlap and whoever takes the conversation meanwhile (notice.ts).
THEOREM CopyThenHandoff == UnionSpec => []ToldBeforeHandedOff
<1> DEFINE Inv == instance = "ceiling" => CeilingInv
<1>1. UnionInit => Inv
  BY NoticesInit
<1>2. Inv /\ [UnionNext]_allVars => Inv'
  <2> SUFFICES ASSUME Inv, [UnionNext]_allVars, instance' = "ceiling" PROVE CeilingInv'
    OBVIOUS
  <2>1. CASE UNCHANGED allVars
    BY <2>1 DEF allVars, noticeVars, CeilingInv, Windows, HeadRuns, CopyStands, Running, Informed
  <2>2. CASE UnionNext
    <3>1. instance' = instance /\ CeilingInv
      BY <2>2 DEF UnionNext
    <3>2. Ceiling!Next
      BY <2>2, <3>1, Zenon DEF UnionNext
    <3> QED
      BY <3>1, <3>2, CeilingStep
  <2> QED
    BY <2>1, <2>2
<1>3. Inv => ToldBeforeHandedOff
  BY DEF ToldBeforeHandedOff, Ceiling!ToldBeforeHandedOff, CeilingInv, CopyStands, Informed
<1> QED
  BY <1>1, <1>2, <1>3, PTL DEF UnionSpec

-----------------------------------------------------------------------------
(* Spend: the types and the clock                                            *)

Pollings == [pc : {"idle", "asking", "answered", "unset", "failing", "done"}, at : Nat,
             with : Creds \cup {Nothing, "unread"}, seen : Nat,
             outcome : {"none", "polled", "failed", "unset", "superseded", "unrecorded"},
             fresh : BOOLEAN]
Snapshots == [figure : Nat, carried : Nat, project : Projects \cup {Nothing}, polledAt : Nat,
              error : {"none", "unset", "failed"}, lastFailedAt : Nat]

SpendTypes ==
    /\ credential \in Creds \cup {Nothing} /\ left \subseteq Projects
    /\ real \in [Projects -> Nat] /\ top \in [Projects -> Nat] /\ total \in Nat
    /\ poll \in [Polls -> Pollings] /\ now \in Nat /\ month \in Snapshots

\* A poll asks with a credential; nothing is stamped later than the clock; a fresh one was started
\* under the credential that stands.
PollsAreSane ==
    /\ \A p \in Polls : poll[p].pc \in {"asking", "answered"} => poll[p].with \in Creds
    /\ \A p \in Polls : poll[p].pc = "unset" => poll[p].with = Nothing
    /\ \A p \in Polls : poll[p].pc = "idle" => ~poll[p].fresh
    /\ \A p \in Polls : poll[p].fresh => poll[p].with \in {credential, "unread"}
    /\ \A p \in Polls : poll[p].at <= now
    /\ month.polledAt <= now /\ month.lastFailedAt <= now

SpendTyped == SpendTypes /\ PollsAreSane

\* The larger of two.
LEMMA LargerOfTwo ==
    ASSUME NEW a \in Nat, NEW b \in Nat
    PROVE Polled!Max({a, b}) = IF a >= b THEN a ELSE b
BY DEF Polled!Max

\* What may change of the polls in one step: one poll goes on, or all of them are out of date.
LEMMA PollGoesOn ==
    ASSUME SpendTyped, NEW p \in Polls,
           \/ \E outcome \in {"polled", "failed", "unset", "superseded", "unrecorded"} :
                Polled!Ends(p, outcome)
           \/ poll' = [poll EXCEPT ![p].pc = "failing"]
           \/ /\ poll[p].with \in Creds
              /\ \E seen \in Nat : poll' = [poll EXCEPT ![p].pc = "answered", ![p].seen = seen],
           poll[p].pc # "idle",
           UNCHANGED <<credential, left, now>>, real' \in [Projects -> Nat],
           top' \in [Projects -> Nat], total' \in Nat, month' \in Snapshots,
           month'.polledAt <= now, month'.lastFailedAt <= now
    PROVE /\ SpendTyped'
          /\ \A q \in Polls : poll'[q].at = poll[q].at /\ poll'[q].fresh = poll[q].fresh
                              /\ poll'[q].with = poll[q].with
          /\ \A q \in Polls \ {p} : poll'[q] = poll[q]
<1>1. poll[p] \in Pollings
  BY DEF SpendTyped, SpendTypes
<1>2. /\ \A q \in Polls \ {p} : poll'[q] = poll[q]
      /\ poll' \in [Polls -> Pollings]
      /\ poll'[p].at = poll[p].at /\ poll'[p].fresh = poll[p].fresh
      /\ poll'[p].with = poll[p].with
      /\ poll'[p].pc \in {"done", "failing", "answered"}
      /\ poll'[p].pc = "answered" => poll[p].with \in Creds
  <2>1. ASSUME NEW outcome \in {"polled", "failed", "unset", "superseded", "unrecorded"},
               Polled!Ends(p, outcome)
        PROVE <1>2!:
    BY <1>1, <2>1 DEF SpendTyped, SpendTypes, Pollings, Polled!Ends
  <2>2. CASE poll' = [poll EXCEPT ![p].pc = "failing"]
    BY <1>1, <2>2 DEF SpendTyped, SpendTypes, Pollings
  <2>3. ASSUME NEW seen \in Nat, poll[p].with \in Creds,
               poll' = [poll EXCEPT ![p].pc = "answered", ![p].seen = seen]
        PROVE <1>2!:
    BY <1>1, <2>3 DEF SpendTyped, SpendTypes, Pollings
  <2> QED
    BY <2>1, <2>2, <2>3
<1>3. SpendTypes'
  BY <1>2 DEF SpendTyped, SpendTypes
<1>4. \A q \in Polls : poll'[q].at = poll[q].at /\ poll'[q].fresh = poll[q].fresh
                       /\ poll'[q].with = poll[q].with
  BY <1>2
<1>5. PollsAreSane'
  <2>1. \A q \in Polls : poll'[q].pc \in {"asking", "answered"} => poll'[q].with \in Creds
    BY <1>2, <1>4 DEF SpendTyped, PollsAreSane
  <2>2. \A q \in Polls : poll'[q].pc = "unset" => poll'[q].with = Nothing
    BY <1>2, <1>4 DEF SpendTyped, PollsAreSane
  <2>3. \A q \in Polls : poll'[q].pc = "idle" => ~poll'[q].fresh
    BY <1>2, <1>4 DEF SpendTyped, PollsAreSane
  <2> QED
    BY <1>4, <2>1, <2>2, <2>3 DEF SpendTyped, PollsAreSane
<1> QED
  BY <1>2, <1>3, <1>4, <1>5 DEF SpendTyped

-----------------------------------------------------------------------------
(* Spend: the figure                                                         *)

\* The figure is what was carried into the month's project and the most that was read of it; every
\* project that was read is the row's or one the tenant has left, and the credential's is not one
\* of those.
FigureAdds ==
    /\ month.figure = total
    /\ month.project = Nothing =>
         month.figure = 0 /\ month.carried = 0 /\ \A j \in Projects : top[j] = 0
    /\ month.project # Nothing => month.figure = month.carried + top[month.project]
    /\ month.project # Nothing => \E k \in Creds : ProjectOf[k] = month.project

ReadIsLeft ==
    /\ \A j \in Projects : top[j] > 0 => j = month.project \/ j \in left
    /\ credential # Nothing => ProjectOf[credential] \notin left
    /\ month.project # Nothing /\ credential # Nothing /\ ProjectOf[credential] # month.project =>
         month.project \in left

-----------------------------------------------------------------------------
(* Spend: the health                                                         *)

StartedLast(p) == \A q \in Polls \ {p} : poll[q].at < poll[p].at

\* What the newest poll found is on the row, under its own stamp.
Found(p) ==
    \/ poll[p].outcome = "polled" /\ month.error = "none" /\ month.polledAt >= poll[p].at
    \/ poll[p].outcome = "failed" /\ month.error = "failed" /\ month.lastFailedAt = poll[p].at
    \/ poll[p].outcome = "unset" /\ month.error = "unset" /\ month.lastFailedAt = poll[p].at
         /\ credential = Nothing

NewestFound == \A p \in Polls :
    poll[p].pc = "done" /\ poll[p].fresh /\ poll[p].outcome # "unrecorded" /\ StartedLast(p) => Found(p)

\* The row bears no stamp later than the newest poll's.
StampsAreFound == \A p \in Polls :
    StartedLast(p) => month.polledAt <= poll[p].at /\ month.lastFailedAt <= poll[p].at

SpendInv == SpendTyped /\ FigureAdds /\ ReadIsLeft /\ NewestFound /\ StampsAreFound

\* A poll that goes on without writing: the row is as it was, and a poll that is done by it is not
\* asked about.
LEMMA QuietPoll ==
    ASSUME SpendInv, SpendTyped', NEW p \in Polls,
           UNCHANGED <<credential, left, top, total, month>>,
           \A q \in Polls : poll'[q].at = poll[q].at /\ poll'[q].fresh = poll[q].fresh,
           \A q \in Polls \ {p} : poll'[q] = poll[q],
           poll'[p].pc # "done" \/ poll'[p].outcome = "unrecorded" \/ ~poll[p].fresh
    PROVE SpendInv'
<1>1. FigureAdds' /\ ReadIsLeft'
  BY DEF SpendInv, FigureAdds, ReadIsLeft
<1>2. \A q \in Polls : StartedLast(q)' => StartedLast(q)
  BY DEF StartedLast
<1>3. StampsAreFound'
  BY <1>2 DEF SpendInv, StampsAreFound
<1>4. NewestFound'
  <2> SUFFICES ASSUME NEW q \in Polls, poll'[q].pc = "done", poll'[q].fresh,
                      poll'[q].outcome # "unrecorded", StartedLast(q)'
               PROVE Found(q)'
    BY DEF NewestFound
  <2>1. q # p
    OBVIOUS
  <2>2. Found(q)
    BY <1>2, <2>1 DEF SpendInv, NewestFound
  <2> QED
    BY <2>1, <2>2 DEF Found
<1> QED
  BY <1>1, <1>3, <1>4 DEF SpendInv

\* writeFailure, of a poll that finds what holds now.
LEMMA FailureFound ==
    ASSUME SpendInv, NEW p \in Polls, NEW error \in {"unset", "failed"}, poll[p].pc # "idle",
           Polled!WritesFailure(p, error), Polled!Ends(p, error), error = "unset" => credential = Nothing,
           UNCHANGED <<credential, left, real, now, top, total>>
    PROVE SpendInv'
<1>1. poll[p] \in Pollings /\ month \in Snapshots
  BY DEF SpendInv, SpendTyped, SpendTypes
<1>2. /\ month' \in Snapshots /\ month'.polledAt = month.polledAt
      /\ month'.figure = month.figure /\ month'.carried = month.carried
      /\ month'.project = month.project
      /\ \/ month' = month /\ (month.polledAt > poll[p].at \/ month.lastFailedAt > poll[p].at)
         \/ month'.error = error /\ month'.lastFailedAt = poll[p].at
            /\ month.polledAt <= poll[p].at /\ month.lastFailedAt <= poll[p].at
  <2>1. CASE month' = month /\ (month.polledAt > poll[p].at \/ month.lastFailedAt > poll[p].at)
    BY <1>1, <2>1
  <2>2. CASE /\ ~(month.polledAt > poll[p].at \/ month.lastFailedAt > poll[p].at)
             /\ month' = [month EXCEPT !.error = error, !.lastFailedAt = poll[p].at]
    <3> DEFINE at == poll[p].at
    <3>1. at \in Nat /\ month.polledAt \in Nat /\ month.lastFailedAt \in Nat
      BY <1>1 DEF Snapshots, Pollings
    <3>2. month.polledAt <= at /\ month.lastFailedAt <= at
      BY <2>2, <3>1
    <3>3. month' = [month EXCEPT !.error = error, !.lastFailedAt = at]
      BY <2>2
    <3> HIDE DEF at
    <3>4. /\ month' \in Snapshots /\ month'.error = error /\ month'.lastFailedAt = at
          /\ month'.polledAt = month.polledAt /\ month'.figure = month.figure
          /\ month'.carried = month.carried /\ month'.project = month.project
      BY <1>1, <3>1, <3>3 DEF Snapshots
    <3> QED
      BY <3>2, <3>4 DEF at
  <2> QED
    BY <2>1, <2>2 DEF Polled!WritesFailure
<1>3. /\ SpendTyped'
      /\ \A q \in Polls : poll'[q].at = poll[q].at /\ poll'[q].fresh = poll[q].fresh
                          /\ poll'[q].with = poll[q].with
      /\ \A q \in Polls \ {p} : poll'[q] = poll[q]
  <2>1. month'.polledAt <= now /\ month'.lastFailedAt <= now
    BY <1>2 DEF SpendInv, SpendTyped, PollsAreSane
  <2> QED
    BY <1>2, <2>1, PollGoesOn DEF SpendInv, SpendTyped, SpendTypes
<1>4. FigureAdds' /\ ReadIsLeft'
  BY <1>2 DEF SpendInv, FigureAdds, ReadIsLeft
<1>5. \A q \in Polls : (StartedLast(q)' => StartedLast(q)) /\ (StartedLast(q) => q = p \/ poll[p].at < poll[q].at)
  BY <1>3 DEF StartedLast
<1>6. \A q \in Polls : poll[q].at \in Nat
  BY DEF SpendInv, SpendTyped, SpendTypes, Pollings
<1>7. month.polledAt \in Nat /\ month.lastFailedAt \in Nat
  BY <1>1 DEF Snapshots
<1>8. StampsAreFound'
  BY <1>2, <1>3, <1>5, <1>6, <1>7 DEF SpendInv, StampsAreFound
<1>9. NewestFound'
  <2> SUFFICES ASSUME NEW q \in Polls, poll'[q].pc = "done", poll'[q].fresh,
                      poll'[q].outcome # "unrecorded", StartedLast(q)'
               PROVE Found(q)'
    BY DEF NewestFound
  <2>1. CASE q = p
    <3>1. month'.error = error /\ month'.lastFailedAt = poll[p].at
      BY <1>2, <1>5, <1>6, <1>7, <2>1 DEF SpendInv, StampsAreFound
    <3>2. poll'[p].outcome = error
      BY <1>1 DEF Polled!Ends, SpendInv, SpendTyped, SpendTypes, Pollings
    <3> QED
      BY <1>3, <2>1, <3>1, <3>2 DEF Found
  <2>2. CASE q # p
    <3>1. Found(q) /\ poll[p].at < poll[q].at
      BY <1>3, <1>5, <2>2 DEF SpendInv, NewestFound
    <3>2. CASE month' = month
      BY <1>3, <2>2, <3>1, <3>2 DEF Found
    <3>3. CASE month.polledAt <= poll[p].at /\ month.lastFailedAt <= poll[p].at
      BY <1>6, <1>7, <3>1, <3>3 DEF Found
    <3> QED
      BY <1>2, <3>2, <3>3
  <2> QED
    BY <2>1, <2>2
<1> QED
  BY <1>3, <1>4, <1>8, <1>9 DEF SpendInv

\* writeSuccess, under the credential that was asked with.
LEMMA SuccessFound ==
    ASSUME SpendInv, ConstantsAssumption, NEW p \in Polls, poll[p].pc = "answered",
           Polled!AskedUnderThis(p),
           Polled!WritesSuccess(p), Polled!Ends(p, "polled"), UNCHANGED <<credential, left, real, now>>
    PROVE SpendInv'
<1> DEFINE here == ProjectOf[credential]
           seen == poll[p].seen
<1>1. /\ poll[p] \in Pollings /\ month \in Snapshots /\ credential \in Creds
      /\ poll[p].with = credential
  BY DEF SpendInv, SpendTyped, SpendTypes, PollsAreSane, Polled!AskedUnderThis
<1>2. here \in Projects /\ here # Nothing /\ credential # Nothing /\ here \notin left
  BY <1>1 DEF ConstantsAssumption, Polled!ConstantsAssumption, SpendInv, ReadIsLeft
<1>3. /\ month.figure \in Nat /\ month.carried \in Nat /\ seen \in Nat /\ top[here] \in Nat
      /\ month.polledAt \in Nat /\ month.lastFailedAt \in Nat /\ poll[p].at \in Nat /\ total \in Nat
  BY <1>1, <1>2 DEF Pollings, Snapshots, SpendInv, SpendTyped, SpendTypes
<1> DEFINE carried == IF month.project \notin {Nothing, here} THEN month.figure ELSE month.carried
           most == IF top[here] >= seen THEN top[here] ELSE seen
<1>4. /\ month'.figure = (IF month.figure >= carried + seen THEN month.figure ELSE carried + seen)
      /\ month'.carried = carried /\ month'.project = here
      /\ month'.polledAt = (IF month.polledAt >= poll[p].at THEN month.polledAt ELSE poll[p].at)
      /\ month'.error = (IF month.lastFailedAt > poll[p].at THEN month.error ELSE "none")
      /\ month'.lastFailedAt = (IF month.lastFailedAt > poll[p].at THEN month.lastFailedAt ELSE 0)
      /\ month' \in Snapshots
  <2>1. /\ Polled!Max({month.figure, carried + seen})
            = (IF month.figure >= carried + seen THEN month.figure ELSE carried + seen)
        /\ Polled!Max({month.polledAt, poll[p].at})
            = (IF month.polledAt >= poll[p].at THEN month.polledAt ELSE poll[p].at)
    BY <1>3, LargerOfTwo
  <2>2. month' = [figure |-> Polled!Max({month.figure, carried + seen}), carried |-> carried,
                  project |-> here, polledAt |-> Polled!Max({month.polledAt, poll[p].at}),
                  error |-> IF month.lastFailedAt > poll[p].at THEN month.error ELSE "none",
                  lastFailedAt |-> IF month.lastFailedAt > poll[p].at THEN month.lastFailedAt ELSE 0]
    BY <1>1 DEF Polled!WritesSuccess, Polled!FigureOf
  <2>3. month.error \in {"none", "unset", "failed"}
    BY <1>1 DEF Snapshots
  <2> QED
    BY <1>2, <1>3, <2>1, <2>2, <2>3 DEF Snapshots
<1>5. /\ top' = [top EXCEPT ![here] = most] /\ total' = total + most - top[here]
      /\ top' \in [Projects -> Nat] /\ total' \in Nat
  <2>1. Polled!Max({top[here], seen}) = most
    BY <1>3, LargerOfTwo
  <2>2. top' = [top EXCEPT ![here] = most]
    BY <1>1, <2>1 DEF Polled!WritesSuccess
  <2>3. top \in [Projects -> Nat]
    BY DEF SpendInv, SpendTyped, SpendTypes
  <2>4. top'[here] = most
    BY <1>2, <2>2, <2>3
  <2>5. total' = total + most - top[here]
    BY <1>1, <2>4 DEF Polled!WritesSuccess
  <2> QED
    BY <1>2, <1>3, <2>2, <2>3, <2>5
<1>6. month.project \notin {Nothing, here} => top[here] = 0
  BY <1>2, <1>3 DEF SpendInv, ReadIsLeft
<1>7. FigureAdds'
  <2>1. /\ month.figure = total
        /\ month.project = Nothing => month.figure = 0 /\ month.carried = 0 /\ top[here] = 0
        /\ month.project = here => month.figure = month.carried + top[here]
    BY <1>2 DEF SpendInv, FigureAdds
  <2>2. top'[here] = most
    BY <1>2, <1>5 DEF SpendInv, SpendTyped, SpendTypes
  <2>3. month'.figure = total' /\ month'.figure = month'.carried + most
    BY <1>3, <1>4, <1>5, <1>6, <2>1
  <2> QED
    BY <1>1, <1>2, <1>4, <2>2, <2>3 DEF FigureAdds
<1>8. ReadIsLeft'
  <2>1. \A j \in Projects \ {here} : top'[j] = top[j]
    BY <1>5 DEF SpendInv, SpendTyped, SpendTypes
  <2>2. month.project # Nothing /\ month.project # here => month.project \in left
    BY <1>2 DEF SpendInv, ReadIsLeft
  <2>3. \A j \in Projects : top[j] > 0 => j # Nothing
    BY DEF ConstantsAssumption, Polled!ConstantsAssumption
  <2>4. \A j \in Projects : top'[j] > 0 => j = here \/ j \in left
    BY <2>1, <2>2, <2>3 DEF SpendInv, ReadIsLeft
  <2> QED
    BY <1>2, <1>4, <2>4 DEF ReadIsLeft
<1> HIDE DEF carried, most
<1>9. /\ SpendTyped'
      /\ \A q \in Polls : poll'[q].at = poll[q].at /\ poll'[q].fresh = poll[q].fresh
                          /\ poll'[q].with = poll[q].with
      /\ \A q \in Polls \ {p} : poll'[q] = poll[q]
  <2>1. month'.polledAt <= now /\ month'.lastFailedAt <= now
    BY <1>3, <1>4 DEF SpendInv, SpendTyped, PollsAreSane, SpendTypes
  <2> QED
    BY <1>4, <1>5, <2>1, PollGoesOn DEF SpendInv, SpendTyped, SpendTypes
<1>10. \A q \in Polls : (StartedLast(q)' => StartedLast(q)) /\ (StartedLast(q) => q = p \/ poll[p].at < poll[q].at)
  BY <1>9 DEF StartedLast
<1>11. \A q \in Polls : poll[q].at \in Nat
  BY DEF SpendInv, SpendTyped, SpendTypes, Pollings
<1>12. StampsAreFound'
  BY <1>3, <1>4, <1>9, <1>10, <1>11 DEF SpendInv, StampsAreFound
<1>13. NewestFound'
  <2> SUFFICES ASSUME NEW q \in Polls, poll'[q].pc = "done", poll'[q].fresh,
                      poll'[q].outcome # "unrecorded", StartedLast(q)'
               PROVE Found(q)'
    BY DEF NewestFound
  <2>1. CASE q = p
    <3>1. poll'[p].outcome = "polled"
      BY <1>1 DEF Polled!Ends, SpendInv, SpendTyped, SpendTypes, Pollings
    <3>2. month.lastFailedAt <= poll[p].at
      BY <1>10, <2>1 DEF SpendInv, StampsAreFound
    <3> QED
      BY <1>3, <1>4, <1>9, <2>1, <3>1, <3>2 DEF Found
  <2>2. CASE q # p
    <3>1. Found(q) /\ poll[p].at < poll[q].at
      BY <1>9, <1>10, <2>2 DEF SpendInv, NewestFound
    <3> QED
      BY <1>3, <1>4, <1>9, <1>11, <2>2, <3>1 DEF Found
  <2> QED
    BY <2>1, <2>2
<1> QED
  BY <1>7, <1>8, <1>9, <1>12, <1>13 DEF SpendInv

\* The tenant spends, or moves to another credential: never to a project it has left.
LEMMA TenantKeepsSpend ==
    ASSUME SpendInv, ConstantsAssumption, Polled!Spends \/ Polled!ChangesCredential PROVE SpendInv'
<1>1. CASE Polled!Spends
  <2>1. UNCHANGED <<credential, left, poll, now, month, top, total>>
        /\ real' = [real EXCEPT ![ProjectOf[credential]] = @ + 1]
    BY <1>1 DEF Polled!Spends
  <2>2. SpendTyped'
    <3>1. ProjectOf[credential] \in Projects
      BY <1>1 DEF Polled!Spends, ConstantsAssumption, Polled!ConstantsAssumption, SpendInv, SpendTyped,
                  SpendTypes
    <3>2. real' \in [Projects -> Nat]
      BY <2>1, <3>1 DEF SpendInv, SpendTyped, SpendTypes
    <3> QED
      BY <2>1, <3>2 DEF SpendInv, SpendTyped, SpendTypes, PollsAreSane
  <2>3. NewestFound' /\ StampsAreFound'
    BY <2>1 DEF SpendInv, NewestFound, StampsAreFound, StartedLast, Found
  <2> QED
    BY <2>1, <2>2, <2>3 DEF SpendInv, FigureAdds, ReadIsLeft
<1>2. CASE Polled!ChangesCredential
  <2>1. PICK k \in Creds \cup {Nothing} :
          /\ k # Nothing => ProjectOf[k] \notin left
          /\ credential' = k
          /\ left' = IF k = Nothing THEN left
                     ELSE left \cup {ProjectOf[x] : x \in {y \in Creds :
                              (y = credential \/ ProjectOf[y] = month.project)
                              /\ ProjectOf[y] # ProjectOf[k]}}
    BY <1>2 DEF Polled!ChangesCredential
  <2>2. /\ UNCHANGED <<real, now, month, top, total>>
        /\ poll' = [p \in Polls |-> [poll[p] EXCEPT !.fresh = FALSE]]
    BY <1>2 DEF Polled!ChangesCredential
  <2>3. /\ poll' \in [Polls -> Pollings]
        /\ \A p \in Polls : /\ ~poll'[p].fresh /\ poll'[p].at = poll[p].at
                            /\ poll'[p].pc = poll[p].pc /\ poll'[p].with = poll[p].with
    BY <2>2 DEF SpendInv, SpendTyped, SpendTypes, Pollings
  <2>4. left' \subseteq Projects /\ left \subseteq left'
    BY <2>1 DEF ConstantsAssumption, Polled!ConstantsAssumption, SpendInv, SpendTyped, SpendTypes
  <2>5. SpendTyped'
    BY <2>1, <2>2, <2>3, <2>4 DEF SpendInv, SpendTyped, SpendTypes, PollsAreSane
  <2>6. NewestFound' /\ StampsAreFound'
    BY <2>2, <2>3 DEF SpendInv, NewestFound, StampsAreFound, StartedLast
  <2>7. FigureAdds'
    BY <2>2 DEF SpendInv, FigureAdds
  <2>8. ReadIsLeft'
    <3>1. k # Nothing => ProjectOf[k] \notin left'
      BY <2>1
    <3>2. ASSUME month.project # Nothing, k # Nothing, ProjectOf[k] # month.project
          PROVE month.project \in left'
      <4>1. PICK x \in Creds : ProjectOf[x] = month.project
        BY <3>2 DEF SpendInv, FigureAdds
      <4> QED
        BY <2>1, <3>2, <4>1
    <3> QED
      BY <2>1, <2>2, <2>4, <3>1, <3>2 DEF SpendInv, ReadIsLeft
  <2> QED
    BY <2>5, <2>6, <2>7, <2>8 DEF SpendInv
<1> QED
  BY <1>1, <1>2

\* A poll that starts is stamped no earlier than any other, and no longer one of those that are done.
LEMMA StartsKeepsSpend ==
    ASSUME SpendInv, ConstantsAssumption, NEW p \in Polls, Polled!Starts(p) PROVE SpendInv'
<1>1. /\ poll[p].pc = "idle" /\ now' \in {now, now + 1} /\ now' # 0
      /\ UNCHANGED <<credential, left, real, month, top, total>>
  BY DEF Polled!Starts
<1>2. PICK pc \in {"unset", "asking", "failing"}, with \in Creds \cup {Nothing, "unread"} :
        /\ poll' = [poll EXCEPT ![p] = [@ EXCEPT !.pc = pc, !.at = now', !.with = with, !.fresh = TRUE]]
        /\ pc = "asking" => with \in Creds
        /\ pc = "unset" => with = Nothing
        /\ with \in {credential, "unread"}
  BY DEF Polled!Starts, Polled!Unread, SpendInv, SpendTyped, SpendTypes
<1>3. now \in Nat /\ now' \in Nat /\ now <= now' /\ poll[p] \in Pollings
  BY <1>1 DEF SpendInv, SpendTyped, SpendTypes
<1>4. /\ poll' \in [Polls -> Pollings]
      /\ \A q \in Polls \ {p} : poll'[q] = poll[q]
      /\ poll'[p].pc = pc /\ poll'[p].at = now' /\ poll'[p].with = with /\ poll'[p].fresh
  BY <1>2, <1>3 DEF SpendInv, SpendTyped, SpendTypes, Pollings
<1>5. \A q \in Polls : poll[q].at \in Nat /\ poll[q].at <= now
  BY DEF SpendInv, SpendTyped, SpendTypes, PollsAreSane, Pollings
<1>6. month.polledAt \in Nat /\ month.lastFailedAt \in Nat
      /\ month.polledAt <= now /\ month.lastFailedAt <= now
  BY DEF SpendInv, SpendTyped, SpendTypes, PollsAreSane, Snapshots
<1>7. SpendTyped'
  <2>1. SpendTypes'
    BY <1>1, <1>3, <1>4 DEF SpendInv, SpendTyped, SpendTypes
  <2>2. \A q \in Polls : poll'[q].at <= now'
    BY <1>3, <1>4, <1>5
  <2>3. month'.polledAt <= now' /\ month'.lastFailedAt <= now'
    BY <1>1, <1>3, <1>6
  <2>4. /\ \A q \in Polls : poll'[q].pc \in {"asking", "answered"} => poll'[q].with \in Creds
        /\ \A q \in Polls : poll'[q].pc = "unset" => poll'[q].with = Nothing
        /\ \A q \in Polls : poll'[q].pc = "idle" => ~poll'[q].fresh
        /\ \A q \in Polls : poll'[q].fresh => poll'[q].with \in {credential, "unread"}
    BY <1>2, <1>4 DEF SpendInv, SpendTyped, PollsAreSane
  <2> QED
    BY <1>1, <2>1, <2>2, <2>3, <2>4 DEF SpendTyped, PollsAreSane
<1>8. \A q \in Polls : StartedLast(q)' => q = p
  <2> SUFFICES ASSUME NEW q \in Polls, StartedLast(q)', q # p PROVE FALSE
    OBVIOUS
  <2>1. poll'[p].at < poll'[q].at
    BY DEF StartedLast
  <2> QED
    BY <1>3, <1>4, <1>5, <2>1
<1>9. NewestFound' /\ StampsAreFound'
  <2>1. NewestFound'
    BY <1>2, <1>4, <1>8 DEF NewestFound
  <2>2. StampsAreFound'
    BY <1>1, <1>3, <1>4, <1>6, <1>8 DEF StampsAreFound
  <2> QED
    BY <2>1, <2>2
<1>10. FigureAdds' /\ ReadIsLeft'
  BY <1>1 DEF SpendInv, FigureAdds, ReadIsLeft
<1> QED
  BY <1>7, <1>9, <1>10 DEF SpendInv

\* What leaves the row alone: the request, and every fault on the way.
LEMMA GoesOnKeepsSpend ==
    ASSUME SpendInv, NEW p \in Polls, poll[p].pc # "idle",
           UNCHANGED <<credential, left, real, now, month, top, total>>,
           \/ poll' = [poll EXCEPT ![p].pc = "failing"]
           \/ /\ poll[p].with \in Creds
              /\ \E seen \in Nat : poll' = [poll EXCEPT ![p].pc = "answered", ![p].seen = seen]
           \/ Polled!Ends(p, "unrecorded")
           \/ Polled!Ends(p, "superseded") /\ ~poll[p].fresh
    PROVE SpendInv'
<1>1. /\ SpendTyped'
      /\ \A q \in Polls : poll'[q].at = poll[q].at /\ poll'[q].fresh = poll[q].fresh
                          /\ poll'[q].with = poll[q].with
      /\ \A q \in Polls \ {p} : poll'[q] = poll[q]
  BY PollGoesOn DEF SpendInv, SpendTyped, SpendTypes, PollsAreSane
<1>2. poll'[p].pc # "done" \/ poll'[p].outcome = "unrecorded" \/ ~poll[p].fresh
  <2>1. poll \in [Polls -> Pollings]
    BY DEF SpendInv, SpendTyped, SpendTypes
  <2> QED
    BY <2>1 DEF Polled!Ends, Pollings
<1> QED
  BY <1>1, <1>2, QuietPoll

LEMMA AsksKeepsSpend == ASSUME SpendInv, ConstantsAssumption, NEW p \in Polls, Polled!Asks(p) PROVE SpendInv'
<1>1. poll[p].pc = "asking" /\ poll[p].with \in Creds
      /\ UNCHANGED <<credential, left, real, now, month, top, total>>
  BY DEF Polled!Asks, SpendInv, SpendTyped, PollsAreSane
<1>2. CASE poll' = [poll EXCEPT ![p].pc = "failing"]
  BY <1>1, <1>2, GoesOnKeepsSpend
<1>3. ASSUME NEW seen \in 0..real[ProjectOf[poll[p].with]],
             poll' = [poll EXCEPT ![p].pc = "answered", ![p].seen = seen]
      PROVE SpendInv'
  <2>1. seen \in Nat
    BY <1>1, <1>3 DEF ConstantsAssumption, Polled!ConstantsAssumption, SpendInv, SpendTyped, SpendTypes
  <2> QED
    BY <1>1, <1>3, <2>1, GoesOnKeepsSpend
<1> QED
  BY <1>2, <1>3, Zenon DEF Polled!Asks

LEMMA LandsKeepsSpend == ASSUME SpendInv, ConstantsAssumption, NEW p \in Polls, Polled!Lands(p) PROVE SpendInv'
<1>1. poll[p].pc = "answered" /\ poll[p].with \in Creds
      /\ UNCHANGED <<credential, left, real, now>>
  BY DEF Polled!Lands, SpendInv, SpendTyped, PollsAreSane
<1>2. CASE Polled!AskedUnderThis(p) /\ Polled!WritesSuccess(p) /\ Polled!Ends(p, "polled")
  BY <1>1, <1>2, SuccessFound
<1>3. CASE ~Polled!AskedUnderThis(p) /\ Polled!Ends(p, "superseded") /\ UNCHANGED <<month, top, total>>
  <2>1. ~poll[p].fresh
    BY <1>1, <1>3 DEF Polled!AskedUnderThis, SpendInv, SpendTyped, PollsAreSane, ConstantsAssumption,
                      Polled!ConstantsAssumption
  <2> QED
    BY <1>1, <1>3, <2>1, GoesOnKeepsSpend
<1>4. CASE poll' = [poll EXCEPT ![p].pc = "failing"] /\ UNCHANGED <<month, top, total>>
  BY <1>1, <1>4, GoesOnKeepsSpend
<1> QED
  BY <1>2, <1>3, <1>4, Zenon DEF Polled!Lands

LEMMA SaysUnsetKeepsSpend ==
    ASSUME SpendInv, NEW p \in Polls, Polled!SaysUnset(p) PROVE SpendInv'
<1>1. poll[p].pc = "unset" /\ poll[p].with = Nothing
      /\ UNCHANGED <<credential, left, real, now, top, total>>
  BY DEF Polled!SaysUnset, SpendInv, SpendTyped, PollsAreSane
<1>2. CASE credential = Nothing /\ Polled!WritesFailure(p, "unset") /\ Polled!Ends(p, "unset")
  BY <1>1, <1>2, FailureFound
<1>3. CASE credential # Nothing /\ Polled!Ends(p, "superseded") /\ UNCHANGED month
  <2>1. ~poll[p].fresh
    BY <1>1, <1>3, ConstantsAssumption DEF ConstantsAssumption, Polled!ConstantsAssumption, SpendInv, SpendTyped, PollsAreSane
  <2> QED
    BY <1>1, <1>3, <2>1, GoesOnKeepsSpend
<1>4. CASE poll' = [poll EXCEPT ![p].pc = "failing"] /\ UNCHANGED month
  BY <1>1, <1>4, GoesOnKeepsSpend
<1> QED
  BY <1>2, <1>3, <1>4, Zenon DEF Polled!SaysUnset

LEMMA FailsKeepsSpend ==
    ASSUME SpendInv, NEW p \in Polls, Polled!Fails(p) PROVE SpendInv'
<1>1. poll[p].pc = "failing" /\ UNCHANGED <<credential, left, real, now, top, total>>
  BY DEF Polled!Fails
<1>2. CASE credential = Nothing /\ Polled!WritesFailure(p, "unset") /\ Polled!Ends(p, "unset")
  BY <1>1, <1>2, FailureFound
<1>3. CASE Polled!WritesFailure(p, "failed") /\ Polled!Ends(p, "failed")
  BY <1>1, <1>3, FailureFound
<1>4. CASE /\ poll[p].with \notin {"unread", Nothing} /\ credential \notin {Nothing, poll[p].with}
           /\ Polled!Ends(p, "superseded") /\ UNCHANGED month
  <2>1. ~poll[p].fresh
    BY <1>4 DEF SpendInv, SpendTyped, PollsAreSane
  <2> QED
    BY <1>1, <1>4, <2>1, GoesOnKeepsSpend
<1>5. CASE Polled!Ends(p, "unrecorded") /\ UNCHANGED month
  BY <1>1, <1>5, GoesOnKeepsSpend
<1> QED
  BY <1>2, <1>3, <1>4, <1>5, Zenon DEF Polled!Fails, Polled!Unread

\* Every step of the poll preserves the invariant.
LEMMA SpendStep == ASSUME SpendInv, Polled!Next PROVE SpendInv'
BY ConstantsAssumption, TenantKeepsSpend, StartsKeepsSpend, AsksKeepsSpend, LandsKeepsSpend, SaysUnsetKeepsSpend,
   FailsKeepsSpend, Zenon DEF Polled!Next

LEMMA SpendInit == Polled!Init => SpendInv
<1> SUFFICES ASSUME Polled!Init PROVE SpendInv
  OBVIOUS
<1>1. credential \in Creds /\ Nothing \notin Creds
  BY ConstantsAssumption DEF Polled!Init, ConstantsAssumption, Polled!ConstantsAssumption
<1>2. SpendTyped
  BY <1>1 DEF Polled!Init, Polled!Idle, SpendTyped, SpendTypes, PollsAreSane, Pollings, Snapshots
<1>3. FigureAdds /\ ReadIsLeft
  BY <1>1 DEF Polled!Init, FigureAdds, ReadIsLeft
<1>4. NewestFound /\ StampsAreFound
  BY DEF Polled!Init, Polled!Idle, NewestFound, StampsAreFound
<1> QED
  BY <1>2, <1>3, <1>4 DEF SpendInv

\* The invariant of the poll holds throughout the run's instance of it.
LEMMA SpendHolds == UnionSpec => [](instance = "spend" => SpendInv)
<1> DEFINE Inv == instance = "spend" => SpendInv
<1>1. UnionInit => Inv
  BY SpendInit DEF UnionInit
<1>2. Inv /\ [UnionNext]_allVars => Inv'
  <2> SUFFICES ASSUME Inv, [UnionNext]_allVars, instance' = "spend" PROVE SpendInv'
    OBVIOUS
  <2>1. CASE UNCHANGED allVars
    BY <2>1 DEF allVars, spendVars, SpendInv, SpendTyped, SpendTypes, PollsAreSane, FigureAdds,
                ReadIsLeft, NewestFound, StampsAreFound, StartedLast, Found
  <2>2. CASE UnionNext
    <3>1. instance' = instance /\ SpendInv
      BY <2>2 DEF UnionNext
    <3>2. Polled!Next
      BY <2>2, <3>1, Zenon DEF UnionNext
    <3> QED
      BY <3>1, <3>2, SpendStep
  <2> QED
    BY <2>1, <2>2
<1> QED
  BY <1>1, <1>2, PTL DEF UnionSpec

\* The figure the ceiling is held against is the month's, whatever order the answers land in and
\* however often the tenant changes the credential: the most any landed answer read of each
\* project, each counted once (poll.ts).
THEOREM FigureFollowsTheMonth == UnionSpec => []FigureIsTheMonth
<1>1. (instance = "spend" => SpendInv) => FigureIsTheMonth
  BY DEF FigureIsTheMonth, Polled!FigureIsTheMonth, SpendInv, FigureAdds
<1> QED
  BY <1>1, SpendHolds, PTL

\* The row's health is what the newest poll found, however many overlap: an older answer that lands
\* late neither hides a newer failure nor raises one that is over, and "unset" stands only while
\* there is no credential (poll.ts, service.ts).
THEOREM HealthFollowsTheNewestPoll == UnionSpec => []HealthIsPresent
<1>1. (instance = "spend" => SpendInv) => HealthIsPresent
  <2> SUFFICES ASSUME SpendInv, NEW p \in Polls, poll[p].pc \in {"idle", "done"},
                      poll[p].fresh, Polled!Newest(p), poll[p].outcome # "unrecorded"
               PROVE /\ month.error = [polled |-> "none", failed |-> "failed",
                                       unset |-> "unset"][poll[p].outcome]
                     /\ month.error = "unset" => credential = Nothing
    BY DEF HealthIsPresent, Polled!HealthIsPresent
  <2>1. poll[p].pc = "done"
    BY DEF SpendInv, SpendTyped, PollsAreSane
  <2>2. Found(p)
    BY <2>1 DEF SpendInv, NewestFound, StartedLast, Polled!Newest
  <2> QED
    BY <2>2 DEF Found
<1> QED
  BY <1>1, SpendHolds, PTL


-----------------------------------------------------------------------------
(* Follow-ups: the ladder's types                                            *)

Silences == [inbound : Nudges!Messages, stamp : Nudges!Messages, labels : BOOLEAN,
             resolved : BOOLEAN, ladder : Nudges!Messages]
NudgeRows == [status : {"none", "pending", "claimed", "done"}, cancelled : BOOLEAN,
              step : 1..Steps, retries : 0..RetryLimit]
NudgeRuns == [pc : Nudges!Pcs, current : BOOLEAN, step : 1..Steps, retries : 0..RetryLimit,
              seen : Nudges!Messages, noted : BOOLEAN, outcome : Nudges!Outcomes,
              next : Nudges!Payload]

LadderTyped ==
    /\ silence \in Silences /\ nudge \in NudgeRows /\ nudgeRun \in NudgeRuns
    /\ said \in Nudges!Messages
    /\ sends \in [Nudges!Messages \X (1..Steps) -> Nat]
    /\ nudgeDeaths \in Nat /\ commands \in Nat

\* What the ladder's proofs use of the bounds.
LEMMA LadderBounds ==
    /\ Steps \in Nat \ {0} /\ RetryLimit \in Nat \ {0} /\ MaxSaid \in Nat
    /\ Nudges!First \in Nudges!Payload
    /\ 1 \in 1..Steps /\ 0 \in 0..RetryLimit /\ 0 \in Nudges!Messages
<1> QED
  BY ConstantsAssumption DEF Nudges!ConstantsAssumption, Nudges!First, Nudges!Payload, Nudges!Messages

\* The updates the actions are built from.
LEMMA RunUpdates ==
    ASSUME nudgeRun \in NudgeRuns
    PROVE  /\ \A p \in Nudges!Pcs : [nudgeRun EXCEPT !.pc = p] \in NudgeRuns
           /\ [nudgeRun EXCEPT !.pc = "finishing", !.outcome = "done"] \in NudgeRuns
           /\ \A n \in Nudges!Payload :
                [nudgeRun EXCEPT !.pc = "finishing", !.outcome = "again", !.next = n] \in NudgeRuns
           /\ \A m \in Nudges!Messages : [nudgeRun EXCEPT !.pc = "probing", !.seen = m] \in NudgeRuns
           /\ [nudgeRun EXCEPT !.pc = "acting", !.noted = TRUE] \in NudgeRuns
           /\ \A b \in BOOLEAN : [nudgeRun EXCEPT !.current = b] \in NudgeRuns
           /\ \A k \in 1..Steps, r \in 0..RetryLimit :
                [Nudges!Resting EXCEPT !.pc = "claimed", !.step = k, !.retries = r] \in NudgeRuns
           /\ Nudges!Resting \in NudgeRuns
<1> USE LadderBounds DEF NudgeRuns, Nudges!Pcs, Nudges!Outcomes
<1>1. \A p \in Nudges!Pcs : [nudgeRun EXCEPT !.pc = p] \in NudgeRuns
  OBVIOUS
<1>2. [nudgeRun EXCEPT !.pc = "finishing", !.outcome = "done"] \in NudgeRuns
  OBVIOUS
<1>3. \A n \in Nudges!Payload :
        [nudgeRun EXCEPT !.pc = "finishing", !.outcome = "again", !.next = n] \in NudgeRuns
  OBVIOUS
<1>4. \A m \in Nudges!Messages : [nudgeRun EXCEPT !.pc = "probing", !.seen = m] \in NudgeRuns
  OBVIOUS
<1>5. [nudgeRun EXCEPT !.pc = "acting", !.noted = TRUE] \in NudgeRuns
  OBVIOUS
<1>6. \A b \in BOOLEAN : [nudgeRun EXCEPT !.current = b] \in NudgeRuns
  OBVIOUS
<1>7. \A k \in 1..Steps, r \in 0..RetryLimit :
        [Nudges!Resting EXCEPT !.pc = "claimed", !.step = k, !.retries = r] \in NudgeRuns
  BY DEF Nudges!Resting
<1>8. Nudges!Resting \in NudgeRuns
  BY DEF Nudges!Resting
<1> QED
  BY <1>1, <1>2, <1>3, <1>4, <1>5, <1>6, <1>7, <1>8

\* The ladder's values keep their types, whatever the step.
LEMMA LadderTypedStep == ASSUME LadderTyped, Nudges!Next PROVE LadderTyped'
<1> USE LadderBounds
<1>t. /\ silence \in Silences /\ nudge \in NudgeRows /\ nudgeRun \in NudgeRuns
      /\ nudge.step \in 1..Steps /\ nudge.retries \in 0..RetryLimit
      /\ nudgeRun.step \in 1..Steps /\ nudgeRun.retries \in 0..RetryLimit
      /\ silence.inbound \in Nudges!Messages /\ nudgeRun.next \in Nudges!Payload
      /\ nudgeRun.next.step \in 1..Steps /\ nudgeRun.next.retries \in 0..RetryLimit
  BY DEF LadderTyped, Silences, NudgeRows, NudgeRuns, Nudges!Payload
<1>r. \A k \in 1..Steps, r \in 0..RetryLimit : [step |-> k, retries |-> r] \in Nudges!Payload
  BY DEF Nudges!Payload
<1>d. Nudges!Ends => nudgeRun' \in NudgeRuns
  BY <1>t, RunUpdates DEF Nudges!Ends
<1>g. \A k \in 1..Steps, r \in 0..RetryLimit : Nudges!GoesAgainAs(k, r) => nudgeRun' \in NudgeRuns
  <2> TAKE k \in 1..Steps, r \in 0..RetryLimit
  <2> DEFINE n == [step |-> k, retries |-> r]
  <2>1. [nudgeRun EXCEPT !.pc = "finishing", !.outcome = "again", !.next = n] \in NudgeRuns
    <3> n \in Nudges!Payload
      BY <1>r
    <3> HIDE DEF n
    <3> QED
      BY <1>t, RunUpdates
  <2> QED
    BY <2>1 DEF Nudges!GoesAgainAs
<1>f. Nudges!Refused => nudgeRun' \in NudgeRuns
  <2>1. nudgeRun.retries + 1 < RetryLimit => nudgeRun.retries + 1 \in 0..RetryLimit
    BY <1>t
  <2>2. "abandoning" \in Nudges!Pcs
    BY DEF Nudges!Pcs
  <2>3. nudgeRun.retries + 1 >= RetryLimit \/ nudgeRun.retries + 1 < RetryLimit
    BY <1>t
  <2> QED
    BY <1>t, <1>g, <2>1, <2>2, <2>3, RunUpdates DEF Nudges!Refused
<1>p. \A p \in Nudges!Pcs : [nudgeRun EXCEPT !.pc = p] \in NudgeRuns
  BY <1>t, RunUpdates
<1>s. UNCHANGED <<said, sends, nudgeDeaths, commands>> /\ silence' \in Silences /\ nudge' \in NudgeRows /\ nudgeRun' \in NudgeRuns
        => LadderTyped'
  BY DEF LadderTyped
<1>1. CASE Nudges!Says
  <2>1. said + 1 \in Nudges!Messages
    BY <1>1 DEF LadderTyped, Nudges!Messages, Nudges!Says
  <2>2. silence' \in Silences
    BY <1>1, <1>t, <2>1 DEF Nudges!Says, Silences
  <2> QED
    BY <1>1, <2>1, <2>2 DEF Nudges!Says, LadderTyped
<1>2. CASE Nudges!CancelsPending \/ Nudges!SweepFinds \/ Nudges!SweepEnqueues \/ Nudges!Returns
  <2>1. nudge' \in NudgeRows
    BY <1>2, <1>t DEF Nudges!CancelsPending, Nudges!SweepFinds, Nudges!SweepEnqueues, Nudges!Returns,
                      NudgeRows
  <2> QED
    BY <1>2, <1>t, <1>s, <2>1 DEF Nudges!CancelsPending, Nudges!SweepFinds, Nudges!SweepEnqueues, Nudges!Returns, Nudges!Elsewhere
<1>3. CASE Nudges!Claims
  <2>1. nudge' \in NudgeRows
    BY <1>3, <1>t DEF Nudges!Claims, NudgeRows
  <2>2. nudgeRun' \in NudgeRuns
    BY <1>3, <1>t, RunUpdates DEF Nudges!Claims
  <2> QED
    BY <1>3, <1>t, <1>s, <2>1, <2>2 DEF Nudges!Claims, Nudges!Elsewhere
<1>4. CASE Nudges!Reads
  <2>1. silence' \in Silences
    <3>1. silence' \in {silence, [silence EXCEPT !.ladder = silence.inbound]}
      BY <1>4, <1>t DEF Nudges!Reads, Silences
    <3> QED
      BY <1>t, <3>1 DEF Silences
  <2>2. nudgeRun' \in NudgeRuns
    <3>1. "abandoning" \in Nudges!Pcs
      BY DEF Nudges!Pcs
    <3> QED
      BY <1>4, <1>t, <1>d, <1>g, <1>p, <3>1, RunUpdates DEF Nudges!Reads
  <2> QED
    BY <1>4, <1>t, <1>s, <2>1, <2>2 DEF Nudges!Reads, Nudges!Elsewhere
<1>5. CASE Nudges!Probes \/ Nudges!Asks \/ Nudges!Rechecks \/ Nudges!Thinks \/ Nudges!Acts \/ Nudges!Fetches \/ Nudges!Merges
  <2>1. nudgeRun' \in NudgeRuns
    <3>1. {"asking", "thinking", "sending", "answered", "stamping", "queued", "merging", "setting"} \subseteq Nudges!Pcs
      BY DEF Nudges!Pcs
    <3> QED
      BY <1>5, <1>d, <1>f, <1>p, <3>1
      DEF Nudges!Probes, Nudges!Asks, Nudges!Rechecks, Nudges!Thinks, Nudges!Acts, Nudges!Fetches, Nudges!Merges
  <2> QED
    BY <1>5, <1>t, <1>s, <2>1 DEF Nudges!Probes, Nudges!Asks, Nudges!Rechecks, Nudges!Thinks, Nudges!Acts, Nudges!Fetches, Nudges!Merges, Nudges!Elsewhere
<1>6. CASE Nudges!Sends
  <2>1. nudgeRun' \in NudgeRuns
    <3>1. "acting" \in Nudges!Pcs
      BY DEF Nudges!Pcs
    <3> QED
      BY <1>6, <1>t, <1>d, <1>f, <1>p, <3>1, RunUpdates DEF Nudges!Sends, Nudges!Sent
  <2>2. sends' \in [Nudges!Messages \X (1..Steps) -> Nat]
    <3>1. <<silence.ladder, nudgeRun.step>> \in Nudges!Messages \X (1..Steps)
      BY <1>t DEF Silences
    <3> QED
      BY <1>6, <3>1 DEF Nudges!Sends, LadderTyped
  <2> QED
    BY <1>6, <2>1, <2>2 DEF Nudges!Sends, Nudges!Elsewhere, LadderTyped
<1>7. CASE Nudges!SetsLabels \/ Nudges!Closes
  <2>1. silence' \in Silences
    <3>1. silence' \in {silence, [silence EXCEPT !.labels = TRUE], [silence EXCEPT !.resolved = TRUE]}
      BY <1>7, Zenon DEF Nudges!SetsLabels, Nudges!Closes
    <3> QED
      BY <1>t, <3>1 DEF Silences
  <2>2. nudgeRun' \in NudgeRuns
    <3>1. {"closing", "stamping"} \subseteq Nudges!Pcs
      BY DEF Nudges!Pcs
    <3> QED
      BY <1>7, <1>p, <3>1 DEF Nudges!SetsLabels, Nudges!Closes
  <2> QED
    BY <1>7, <1>t, <1>s, <2>1, <2>2 DEF Nudges!SetsLabels, Nudges!Closes, Nudges!Elsewhere
<1>8. CASE Nudges!Stamps \/ Nudges!Abandons
  <2>1. silence' \in Silences
    <3>1. silence' \in {silence, [silence EXCEPT !.stamp = said]}
      BY <1>8, Zenon DEF Nudges!Stamps, Nudges!Abandons, Nudges!StampUnlessRetired
    <3> QED
      BY <1>t, <3>1 DEF Silences, LadderTyped
  <2>2. nudgeRun' \in NudgeRuns
    <3>1. nudgeRun.step # Steps => nudgeRun.step + 1 \in 1..Steps
      BY <1>t
    <3> QED
      BY <1>8, <1>d, <1>g, <3>1 DEF Nudges!Stamps, Nudges!Abandons
  <2> QED
    BY <1>8, <1>t, <1>s, <2>1, <2>2 DEF Nudges!Stamps, Nudges!Abandons, Nudges!Elsewhere
<1>9. CASE Nudges!Finishes
  <2>1. nudge' \in NudgeRows
    BY <1>9, <1>t DEF Nudges!Finishes, NudgeRows
  <2> QED
    BY <1>9, <1>t, <1>s, <2>1, RunUpdates DEF Nudges!Finishes, Nudges!Elsewhere
<1>10. CASE Nudges!Dies
  <2>1. /\ nudgeRun' \in NudgeRuns /\ nudgeDeaths' = nudgeDeaths + 1
        /\ UNCHANGED <<silence, said, nudge, sends, commands>>
    BY <1>10, <1>t, RunUpdates DEF Nudges!Dies
  <2> QED
    BY <2>1 DEF LadderTyped
<1>11. CASE Nudges!ResetRetires
  <2> DEFINE current == nudgeRun.pc = "idle"
  <2>1. current \in BOOLEAN
    OBVIOUS
  <2>2. /\ UNCHANGED <<silence, said, sends, nudgeDeaths>> /\ commands' = commands + 1
        /\ nudgeRun' \in {nudgeRun, [nudgeRun EXCEPT !.current = current]}
        /\ nudge' \in {nudge, [nudge EXCEPT !.status = "done", !.cancelled = TRUE]}
    BY <1>11, Zenon DEF Nudges!ResetRetires
  <2> HIDE DEF current
  <2>3. nudge' \in NudgeRows
    BY <1>t, <2>2 DEF NudgeRows
  <2>4. nudgeRun' \in NudgeRuns
    BY <1>t, <2>1, <2>2, RunUpdates
  <2> QED
    BY <2>2, <2>3, <2>4 DEF LadderTyped
<1>12. CASE Nudges!ResetClears \/ Nudges!ResetPeels
  <2>1. silence' \in Silences
    BY <1>12, <1>t DEF Nudges!ResetClears, Nudges!ResetPeels, Silences
  <2> QED
    BY <1>12, <1>t, <1>s, <2>1 DEF Nudges!ResetClears, Nudges!ResetPeels
<1> QED
  BY <1>1, <1>2, <1>3, <1>4, <1>5, <1>6, <1>7, <1>8, <1>9, <1>10, <1>11, <1>12,
     Zenon DEF Nudges!Next, Nudges!Works

-----------------------------------------------------------------------------
(* Follow-ups: what a step of the handler moves                              *)

Active == nudgeRun.pc # "idle"

\* What no step of the handler touches between its claim and its end.
HandlerKeeps ==
    /\ UNCHANGED <<nudge, said, command, commands, nudgeDeaths>>
    /\ escaped' \in {escaped, escaped \cup {"labels"}}
    /\ Active /\ nudgeRun'.pc # "idle"
    /\ nudgeRun'.current = nudgeRun.current /\ nudgeRun'.step = nudgeRun.step
    /\ silence'.inbound = silence.inbound

ReadMove ==
    /\ nudgeRun.pc = "claimed" /\ sends' = sends
    /\ silence'.stamp = silence.stamp /\ silence'.labels = silence.labels
    /\ \/ /\ nudgeRun'.pc = "finishing" /\ nudgeRun'.outcome = "done"
          /\ silence'.ladder = silence.ladder
       \/ /\ nudgeRun.step = 1 => Nudges!NewEpisode
          /\ \/ /\ nudgeRun'.pc = "finishing" /\ nudgeRun'.outcome = "again"
                /\ nudgeRun'.next.step = nudgeRun.step /\ silence'.ladder = silence.ladder
             \/ nudgeRun'.pc = "abandoning" /\ silence'.ladder = silence.ladder
             \/ /\ nudgeRun'.pc = "probing"
                /\ silence'.ladder = IF nudgeRun.step = 1 THEN silence.inbound ELSE silence.ladder

\* Past the strict question no later one keeps a retired run from its message: each may go unread.
Late == {"thinking", "answered", "sending"}

AskMove ==
    /\ silence' = silence /\ sends' = sends
    /\ \/ /\ nudgeRun.pc \in {"probing", "asking", "thinking", "answered"}
          /\ \/ nudgeRun'.pc \in {"asking", "thinking", "answered", "sending", "abandoning"}
             \/ /\ nudgeRun'.pc = "finishing"
                /\ nudgeRun'.outcome # "done" => nudgeRun'.next.step = nudgeRun.step
          /\ nudgeRun'.pc \in Late => ~Nudges!Retired \/ nudgeRun.pc \in Late
       \/ /\ nudgeRun.pc \in {"acting", "queued", "merging"}
          /\ nudgeRun'.pc \in {"queued", "merging", "setting", "stamping"}
          /\ nudgeRun'.pc = "setting" => ~Nudges!Retired \/ "labels" \in escaped'

SendMove ==
    /\ nudgeRun.pc = "sending" /\ silence' = silence
    /\ \/ /\ nudgeRun'.pc = "abandoning" \/
             (/\ nudgeRun'.pc = "finishing"
              /\ nudgeRun'.outcome # "done" => nudgeRun'.next.step = nudgeRun.step)
          /\ sends' = sends
       \/ nudgeRun'.pc = "acting" /\ sends' = sends
       \/ /\ nudgeRun'.pc = "acting"
          /\ sends' = [sends EXCEPT ![<<silence.ladder, nudgeRun.step>>] = @ + 1]

SetMove ==
    /\ sends' = sends /\ silence'.stamp = silence.stamp /\ silence'.ladder = silence.ladder
    /\ \/ nudgeRun.pc = "setting" /\ nudgeRun'.pc = "closing"
       \/ /\ nudgeRun.pc = "closing" /\ nudgeRun'.pc = "stamping"
          /\ silence'.labels = silence.labels

StampMove ==
    /\ sends' = sends /\ silence'.ladder = silence.ladder /\ silence'.labels = silence.labels
    /\ silence'.stamp = IF Nudges!Retired THEN silence.stamp ELSE said
    /\ nudgeRun.pc \in {"stamping", "abandoning"} /\ nudgeRun'.pc = "finishing"
    /\ nudgeRun'.outcome # "done" =>
         nudgeRun.pc = "stamping" /\ ~Nudges!Retired /\ nudgeRun'.next.step = nudgeRun.step + 1

HandlerMove == HandlerKeeps /\ (ReadMove \/ AskMove \/ SendMove \/ SetMove \/ StampMove)

RunKeeps == nudgeRun'.current = nudgeRun.current /\ nudgeRun'.step = nudgeRun.step

\* The same for the record of the run.
LEMMA RunFields ==
    ASSUME LadderTyped
    PROVE  /\ Nudges!Ends => RunKeeps /\ nudgeRun'.pc = "finishing" /\ nudgeRun'.outcome = "done"
           /\ \A k, r : Nudges!GoesAgainAs(k, r) =>
                RunKeeps /\ nudgeRun'.pc = "finishing" /\ nudgeRun'.outcome = "again"
                /\ nudgeRun'.next.step = k
           /\ \A p : nudgeRun' = [nudgeRun EXCEPT !.pc = p] => RunKeeps /\ nudgeRun'.pc = p
<1> USE DEF LadderTyped, NudgeRuns, RunKeeps
<1>1. Nudges!Ends => RunKeeps /\ nudgeRun'.pc = "finishing" /\ nudgeRun'.outcome = "done"
  BY DEF Nudges!Ends
<1>2. \A k, r : Nudges!GoesAgainAs(k, r) =>
        RunKeeps /\ nudgeRun'.pc = "finishing" /\ nudgeRun'.outcome = "again"
        /\ nudgeRun'.next.step = k
  BY DEF Nudges!GoesAgainAs
<1>3. \A p : nudgeRun' = [nudgeRun EXCEPT !.pc = p] => RunKeeps /\ nudgeRun'.pc = p
  OBVIOUS
<1> QED
  BY <1>1, <1>2, <1>3, Zenon

\* A probe that cannot read, or a run that may not go now, is tried again or given up.
LEMMA RefusedFields ==
    ASSUME LadderTyped, Nudges!Refused
    PROVE  /\ RunKeeps
           /\ \/ nudgeRun'.pc = "abandoning"
              \/ nudgeRun'.pc = "finishing" /\ nudgeRun'.next.step = nudgeRun.step
<1>1. \/ nudgeRun' = [nudgeRun EXCEPT !.pc = "abandoning"]
      \/ Nudges!GoesAgainAs(nudgeRun.step, nudgeRun.retries + 1)
  BY Zenon DEF Nudges!Refused
<1> QED
  BY <1>1, RunFields, Zenon

\* Every step of the handler is such a move.
LEMMA HandlerMoves ==
    ASSUME LadderTyped,
           \/ Nudges!Reads \/ Nudges!Probes \/ Nudges!Asks \/ Nudges!Thinks \/ Nudges!Rechecks
           \/ Nudges!Sends \/ Nudges!Acts \/ Nudges!Fetches \/ Nudges!Merges
           \/ Nudges!SetsLabels \/ Nudges!Closes \/ Nudges!Stamps \/ Nudges!Abandons
    PROVE  HandlerMove
<1> USE RunFields DEF HandlerMove, HandlerKeeps, Active, RunKeeps, Nudges!Elsewhere
<1>1. CASE Nudges!Reads
  <2>1. /\ UNCHANGED <<nudge, sends, said, command, commands, nudgeDeaths, escaped>>
        /\ nudgeRun.pc = "claimed"
    BY <1>1 DEF Nudges!Reads
  <2>2. \/ Nudges!Ends /\ UNCHANGED silence
        \/ /\ nudgeRun.step = 1 => Nudges!NewEpisode
           /\ \/ Nudges!GoesAgainAs(nudgeRun.step, nudgeRun.retries) /\ UNCHANGED silence
              \/ nudgeRun' = [nudgeRun EXCEPT !.pc = "abandoning"] /\ UNCHANGED silence
              \/ /\ nudgeRun' = [nudgeRun EXCEPT !.pc = "probing", !.seen = silence.inbound]
                 /\ silence' = [silence EXCEPT !.ladder = IF nudgeRun.step = 1 THEN silence.inbound ELSE @]
    BY <1>1, Zenon DEF Nudges!Reads
  <2>3. nudgeRun' = [nudgeRun EXCEPT !.pc = "probing", !.seen = silence.inbound]
          => RunKeeps /\ nudgeRun'.pc = "probing"
    BY DEF LadderTyped, NudgeRuns
  <2>4. silence' = [silence EXCEPT !.ladder = IF nudgeRun.step = 1 THEN silence.inbound ELSE @]
          => /\ silence'.inbound = silence.inbound /\ silence'.stamp = silence.stamp
             /\ silence'.labels = silence.labels
             /\ silence'.ladder = IF nudgeRun.step = 1 THEN silence.inbound ELSE silence.ladder
    BY DEF LadderTyped, Silences
  <2>5. CASE Nudges!Ends /\ UNCHANGED silence
    BY <2>1, <2>5 DEF ReadMove
  <2>6. CASE /\ nudgeRun.step = 1 => Nudges!NewEpisode
             /\ Nudges!GoesAgainAs(nudgeRun.step, nudgeRun.retries) /\ UNCHANGED silence
    BY <2>1, <2>6 DEF ReadMove
  <2>7. CASE /\ nudgeRun.step = 1 => Nudges!NewEpisode
             /\ nudgeRun' = [nudgeRun EXCEPT !.pc = "abandoning"] /\ UNCHANGED silence
    BY <2>1, <2>7 DEF ReadMove
  <2>8. CASE /\ nudgeRun.step = 1 => Nudges!NewEpisode
             /\ nudgeRun' = [nudgeRun EXCEPT !.pc = "probing", !.seen = silence.inbound]
             /\ silence' = [silence EXCEPT !.ladder = IF nudgeRun.step = 1 THEN silence.inbound ELSE @]
    BY <2>1, <2>3, <2>4, <2>8 DEF ReadMove
  <2> QED
    BY <2>2, <2>5, <2>6, <2>7, <2>8, Zenon
<1>2. CASE Nudges!Probes \/ Nudges!Asks \/ Nudges!Thinks \/ Nudges!Rechecks
  <2>1. /\ UNCHANGED <<silence, sends, nudge, said, command, commands, nudgeDeaths, escaped>>
        /\ nudgeRun.pc \in {"probing", "asking", "thinking", "answered"}
    BY <1>2 DEF Nudges!Probes, Nudges!Asks, Nudges!Thinks, Nudges!Rechecks
  <2>2. \/ nudgeRun' = [nudgeRun EXCEPT !.pc = "asking"]
        \/ nudgeRun' = [nudgeRun EXCEPT !.pc = "thinking"] /\ ~Nudges!Retired
        \/ nudgeRun' = [nudgeRun EXCEPT !.pc = "answered"] /\ nudgeRun.pc = "thinking"
        \/ nudgeRun' = [nudgeRun EXCEPT !.pc = "sending"] /\ nudgeRun.pc = "answered"
        \/ Nudges!Ends
        \/ Nudges!Refused
    BY <1>2, Zenon DEF Nudges!Probes, Nudges!Asks, Nudges!Thinks, Nudges!Rechecks
  <2>3. /\ RunKeeps
        /\ \/ nudgeRun'.pc \in {"asking", "thinking", "answered", "sending", "abandoning"}
           \/ /\ nudgeRun'.pc = "finishing"
              /\ nudgeRun'.outcome # "done" => nudgeRun'.next.step = nudgeRun.step
        /\ nudgeRun'.pc \in Late => ~Nudges!Retired \/ nudgeRun.pc \in Late
    BY <2>2, RefusedFields DEF Late
  <2> QED
    BY <2>1, <2>3 DEF AskMove
<1>3. CASE Nudges!Acts \/ Nudges!Fetches \/ Nudges!Merges
  <2>1. /\ UNCHANGED <<silence, sends, nudge, said, command, commands, nudgeDeaths>>
        /\ escaped' \in {escaped, escaped \cup {"labels"}}
        /\ nudgeRun.pc \in {"acting", "queued", "merging"}
    BY <1>3 DEF Nudges!Acts, Nudges!Fetches, Nudges!Merges
  <2>2. \/ nudgeRun' = [nudgeRun EXCEPT !.pc = "stamping"]
        \/ nudgeRun' = [nudgeRun EXCEPT !.pc = "queued"]
        \/ nudgeRun' = [nudgeRun EXCEPT !.pc = "merging"]
        \/ /\ nudgeRun' = [nudgeRun EXCEPT !.pc = "setting"]
           /\ ~Nudges!Retired \/ "labels" \in escaped'
    BY <1>3 DEF Nudges!Acts, Nudges!Fetches, Nudges!Merges
  <2> QED
    BY <2>1, <2>2 DEF AskMove
<1>4. CASE Nudges!Sends
  <2>1. /\ UNCHANGED <<silence, nudge, said, command, commands, nudgeDeaths, escaped>>
        /\ nudgeRun.pc = "sending"
    BY <1>4 DEF Nudges!Sends
  <2>2. \/ Nudges!Ends /\ sends' = sends
        \/ Nudges!Refused /\ sends' = sends
        \/ /\ nudgeRun' = [nudgeRun EXCEPT !.pc = "acting"]
           /\ sends' = [sends EXCEPT ![<<silence.ladder, nudgeRun.step>>] = @ + 1]
        \/ nudgeRun' = [nudgeRun EXCEPT !.pc = "acting"] /\ sends' = sends
        \/ nudgeRun' = [nudgeRun EXCEPT !.pc = "acting", !.noted = TRUE] /\ sends' = sends
    BY <1>4, Zenon DEF Nudges!Sends, Nudges!Sent
  <2>3. nudgeRun' = [nudgeRun EXCEPT !.pc = "acting", !.noted = TRUE] => RunKeeps /\ nudgeRun'.pc = "acting"
    BY DEF LadderTyped, NudgeRuns
  <2> QED
    BY <2>1, <2>2, <2>3, RefusedFields DEF SendMove
<1>5. CASE Nudges!SetsLabels \/ Nudges!Closes
  BY <1>5 DEF Nudges!SetsLabels, Nudges!Closes, SetMove, LadderTyped, Silences
<1>6. CASE Nudges!Stamps \/ Nudges!Abandons
  <2>1. /\ silence' = IF Nudges!Retired THEN silence ELSE [silence EXCEPT !.stamp = said]
        /\ sends' = sends /\ nudgeRun.pc \in {"stamping", "abandoning"}
        /\ UNCHANGED <<nudge, said, command, commands, nudgeDeaths, escaped>>
    BY <1>6 DEF Nudges!Stamps, Nudges!Abandons, Nudges!StampUnlessRetired
  <2>2. \/ Nudges!Ends
        \/ /\ nudgeRun.pc = "stamping" /\ ~Nudges!Retired
           /\ Nudges!GoesAgainAs(nudgeRun.step + 1, 0)
    BY <1>6, Zenon DEF Nudges!Stamps, Nudges!Abandons
  <2>3. /\ RunKeeps /\ nudgeRun'.pc = "finishing"
        /\ nudgeRun'.outcome # "done" =>
             nudgeRun.pc = "stamping" /\ ~Nudges!Retired /\ nudgeRun'.next.step = nudgeRun.step + 1
    BY <2>2
  <2>4. /\ silence'.ladder = silence.ladder /\ silence'.labels = silence.labels
        /\ silence'.inbound = silence.inbound
        /\ silence'.stamp = IF Nudges!Retired THEN silence.stamp ELSE said
    BY <2>1 DEF LadderTyped, Silences
  <2> QED
    BY <2>1, <2>3, <2>4 DEF StampMove
<1> QED
  BY <1>1, <1>2, <1>3, <1>4, <1>5, <1>6, Zenon

-----------------------------------------------------------------------------
(* Follow-ups: the row and the run on it                                     *)

\* The row belongs to the run on it while nobody retired it; what is armed over a run is step 1.
RowAndRun ==
    /\ nudge.cancelled => nudge.status = "done" /\ (Active => ~nudgeRun.current)
    /\ Active => nudge.step \in {1, nudgeRun.step}
    /\ (Active /\ nudge.status = "pending") => nudge.step = 1
    /\ (Active /\ ~nudgeRun.current) => nudge.status # "claimed"
    /\ ~Active => nudgeRun.current

\* The watermarks are behind what was said, and the last message is the last one said.
Clocked == silence.inbound \in {0, said} /\ silence.ladder <= said

\* A run is retired when the row is no longer its own.
LEMMA RetiredRuns == ASSUME LadderTyped, RowAndRun, Active PROVE Nudges!Retired <=> ~nudgeRun.current
<1> QED
  BY DEF RowAndRun, Nudges!Retired, LadderTyped, NudgeRows, NudgeRuns

\* The row and its run stay together.
LEMMA RowAndRunStep ==
    ASSUME LadderTyped, RowAndRun, Clocked, Nudges!Next PROVE RowAndRun' /\ Clocked'
<1> USE DEF LadderTyped, Silences, NudgeRows, NudgeRuns, RowAndRun, Clocked, Active, Nudges!Messages
<1>1. CASE Nudges!Says
  BY <1>1, LadderBounds DEF Nudges!Says
<1>2. CASE Nudges!CancelsPending \/ Nudges!SweepFinds \/ Nudges!SweepEnqueues \/ Nudges!Returns
  BY <1>2 DEF Nudges!CancelsPending, Nudges!SweepFinds, Nudges!SweepEnqueues, Nudges!Returns,
              Nudges!Elsewhere
<1>3. CASE Nudges!Claims
  BY <1>3 DEF Nudges!Claims, Nudges!Resting, Nudges!Elsewhere
<1>4. CASE HandlerMove
  <2>1. HandlerKeeps /\ silence'.ladder \in {silence.ladder, silence.inbound}
    BY <1>4 DEF HandlerMove, ReadMove, AskMove, SendMove, SetMove, StampMove
  <2> QED
    BY <2>1 DEF HandlerKeeps
<1>5. CASE Nudges!Finishes
  BY <1>5 DEF Nudges!Finishes, Nudges!Resting, Nudges!Elsewhere
<1>6. CASE Nudges!Dies
  BY <1>6 DEF Nudges!Dies, Nudges!Resting
<1>7. CASE Nudges!ResetRetires
  <2> DEFINE current == nudgeRun.pc = "idle"
  <2>1. current \in BOOLEAN /\ (current <=> ~Active)
    OBVIOUS
  <2>2. /\ UNCHANGED <<silence, said>>
        /\ \/ /\ nudgeRun' = [nudgeRun EXCEPT !.current = current]
              /\ nudge' = [nudge EXCEPT !.status = "done", !.cancelled = TRUE]
           \/ UNCHANGED <<nudge, nudgeRun>>
    BY <1>7, Zenon DEF Nudges!ResetRetires
  <2> HIDE DEF current
  <2> QED
    BY <2>1, <2>2
<1>8. CASE Nudges!ResetClears \/ Nudges!ResetPeels
  BY <1>8 DEF Nudges!ResetClears, Nudges!ResetPeels
<1> QED
  BY <1>1, <1>2, <1>3, <1>4, <1>5, <1>6, <1>7, <1>8, HandlerMoves,
     Zenon DEF Nudges!Next, Nudges!Works

-----------------------------------------------------------------------------
(* Follow-ups: a step leaves once                                            *)

Tolerated == nudgeDeaths + commands

\* The steps from n on that have left as often as deaths and resets allow, and no more.
OpenFrom(n) == \A k \in n..Steps : sends[<<silence.ladder, k>>] <= Tolerated

BeforeSend == {"claimed", "probing", "asking", "thinking", "answered", "sending"}
AfterSend == {"acting", "queued", "merging", "setting", "closing", "stamping"}

SentOnce ==
    \A l \in Nudges!Messages, k \in 1..Steps : sends[<<l, k>>] <= 1 + Tolerated

\* Of an episode nobody opened nothing has left.
AheadUnsent ==
    \A l \in Nudges!Messages, k \in 1..Steps : l > silence.ladder => sends[<<l, k>>] = 0

\* The episode the ladder is on, while no follow-up answered it and none is being stamped.
EpisodeOpen ==
    (/\ silence.inbound = silence.ladder /\ Nudges!NewEpisode
     /\ ~(nudgeRun.current /\ nudgeRun.pc \in AfterSend))
        => OpenFrom(1)

\* The step the row waits for, ...
RowOpen ==
    (~Active /\ nudge.status \in {"pending", "claimed"} /\ nudge.step > 1) => OpenFrom(nudge.step)

\* ... the one a run is about to say, and the one it goes on to.
RunOpen ==
    nudgeRun.current =>
      /\ (nudgeRun.pc \in BeforeSend /\ (nudgeRun.pc = "claimed" => nudgeRun.step > 1))
           => OpenFrom(nudgeRun.step)
      /\ nudgeRun.pc \in AfterSend => OpenFrom(nudgeRun.step + 1)
      /\ (nudgeRun.pc = "finishing" /\ nudgeRun.outcome # "done" /\ nudgeRun.next.step > 1)
           => OpenFrom(nudgeRun.next.step)

\* A run retired behind the strict question may still say its step: the reset that retired it
\* paid for it.
LateOpen ==
    (~nudgeRun.current /\ nudgeRun.pc \in Late) =>
        \A k \in nudgeRun.step..Steps : sends[<<silence.ladder, k>>] + 1 <= Tolerated

Budget == SentOnce /\ AheadUnsent /\ EpisodeOpen /\ RowOpen /\ RunOpen /\ LateOpen

\* What the ladder's arithmetic needs of the types.
LEMMA LadderNumbers ==
    ASSUME LadderTyped
    PROVE  /\ silence.inbound \in Nat /\ silence.stamp \in Nat /\ silence.ladder \in Nat /\ said \in Nat
           /\ silence.ladder \in Nudges!Messages
           /\ nudge.step \in 1..Steps /\ nudgeRun.step \in 1..Steps /\ nudgeRun.next.step \in 1..Steps
           /\ Tolerated \in Nat /\ Steps \in Nat
           /\ \A l \in Nudges!Messages, k \in 1..Steps : sends[<<l, k>>] \in Nat
<1> QED
  BY LadderBounds DEF LadderTyped, Silences, NudgeRows, NudgeRuns, Nudges!Messages, Nudges!Payload,
                      Tolerated

\* A death or a reset lets every step leave once more.
LEMMA MoreTolerated ==
    ASSUME LadderTyped, LadderTyped', SentOnce, AheadUnsent, Tolerated' = Tolerated + 1,
           sends' = sends, silence' = silence
    PROVE  SentOnce' /\ AheadUnsent' /\ \A n \in Nat \ {0} : OpenFrom(n)'
<1> QED
  BY LadderNumbers DEF SentOnce, AheadUnsent, OpenFrom

\* A step of the handler spends what its step has left.
LEMMA HandlerBudget ==
    ASSUME LadderTyped, LadderTyped', RowAndRun, Clocked, Budget, HandlerMove
    PROVE  Budget'
<1>n. /\ silence.inbound \in Nat /\ silence.stamp \in Nat /\ silence.ladder \in Nat /\ said \in Nat
      /\ silence.ladder \in Nudges!Messages
      /\ nudge.step \in 1..Steps /\ nudgeRun.step \in 1..Steps /\ nudgeRun.next.step \in 1..Steps
      /\ Tolerated \in Nat /\ Steps \in Nat
      /\ \A l \in Nudges!Messages, k \in 1..Steps : sends[<<l, k>>] \in Nat
  BY LadderNumbers
<1>k. /\ UNCHANGED <<nudge, said>> /\ Tolerated' = Tolerated
      /\ Active /\ Active'
      /\ nudgeRun'.current = nudgeRun.current /\ nudgeRun'.step = nudgeRun.step
      /\ silence'.inbound = silence.inbound
  BY DEF HandlerMove, HandlerKeeps, Tolerated, Active
<1>r. RowOpen'
  BY <1>k DEF RowOpen
<1>0. Nudges!Retired <=> ~nudgeRun.current
  BY <1>k, RetiredRuns
<1>1. CASE ReadMove
  <2>1. \A n : silence'.ladder = silence.ladder => (OpenFrom(n)' <=> OpenFrom(n))
    BY <1>k, <1>1 DEF ReadMove, OpenFrom
  <2>2. SentOnce' /\ AheadUnsent'
    <3>1. silence'.ladder >= silence.ladder
      BY <1>n, <1>1 DEF ReadMove, Nudges!NewEpisode, Clocked
    <3>2. silence'.ladder \in Nat
      BY <1>n, <1>1 DEF ReadMove
    <3> QED
      BY <1>n, <1>k, <1>1, <3>1, <3>2 DEF ReadMove, SentOnce, AheadUnsent, Budget, Nudges!Messages
  <2>l. LateOpen'
    BY <1>1 DEF ReadMove, LateOpen, Late
  <2>3. CASE nudgeRun'.pc = "probing" /\ nudgeRun.step = 1
    <3>1. silence'.ladder = silence.inbound /\ Nudges!NewEpisode /\ nudgeRun.pc = "claimed"
      BY <1>1, <2>3 DEF ReadMove
    <3>2. silence.inbound = silence.ladder \/ silence.inbound > silence.ladder
      BY <1>n, <3>1 DEF Nudges!NewEpisode, Clocked
    <3>3. silence.inbound \in Nudges!Messages
      BY DEF LadderTyped, Silences
    <3>4. \A k \in 1..Steps : sends[<<silence.inbound, k>>] <= Tolerated
      <4>1. CASE silence.inbound = silence.ladder
        BY <4>1, <3>1 DEF Budget, EpisodeOpen, OpenFrom, AfterSend
      <4>2. CASE silence.inbound > silence.ladder
        BY <4>2, <3>3, <1>n DEF Budget, AheadUnsent
      <4> QED
        BY <3>2, <4>1, <4>2
    <3>5. OpenFrom(1)'
      BY <1>k, <1>1, <3>1, <3>4 DEF OpenFrom, ReadMove
    <3> QED
      BY <1>r, <1>k, <1>n, <2>2, <2>3, <2>l, <3>5
      DEF Budget, EpisodeOpen, RunOpen, AfterSend, BeforeSend
  <2>4. CASE ~(nudgeRun'.pc = "probing" /\ nudgeRun.step = 1)
    <3>1. /\ silence'.ladder = silence.ladder /\ silence'.stamp = silence.stamp
          /\ nudgeRun.pc = "claimed"
          /\ \/ nudgeRun'.pc = "finishing" /\ nudgeRun'.outcome = "done"
             \/ nudgeRun'.pc = "finishing" /\ nudgeRun'.next.step = nudgeRun.step
             \/ nudgeRun'.pc = "abandoning"
             \/ nudgeRun'.pc = "probing" /\ nudgeRun.step > 1
      BY <1>1, <1>n, <2>4 DEF ReadMove
    <3>2. EpisodeOpen'
      BY <1>k, <2>1, <3>1 DEF Budget, EpisodeOpen, Nudges!NewEpisode, AfterSend
    <3>3. RunOpen'
      BY <1>k, <2>1, <3>1 DEF Budget, RunOpen, AfterSend, BeforeSend
    <3> QED
      BY <1>r, <2>2, <2>l, <3>2, <3>3 DEF Budget
  <2> QED
    BY <2>3, <2>4
<1>2. CASE AskMove \/ SetMove \/ StampMove
  <2>1. sends' = sends /\ silence'.ladder = silence.ladder
    BY <1>2 DEF AskMove, SetMove, StampMove
  <2>2. \A n : OpenFrom(n)' <=> OpenFrom(n)
    BY <1>k, <2>1 DEF OpenFrom
  <2>3. SentOnce' /\ AheadUnsent'
    BY <1>k, <2>1 DEF Budget, SentOnce, AheadUnsent
  <2>4. CASE AskMove
    <3>1. EpisodeOpen'
      BY <1>k, <2>2, <2>4 DEF Budget, EpisodeOpen, Nudges!NewEpisode, AfterSend, AskMove
    <3>2. RunOpen'
      BY <1>k, <2>2, <2>4 DEF Budget, RunOpen, AfterSend, BeforeSend, AskMove
    <3>3. LateOpen'
      BY <1>k, <1>0, <2>1, <2>4 DEF Budget, LateOpen, Late, AskMove
    <3> QED
      BY <1>r, <2>3, <3>1, <3>2, <3>3 DEF Budget
  <2>5. CASE SetMove
    <3>1. EpisodeOpen'
      BY <1>k, <2>2, <2>5 DEF Budget, EpisodeOpen, Nudges!NewEpisode, AfterSend, SetMove
    <3>2. RunOpen'
      BY <1>k, <2>2, <2>5 DEF Budget, RunOpen, AfterSend, BeforeSend, SetMove
    <3>3. LateOpen'
      BY <2>5 DEF LateOpen, Late, SetMove
    <3> QED
      BY <1>r, <2>3, <3>1, <3>2, <3>3 DEF Budget
  <2>6. CASE StampMove
    <3>1. EpisodeOpen'
      <4>1. CASE nudgeRun.current
        BY <1>k, <1>n, <1>0, <2>6, <4>1 DEF EpisodeOpen, Nudges!NewEpisode, StampMove, Clocked
      <4>2. CASE ~nudgeRun.current
        BY <1>k, <1>0, <2>2, <2>6, <4>2 DEF Budget, EpisodeOpen, Nudges!NewEpisode, StampMove
      <4> QED
        BY <4>1, <4>2
    <3>2. RunOpen'
      BY <1>k, <2>2, <2>6 DEF Budget, RunOpen, AfterSend, BeforeSend, StampMove
    <3>3. LateOpen'
      BY <2>6 DEF LateOpen, Late, StampMove
    <3> QED
      BY <1>r, <2>3, <3>1, <3>2, <3>3 DEF Budget
  <2> QED
    BY <1>2, <2>4, <2>5, <2>6
<1>3. CASE SendMove
  <2>1. CASE sends' = sends
    <3>1. /\ silence' = silence /\ nudgeRun.pc = "sending"
          /\ \/ nudgeRun'.pc = "acting" \/ nudgeRun'.pc = "abandoning"
             \/ /\ nudgeRun'.pc = "finishing"
                /\ nudgeRun'.outcome # "done" => nudgeRun'.next.step = nudgeRun.step
      BY <1>3 DEF SendMove
    <3>2. \A n : OpenFrom(n)' <=> OpenFrom(n)
      BY <1>k, <2>1, <3>1 DEF OpenFrom
    <3>3. OpenFrom(nudgeRun.step) => OpenFrom(nudgeRun.step + 1)
      BY <1>n DEF OpenFrom
    <3>4. SentOnce' /\ AheadUnsent'
      BY <1>k, <2>1, <3>1 DEF Budget, SentOnce, AheadUnsent
    <3>5. EpisodeOpen'
      BY <1>k, <3>1, <3>2 DEF Budget, EpisodeOpen, Nudges!NewEpisode, AfterSend
    <3>6. RunOpen'
      BY <1>k, <3>1, <3>2, <3>3 DEF Budget, RunOpen, AfterSend, BeforeSend
    <3>7. LateOpen'
      BY <3>1 DEF LateOpen, Late
    <3> QED
      BY <1>r, <3>4, <3>5, <3>6, <3>7 DEF Budget
  <2>2. CASE sends' # sends
    <3>1. /\ silence' = silence /\ nudgeRun.pc = "sending" /\ nudgeRun'.pc = "acting"
          /\ sends' = [sends EXCEPT ![<<silence.ladder, nudgeRun.step>>] = @ + 1]
      BY <1>3, <2>2 DEF SendMove
    <3>2. /\ \A l \in Nudges!Messages, k \in 1..Steps :
                sends'[<<l, k>>] = IF l = silence.ladder /\ k = nudgeRun.step
                                   THEN sends[<<l, k>>] + 1 ELSE sends[<<l, k>>]
      BY <3>1 DEF LadderTyped
    <3>3. nudgeRun.current => OpenFrom(nudgeRun.step)
      BY <3>1 DEF Budget, RunOpen, BeforeSend
    <3>4. ~nudgeRun.current => sends[<<silence.ladder, nudgeRun.step>>] + 1 <= Tolerated
      BY <1>n, <3>1 DEF Budget, LateOpen, Late
    <3>5. sends[<<silence.ladder, nudgeRun.step>>] <= Tolerated
      BY <1>n, <3>3, <3>4 DEF OpenFrom
    <3>6. SentOnce' /\ AheadUnsent'
      BY <1>n, <1>k, <3>1, <3>2, <3>5 DEF Budget, SentOnce, AheadUnsent
    <3>7. nudgeRun.current => OpenFrom(nudgeRun.step + 1)'
      BY <1>n, <1>k, <3>1, <3>2, <3>3 DEF OpenFrom
    <3>8. EpisodeOpen'
      <4>1. CASE nudgeRun.current
        BY <1>k, <3>1, <4>1 DEF EpisodeOpen, AfterSend
      <4>2. CASE ~nudgeRun.current
        <5>1. OpenFrom(1) => OpenFrom(1)'
          BY <1>n, <1>k, <3>1, <3>2, <3>4, <4>2 DEF OpenFrom
        <5> QED
          BY <1>k, <3>1, <4>2, <5>1 DEF Budget, EpisodeOpen, Nudges!NewEpisode
      <4> QED
        BY <4>1, <4>2
    <3>9. RunOpen'
      BY <1>k, <3>1, <3>7 DEF RunOpen, AfterSend, BeforeSend
    <3>10. LateOpen'
      BY <3>1 DEF LateOpen, Late
    <3> QED
      BY <1>r, <3>6, <3>8, <3>9, <3>10 DEF Budget
  <2> QED
    BY <2>1, <2>2
<1> QED
  BY <1>1, <1>2, <1>3 DEF HandlerMove

\* So does every step of the ladder.
LEMMA BudgetStep ==
    ASSUME LadderTyped, LadderTyped', RowAndRun, Clocked, Budget, Nudges!Next
    PROVE  Budget'
<1>n. /\ silence.inbound \in Nat /\ silence.stamp \in Nat /\ silence.ladder \in Nat /\ said \in Nat
      /\ nudge.step \in 1..Steps /\ nudgeRun.step \in 1..Steps /\ nudgeRun.next.step \in 1..Steps
      /\ Steps \in Nat
  BY LadderNumbers
<1>q. ASSUME UNCHANGED <<sends, silence, nudgeDeaths, commands>>
      PROVE  SentOnce' /\ AheadUnsent' /\ \A n : OpenFrom(n)' <=> OpenFrom(n)
  BY <1>q DEF Budget, SentOnce, AheadUnsent, OpenFrom, Tolerated
<1>l. ASSUME UNCHANGED <<sends, nudgeRun, nudgeDeaths, commands>>, silence'.ladder = silence.ladder
      PROVE  LateOpen'
  BY <1>l DEF Budget, LateOpen, Tolerated
<1>m. ASSUME Tolerated' = Tolerated + 1, sends' = sends, silence' = silence, LateOpen'
      PROVE  Budget'
  <2>1. SentOnce' /\ AheadUnsent' /\ \A n \in Nat \ {0} : OpenFrom(n)'
    BY <1>m, MoreTolerated DEF Budget
  <2>2. /\ nudge'.step \in 1..Steps /\ nudgeRun'.step \in 1..Steps /\ nudgeRun'.next.step \in 1..Steps
    BY DEF LadderTyped, NudgeRows, NudgeRuns, Nudges!Payload
  <2>3. OpenFrom(1)' /\ OpenFrom(nudge.step)' /\ OpenFrom(nudgeRun.step)' /\ OpenFrom(nudgeRun.step + 1)'
        /\ OpenFrom(nudgeRun.next.step)'
    <3>1. \A n \in Nat \ {0} : \A k \in n..Steps : sends'[<<silence'.ladder, k>>] <= Tolerated'
      BY <2>1 DEF OpenFrom
    <3> QED
      BY <1>n, <2>2, <3>1 DEF OpenFrom
  <2> QED
    BY <1>m, <2>1, <2>3 DEF Budget, EpisodeOpen, RowOpen, RunOpen
<1>1. CASE Nudges!Says
  <2>1. /\ UNCHANGED <<nudge, nudgeRun, sends, nudgeDeaths, commands>>
        /\ silence'.ladder = silence.ladder /\ silence'.inbound = said + 1
    BY <1>1 DEF Nudges!Says, LadderTyped, Silences
  <2>2. SentOnce' /\ AheadUnsent' /\ \A n : OpenFrom(n)' <=> OpenFrom(n)
    BY <2>1 DEF Budget, SentOnce, AheadUnsent, OpenFrom, Tolerated
  <2>3. silence'.inbound # silence'.ladder
    BY <2>1, <1>n DEF Clocked
  <2> QED
    BY <1>l, <2>1, <2>2, <2>3 DEF Budget, EpisodeOpen, RowOpen, RunOpen, Active
<1>2. CASE Nudges!CancelsPending \/ Nudges!SweepFinds \/ Nudges!SweepEnqueues \/ Nudges!Returns
  <2>1. /\ UNCHANGED <<silence, nudgeRun, sends, nudgeDeaths, commands>>
        /\ \/ /\ nudge'.step = nudge.step
              /\ nudge'.status \in {"pending", "claimed"} => nudge.status \in {"pending", "claimed"}
           \/ nudge'.step = 1
    BY <1>2 DEF Nudges!CancelsPending, Nudges!SweepFinds, Nudges!SweepEnqueues, Nudges!Returns,
                Nudges!Elsewhere, LadderTyped, NudgeRows
  <2>2. SentOnce' /\ AheadUnsent' /\ \A n : OpenFrom(n)' <=> OpenFrom(n)
    BY <1>q, <2>1
  <2>3. EpisodeOpen' /\ RunOpen'
    BY <2>1, <2>2 DEF Budget, EpisodeOpen, RunOpen, Nudges!NewEpisode
  <2>4. RowOpen'
    BY <1>n, <2>1, <2>2 DEF Budget, RowOpen, Active
  <2> QED
    BY <1>l, <2>1, <2>2, <2>3, <2>4 DEF Budget
<1>3. CASE Nudges!Claims
  <2>1. /\ UNCHANGED <<silence, sends, nudgeDeaths, commands>>
        /\ ~Active /\ nudge.status = "pending"
        /\ nudgeRun'.pc = "claimed" /\ nudgeRun'.step = nudge.step
    BY <1>3 DEF Nudges!Claims, Nudges!Elsewhere, Nudges!Resting, Active
  <2>2. SentOnce' /\ AheadUnsent' /\ \A n : OpenFrom(n)' <=> OpenFrom(n)
    BY <1>q, <2>1
  <2>3. EpisodeOpen' /\ RowOpen'
    BY <2>1, <2>2 DEF Budget, EpisodeOpen, RowOpen, Active, Nudges!NewEpisode, AfterSend
  <2>4. RunOpen'
    BY <2>1, <2>2 DEF Budget, RowOpen, RunOpen, AfterSend, BeforeSend
  <2>5. LateOpen'
    BY <2>1 DEF LateOpen, Late
  <2> QED
    BY <2>2, <2>3, <2>4, <2>5 DEF Budget
<1>4. CASE HandlerMove
  BY <1>4, HandlerBudget
<1>5. CASE Nudges!Finishes
  <2>1. /\ UNCHANGED <<silence, sends, nudgeDeaths, commands>>
        /\ nudgeRun.pc = "finishing" /\ nudgeRun'.pc = "idle"
        /\ \/ /\ ~nudgeRun.current \/ nudge.status # "claimed"
              /\ nudge' = nudge
           \/ nudge'.status = "done"
           \/ nudgeRun.current /\ nudgeRun.outcome # "done" /\ nudge'.step = nudgeRun.next.step
    BY <1>5 DEF Nudges!Finishes, Nudges!Elsewhere, Nudges!Resting, LadderTyped, NudgeRows
  <2>2. SentOnce' /\ AheadUnsent' /\ \A n : OpenFrom(n)' <=> OpenFrom(n)
    BY <1>q, <2>1
  <2>3. EpisodeOpen' /\ RunOpen'
    BY <2>1, <2>2 DEF Budget, EpisodeOpen, RunOpen, Nudges!NewEpisode, AfterSend, BeforeSend
  <2>4. RowOpen'
    <3>1. CASE nudge' = nudge /\ (~nudgeRun.current \/ nudge.status # "claimed")
      BY <1>n, <2>1, <3>1 DEF RowOpen, RowAndRun, Active
    <3>2. CASE nudge'.status = "done"
      BY <3>2 DEF RowOpen
    <3>3. CASE nudgeRun.current /\ nudgeRun.outcome # "done" /\ nudge'.step = nudgeRun.next.step
      BY <2>1, <2>2, <3>3 DEF Budget, RowOpen, RunOpen
    <3> QED
      BY <2>1, <3>1, <3>2, <3>3
  <2>5. LateOpen'
    BY <2>1 DEF LateOpen, Late
  <2> QED
    BY <2>2, <2>3, <2>4, <2>5 DEF Budget
<1>6. CASE Nudges!Dies
  <2>1. LateOpen'
    BY <1>6 DEF Nudges!Dies, Nudges!Resting, LateOpen, Late
  <2> QED
    BY <1>6, <1>m, <2>1, LadderNumbers DEF Nudges!Dies, Tolerated, LadderTyped
<1>7. CASE Nudges!ResetRetires
  <2>1. /\ UNCHANGED <<sends, silence, nudgeDeaths>> /\ commands' = commands + 1
        /\ Tolerated' = Tolerated + 1
    BY <1>7, LadderNumbers DEF Nudges!ResetRetires, Tolerated, LadderTyped
  <2>2. /\ nudgeRun'.step = nudgeRun.step /\ nudgeRun'.pc = nudgeRun.pc
    BY <1>7 DEF Nudges!ResetRetires, LadderTyped, NudgeRuns
  <2>3. \A k \in nudgeRun.step..Steps : sends[<<silence.ladder, k>>] \in Nat
    BY <1>n, LadderNumbers
  <2>4. ASSUME nudgeRun.pc \in Late PROVE LateOpen'
    <3>1. \A k \in nudgeRun.step..Steps :
            nudgeRun.current => sends[<<silence.ladder, k>>] <= Tolerated
      BY <2>4 DEF Budget, RunOpen, OpenFrom, BeforeSend, Late
    <3>2. \A k \in nudgeRun.step..Steps :
            ~nudgeRun.current => sends[<<silence.ladder, k>>] + 1 <= Tolerated
      BY <2>4 DEF Budget, LateOpen
    <3>3. \A k \in nudgeRun.step..Steps : sends[<<silence.ladder, k>>] + 1 <= Tolerated + 1
      <4> TAKE k \in nudgeRun.step..Steps
      <4>1. sends[<<silence.ladder, k>>] \in Nat /\ Tolerated \in Nat
        BY <2>3, LadderNumbers
      <4>2. \/ sends[<<silence.ladder, k>>] <= Tolerated
            \/ sends[<<silence.ladder, k>>] + 1 <= Tolerated
        BY <3>1, <3>2
      <4> HIDE DEF Tolerated
      <4> QED
        BY <4>1, <4>2
    <3>4. \A k \in nudgeRun'.step..Steps : sends'[<<silence'.ladder, k>>] + 1 <= Tolerated'
      BY <2>1, <2>2, <3>3
    <3> QED
      BY <3>4 DEF LateOpen
  <2>5. ASSUME nudgeRun.pc \notin Late PROVE LateOpen'
    BY <2>2, <2>5 DEF LateOpen, Late
  <2> QED
    BY <1>m, <2>1, <2>4, <2>5
<1>8. CASE Nudges!ResetClears \/ Nudges!ResetPeels
  <2>1. /\ UNCHANGED <<nudge, nudgeRun, sends, nudgeDeaths, commands>>
        /\ silence'.ladder = silence.ladder
        /\ \/ silence'.inbound = silence.inbound /\ silence'.stamp = silence.stamp
           \/ silence'.inbound = 0 /\ silence'.stamp = 0
    BY <1>8 DEF Nudges!ResetClears, Nudges!ResetPeels, LadderTyped, Silences
  <2>2. SentOnce' /\ AheadUnsent' /\ \A n : OpenFrom(n)' <=> OpenFrom(n)
    BY <2>1 DEF Budget, SentOnce, AheadUnsent, OpenFrom, Tolerated
  <2> QED
    BY <1>l, <2>1, <2>2 DEF Budget, EpisodeOpen, RowOpen, RunOpen, Active, Nudges!NewEpisode
<1> QED
  BY <1>1, <1>2, <1>3, <1>4, <1>5, <1>6, <1>7, <1>8, HandlerMoves,
     Zenon DEF Nudges!Next, Nudges!Works

-----------------------------------------------------------------------------
(* Follow-ups: what a reset wiped                                            *)

\* Between its first two steps a reset leaves no row and no run that counts.
Emptied == command = "retired" => nudge.status \in {"none", "done"} /\ (Active => ~nudgeRun.current)

\* Until the customer writes nothing but a first step can run, and it finds nothing to do.
Silenced ==
    (command \in {"cleared", "done"} /\ silence.inbound = 0) =>
      /\ silence.stamp = 0
      /\ (Active /\ nudgeRun.current) =>
           /\ nudgeRun.step = 1
           /\ nudgeRun.pc = "claimed" \/ (nudgeRun.pc = "finishing" /\ nudgeRun.outcome = "done")
      /\ nudge.status \in {"pending", "claimed"} => nudge.step = 1

Peeled ==
    (command = "done" /\ silence.inbound = 0 /\ "labels" \notin escaped) =>
      ~silence.labels /\ nudgeRun.pc # "setting"

Wiped == "row" \notin escaped => Emptied /\ Silenced /\ Peeled

\* A handler the reset caught brings nothing back.
LEMMA HandlerWipes ==
    ASSUME LadderTyped, LadderTyped', RowAndRun, Wiped, HandlerMove
    PROVE  Wiped'
<1> SUFFICES ASSUME "row" \notin escaped' PROVE Emptied' /\ Silenced' /\ Peeled'
  BY DEF Wiped
<1>k. /\ UNCHANGED <<nudge, said, command>> /\ Active /\ Active'
      /\ "row" \notin escaped /\ ("labels" \notin escaped' => "labels" \notin escaped)
      /\ nudgeRun'.current = nudgeRun.current /\ nudgeRun'.step = nudgeRun.step
      /\ silence'.inbound = silence.inbound
      /\ Nudges!Retired <=> ~nudgeRun.current
  BY RetiredRuns DEF HandlerMove, HandlerKeeps, Active
<1>w. Emptied /\ Silenced /\ Peeled
  BY <1>k DEF Wiped
<1>1. Emptied'
  BY <1>k, <1>w DEF Emptied
<1>2. CASE ~(command \in {"cleared", "done"} /\ silence.inbound = 0)
  BY <1>k, <1>1, <1>2 DEF Silenced, Peeled
<1>3. CASE command \in {"cleared", "done"} /\ silence.inbound = 0
  <2>1. ~Nudges!NewEpisode
    BY <1>w, <1>3 DEF Silenced, Nudges!NewEpisode
  <2>2. CASE nudgeRun.current
    <3>1. nudgeRun.step = 1 /\ nudgeRun.pc \in {"claimed", "finishing"} /\ silence.stamp = 0
      BY <1>k, <1>w, <1>3, <2>2 DEF Silenced
    <3>2. ReadMove /\ nudgeRun'.pc = "finishing" /\ nudgeRun'.outcome = "done"
      BY <2>1, <3>1 DEF HandlerMove, ReadMove, AskMove, SendMove, SetMove, StampMove
    <3> QED
      BY <1>k, <1>w, <1>1, <1>3, <3>1, <3>2 DEF ReadMove, Silenced, Peeled
  <2>3. CASE ~nudgeRun.current
    <3>1. silence'.stamp = silence.stamp
      BY <1>k, <2>3 DEF HandlerMove, ReadMove, AskMove, SendMove, SetMove, StampMove
    <3>2. /\ silence'.labels = silence.labels \/ nudgeRun.pc = "setting"
          /\ nudgeRun'.pc # "setting" \/ "labels" \in escaped'
      BY <1>k, <2>3 DEF HandlerMove, ReadMove, AskMove, SendMove, SetMove, StampMove
    <3>3. Silenced'
      BY <1>k, <1>w, <1>3, <2>3, <3>1 DEF Silenced
    <3>4. Peeled'
      BY <1>k, <1>w, <1>3, <3>2 DEF Peeled
    <3> QED
      BY <1>1, <3>3, <3>4
  <2> QED
    BY <2>2, <2>3
<1> QED
  BY <1>2, <1>3

\* Neither does any other step of the ladder.
LEMMA WipedStep ==
    ASSUME LadderTyped, LadderTyped', RowAndRun, Clocked, Wiped, Nudges!Next
    PROVE  Wiped'
<1>1. CASE Nudges!Says
  <2>1. UNCHANGED <<nudge, nudgeRun, command, escaped>> /\ silence'.inbound # 0
    BY <1>1 DEF Nudges!Says, LadderTyped, Silences, Nudges!Messages
  <2> QED
    BY <2>1 DEF Wiped, Emptied, Silenced, Peeled, Active
<1>2. CASE Nudges!CancelsPending \/ Nudges!SweepFinds \/ Nudges!Returns
  <2>1. /\ UNCHANGED <<silence, nudgeRun, command, escaped>>
        /\ nudge'.step = nudge.step
        /\ nudge'.status = nudge.status \/ nudge'.status = "done"
           \/ (nudge.status = "claimed" /\ nudge'.status = "pending")
    BY <1>2 DEF Nudges!CancelsPending, Nudges!SweepFinds, Nudges!Returns, Nudges!Elsewhere,
                LadderTyped, NudgeRows
  <2> QED
    BY <2>1 DEF Wiped, Emptied, Silenced, Peeled, Active
<1>3. CASE Nudges!SweepEnqueues
  <2>1. UNCHANGED <<silence, nudgeRun, command>> /\ nudge'.step = 1
    BY <1>3 DEF Nudges!SweepEnqueues, LadderTyped, NudgeRows
  <2>2. /\ "row" \notin escaped' => "row" \notin escaped /\ command # "retired"
        /\ "labels" \notin escaped' => "labels" \notin escaped
    BY <1>3 DEF Nudges!SweepEnqueues
  <2> QED
    BY <2>1, <2>2 DEF Wiped, Emptied, Silenced, Peeled, Active
<1>4. CASE Nudges!Claims
  <2>1. /\ UNCHANGED <<silence, command, escaped>>
        /\ nudge.status = "pending" /\ nudge'.status = "claimed" /\ nudge'.step = nudge.step
        /\ nudgeRun'.pc = "claimed" /\ nudgeRun'.step = nudge.step
    BY <1>4 DEF Nudges!Claims, Nudges!Elsewhere, Nudges!Resting, LadderTyped, NudgeRows
  <2> QED
    BY <2>1 DEF Wiped, Emptied, Silenced, Peeled, Active
<1>5. CASE HandlerMove
  BY <1>5, HandlerWipes
<1>6. CASE Nudges!Finishes
  <2>1. /\ UNCHANGED <<silence, command, escaped>>
        /\ nudgeRun.pc = "finishing" /\ nudgeRun'.pc = "idle"
        /\ \/ nudge' = nudge
           \/ nudge'.status = "done"
           \/ nudgeRun.current /\ nudgeRun.outcome # "done" /\ nudge.status = "claimed"
    BY <1>6 DEF Nudges!Finishes, Nudges!Elsewhere, Nudges!Resting, LadderTyped, NudgeRows
  <2> QED
    BY <2>1 DEF Wiped, Emptied, Silenced, Peeled, Active
<1>7. CASE Nudges!Dies
  <2>1. UNCHANGED <<silence, nudge, command, escaped>> /\ nudgeRun'.pc = "idle"
    BY <1>7 DEF Nudges!Dies, Nudges!Resting
  <2> QED
    BY <2>1 DEF Wiped, Emptied, Silenced, Peeled, Active
<1>8. CASE Nudges!ResetRetires
  <2>1. command' = "retired"
    BY <1>8 DEF Nudges!ResetRetires
  <2>2. CASE nudge.status \in {"pending", "claimed"}
    <3> DEFINE current == nudgeRun.pc = "idle"
    <3>1. /\ nudgeRun' = [nudgeRun EXCEPT !.current = current]
          /\ nudge' = [nudge EXCEPT !.status = "done", !.cancelled = TRUE]
      BY <1>8, <2>2, Zenon DEF Nudges!ResetRetires
    <3>2. current \in BOOLEAN /\ (current <=> ~Active)
      BY DEF Active
    <3> HIDE DEF current
    <3>3. nudge'.status = "done" /\ (Active' => ~nudgeRun'.current)
      BY <3>1, <3>2 DEF LadderTyped, NudgeRows, NudgeRuns, Active
    <3> QED
      BY <2>1, <3>3 DEF Wiped, Emptied, Silenced, Peeled
  <2>3. CASE nudge.status \notin {"pending", "claimed"}
    <3>1. UNCHANGED <<nudge, nudgeRun>> /\ ("row" \notin escaped' => ~Active \/ Nudges!Retired)
      BY <1>8, <2>3 DEF Nudges!ResetRetires, Active
    <3>2. nudge.status \in {"none", "done"}
      BY <2>3 DEF LadderTyped, NudgeRows
    <3>3. Active => (Nudges!Retired <=> ~nudgeRun.current)
      BY RetiredRuns
    <3> QED
      BY <2>1, <3>1, <3>2, <3>3 DEF Wiped, Emptied, Silenced, Peeled, Active
  <2> QED
    BY <2>2, <2>3
<1>9. CASE Nudges!ResetClears
  <2>1. /\ UNCHANGED <<nudge, nudgeRun, escaped>> /\ command = "retired" /\ command' = "cleared"
        /\ silence'.stamp = 0
    BY <1>9 DEF Nudges!ResetClears, LadderTyped, Silences
  <2> QED
    BY <2>1 DEF Wiped, Emptied, Silenced, Peeled, Active
<1>10. CASE Nudges!ResetPeels
  <2>1. /\ UNCHANGED <<nudge, nudgeRun>> /\ command = "cleared" /\ command' = "done"
        /\ "row" \in escaped => "row" \in escaped'
        /\ nudgeRun.pc # "setting" \/ "labels" \in escaped'
        /\ ~silence'.labels
        /\ silence'.inbound = silence.inbound /\ silence'.stamp = silence.stamp
    BY <1>10 DEF Nudges!ResetPeels, Nudges!InLabelQueue, LadderTyped, Silences
  <2> QED
    BY <2>1 DEF Wiped, Emptied, Silenced, Peeled, Active
<1> QED
  BY <1>1, <1>2, <1>3, <1>4, <1>5, <1>6, <1>7, <1>8, <1>9, <1>10, HandlerMoves,
     Zenon DEF Nudges!Next, Nudges!Works

-----------------------------------------------------------------------------
(* Follow-ups: the run's specification                                       *)

LadderInv == LadderTyped /\ RowAndRun /\ Clocked /\ Budget /\ Wiped

\* The ladder begins with nothing armed, nothing said and nothing sent.
LEMMA LadderInit == UnionInit => LadderInv
<1> SUFFICES ASSUME Nudges!Init PROVE LadderInv
  BY DEF UnionInit
<1> USE LadderBounds DEF Nudges!Init
<1>1. nudgeRun \in NudgeRuns
  BY DEF NudgeRuns, Nudges!Resting, Nudges!Pcs, Nudges!Outcomes
<1>2. LadderTyped
  BY <1>1 DEF LadderTyped, Silences, NudgeRows
<1>3. RowAndRun /\ Clocked
  BY DEF RowAndRun, Clocked, Active, Nudges!Resting
<1>4. \A l \in Nudges!Messages, k \in 1..Steps : sends[<<l, k>>] = 0
  OBVIOUS
<1>5. Tolerated = 0
  BY DEF Tolerated
<1>6. Budget
  BY <1>4, <1>5 DEF Budget, SentOnce, AheadUnsent, EpisodeOpen, RowOpen, RunOpen, LateOpen,
                    Nudges!NewEpisode, Active, Nudges!Resting, BeforeSend, AfterSend, Late
<1>7. Wiped
  BY DEF Wiped, Emptied, Silenced, Peeled, Active, Nudges!Resting
<1> QED
  BY <1>2, <1>3, <1>6, <1>7 DEF LadderInv

\* It holds throughout, whichever instance of the run moves.
LEMMA LadderHolds == UnionSpec => []LadderInv
<1>1. LadderInv /\ UNCHANGED ladderVars => LadderInv'
  <2> SUFFICES ASSUME LadderInv, UNCHANGED ladderVars PROVE LadderInv'
    OBVIOUS
  <2>1. UNCHANGED <<silence, said, nudge, nudgeRun, command, sends, nudgeDeaths, commands, escaped>>
    BY DEF ladderVars
  <2>2. LadderTyped' /\ RowAndRun' /\ Clocked'
    BY <2>1 DEF LadderInv, LadderTyped, RowAndRun, Clocked, Active
  <2>3. Budget'
    BY <2>1 DEF LadderInv, Budget, LateOpen, SentOnce, AheadUnsent, EpisodeOpen, RowOpen, RunOpen, OpenFrom,
                Tolerated, Nudges!NewEpisode, Active
  <2>4. Wiped'
    BY <2>1 DEF LadderInv, Wiped, Emptied, Silenced, Peeled, Active
  <2> QED
    BY <2>2, <2>3, <2>4 DEF LadderInv
<1>2. LadderInv /\ [UnionNext]_allVars => LadderInv'
  <2> SUFFICES ASSUME LadderInv, [UnionNext]_allVars PROVE LadderInv'
    OBVIOUS
  <2>1. CASE Nudges!Next
    BY <2>1, LadderTypedStep, RowAndRunStep, BudgetStep, WipedStep DEF LadderInv
  <2>2. CASE UNCHANGED ladderVars
    BY <1>1, <2>2
  <2>3. Nudges!Next \/ UNCHANGED ladderVars
    <3>1. CASE UnionNext
      BY <3>1, Zenon DEF UnionNext
    <3>2. CASE UNCHANGED allVars
      BY <3>2, Zenon DEF allVars
    <3> QED
      BY <3>1, <3>2
  <2> QED
    BY <2>1, <2>2, <2>3
<1> QED
  BY <1>2, LadderInit, PTL DEF UnionSpec

\* What a /reset wiped stays wiped until the customer writes: no run it caught in the middle of a
\* model call brings back the watermark or the labels, whatever the sweep arms beside it from a list
\* it had read before, unless the command did not reach the run; labels may come back when the
\* nudge's last question went unread or was answered before another process peeled (nudge.ts,
\* webhook.ts, labels.ts).
THEOREM ResetStaysWiped == UnionSpec => []ClearedStaysClear
<1>1. LadderInv => ClearedStaysClear
  BY DEF LadderInv, Wiped, Silenced, Peeled, ClearedStaysClear, Nudges!ClearedStaysClear
<1> QED
  BY <1>1, LadderHolds, PTL

\* One step of one episode is one message, however often the sweep, beside the nudge or between two,
\* the retries and the lane bring the row back, and whatever a question asked too late could not
\* read; each death of a handler and each /reset excuses one repetition (nudge.ts, service.ts).
THEOREM LadderStepOnce == UnionSpec => []StepOnce
<1>1. LadderInv => StepOnce
  <2> SUFFICES ASSUME LadderInv, NEW l \in Nudges!Messages, NEW k \in 1..Steps
               PROVE  sends[<<l, k>>] <= 1 + nudgeDeaths + commands
    BY DEF StepOnce, Nudges!StepOnce
  <2>1. sends[<<l, k>>] <= 1 + (nudgeDeaths + commands)
    BY DEF LadderInv, Budget, SentOnce, Tolerated
  <2>2. nudgeDeaths \in Nat /\ commands \in Nat
    BY DEF LadderInv, LadderTyped
  <2> QED
    BY <2>1, <2>2
<1> QED
  BY <1>1, LadderHolds, PTL

-----------------------------------------------------------------------------
(* The outgoing buses                                                        *)

\* The invariant of Outbox, of whichever instance of it moves.
BusesInv ==
    /\ instance = "outbox" => Buses!IInv
    /\ instance = "deleted" => Deleted!IInv

LEMMA BusBounds == Buses!ConstantsAssumption /\ Deleted!ConstantsAssumption
BY ConstantsAssumption, Zenon DEF ConstantsAssumption

LEMMA BusesInit == UnionInit => BusesInv
<1>1. UnionInit => /\ instance = "outbox" => Buses!Init
                   /\ instance = "deleted" => Deleted!Init
  BY DEF UnionInit
<1> QED
  BY <1>1, BusBounds, Buses!Initially, Deleted!Initially, Zenon DEF BusesInv

\* A step of the run is one of the instance that moves.
LEMMA BusesMoves ==
    ASSUME [UnionNext]_allVars
    PROVE  /\ instance' = instance
           /\ instance = "outbox" => [Buses!Next]_(Buses!vars)
           /\ instance = "deleted" => [Deleted!Next]_(Deleted!vars)
<1>1. CASE UnionNext
  <2>1. instance' = instance /\ (instance = "outbox" => Buses!Next) /\ (instance = "deleted" => Deleted!Next)
    BY <1>1 DEF UnionNext
  <2> QED
    BY <2>1
<1>2. CASE UNCHANGED allVars
  <2>1. UNCHANGED <<instance, item, flight, enabled, lines, alerted, events, requeues, deletes, toggles, crashes>>
    BY <1>2 DEF allVars, outboxVars
  <2> QED
    BY <2>1 DEF Buses!vars, Buses!bounds, Deleted!vars, Deleted!bounds
<1> QED
  BY <1>1, <1>2

LEMMA BusesStep == BusesInv /\ [UnionNext]_allVars => BusesInv'
<1> SUFFICES ASSUME BusesInv, [UnionNext]_allVars PROVE BusesInv'
  OBVIOUS
<1>1. instance' = instance
  BY BusesMoves
<1>2. ASSUME instance = "outbox" PROVE Buses!IInv'
  BY <1>2, BusBounds, BusesMoves, Buses!Inductive DEF BusesInv
<1>3. ASSUME instance = "deleted" PROVE Deleted!IInv'
  BY <1>3, BusBounds, BusesMoves, Deleted!Inductive DEF BusesInv
<1> QED
  BY <1>1, <1>2, <1>3 DEF BusesInv

LEMMA BusesHolds == UnionSpec => []BusesInv
BY BusesInit, BusesStep, PTL DEF UnionSpec

\* An alert that was delivered said how many there were, in the run: on a channel that loses no
\* alert, and of the one alert of the channel in the instance where rows are deleted.
THEOREM AlertsSaidHowMany == UnionSpec => []CountIsTold
<1>1. BusesInv => CountIsTold
  <2>1. Buses!IInv => Buses!CountIsTold
    BY BusBounds, Buses!CountOfEach
  <2>2. Deleted!IInv => Deleted!CountIsTold
    BY BusBounds, Deleted!CountOfOne
  <2> QED
    BY <2>1, <2>2, Zenon DEF BusesInv, CountIsTold
<1> QED
  BY <1>1, BusesHolds, PTL

\* What the receiver accepted and the row recorded is over: no step of the run puts it back on the
\* queue or reports it dead, whatever claims, reaps, crashes and requeues come after (deliveries.ts,
\* alert-worker.ts).
THEOREM DeliveriesAreOver == UnionSpec => DeliveredStays
<1>1. BusesInv /\ [UnionNext]_allVars => [instance = "outbox" => Buses!DeliveredIsOver]_allVars
  BY BusBounds, BusesMoves, Buses!DeliveredOver DEF BusesInv
<1> QED
  BY <1>1, BusesHolds, PTL DEF UnionSpec, DeliveredStays

-----------------------------------------------------------------------------
(***************************************************************************)
(* The mirrored row (Mirror), for any history of the source and any number *)
(* of clicks and mishaps.                                                  *)
(*                                                                         *)
(* The row agrees with Chatwoot once all is quiet because the last change  *)
(* of the status and the last change of the holder are always either       *)
(* applied or still to come (StatusIsComing, HolderIsComing): on their way *)
(* as an event, or, for a status, held back by the takeover's claim, which *)
(* remembers the highest version it refused and settles with it.  What the *)
(* row says is what the source said at the version it is stamped with      *)
(* (StatusIsPlaced, HolderIsPlaced), but for the claim that runs ahead of  *)
(* it.  A message in whose second the takeover opened the conversation     *)
(* would write over it, whole seconds being all it is compared by: such a  *)
(* message lands under the claim only (ReopeningsHeld), and is refused.    *)
(*                                                                         *)
(* Under a live claim the row turns pending by a payload of a version past *)
(* the takeover's own transition, which the source opened: between the two *)
(* the source itself went back (ReturnsAreSteps).                          *)
(*                                                                         *)
(* A fallback, a finished recovery or a lost answer writes what no version *)
(* will place.  From then on (unplaced) only the types, the bounds and the *)
(* click's mark are promised: PlacedInv is owed until then.                *)
(***************************************************************************)

\* What the pieces are, without their bounds.
Kinds == {"event", "degraded", "incoming", "reply"}
State == [status : Row!Statuses, holder : Row!Holders, sec : Nat, act : Nat, msg : Nat]
Claim == [live : BOOLEAN, from : {"none", "pending"}, stamped : Nat, refused : Nat]
RowOf   == [exists : BOOLEAN, status : Row!Statuses, holder : Row!Holders, statusAt : Nat, assigneeAt : Nat,
          act : Nat, console : Nat, claim : Claim]
Pcs   == {"idle", "gate", "fence", "claim", "toggle", "readback", "reconcile", "stranded"}
TakeoverOf == [pc : Pcs, msg : Nat, reply : Nat, decided : Nat, finishing : BOOLEAN,
               seen : Nat \X Row!Holders \X Nat, live : Nat]
ClickPcs == {"idle", "assign", "toggle", "holder", "unassign", "mark", "readback", "mirror"}
ClickOf  == [pc : ClickPcs, button : {"return", "resolve", "handoff"}, mark : Nat, base : Row!Holders,
             holder : Row!Holders, live : Nat]
ShapeInv ==
    /\ source \in Seq(State) /\ Len(source) \in Nat \ {0}
    /\ transit \subseteq [v : Nat, kind : Kinds]
    /\ mirror \in RowOf /\ takeover \in TakeoverOf /\ click \in ClickOf
    /\ taken \in [reply : Nat, own : Nat] /\ unplaced \in BOOLEAN
    /\ clicks \in Nat /\ upsets \in Nat

Status(v) == source[v].status
Holder(v) == source[v].holder
Event(v)  == [v |-> v, kind |-> "event"]
Coming(v) == Event(v) \in transit
AtWork == takeover.pc \in {"toggle", "readback", "reconcile"}

\* Chatwoot's history: seconds only rise; back to pending is a step of its own.
SecondsRise == \A a, b \in 1..Row!Version : a <= b => source[a].sec <= source[b].sec
ReturnsAreSteps ==
    \A a, b \in 1..Row!Version : a < b /\ Status(a) # "pending" /\ Status(b) = "pending" =>
        \E v \in a + 1 .. b : Status(v) = "pending" /\ Status(v - 1) # "pending"
PayloadsTell ==
    \A d \in transit :
        /\ d.v \in 1..Row!Version
        /\ d.kind = "incoming" => Status(d.v) # "resolved" /\ source[d.v].act = source[d.v].sec
        /\ d.kind = "degraded" => Holder(d.v) = "person"
SourceInv == SecondsRise /\ ReturnsAreSteps /\ PayloadsTell

RowInv ==
    /\ ~mirror.exists => mirror = Row!NoRow /\ takeover = Row!NoTakeover /\ click.pc = "idle"
    /\ mirror.statusAt <= Row!Version /\ mirror.assigneeAt <= Row!Version
    /\ mirror.exists => mirror.statusAt # 0 /\ mirror.assigneeAt # 0
    /\ takeover.pc # "idle" => takeover.reply \in 1..Row!Version
    /\ takeover.pc = "reconcile" => takeover.live \in 1..Row!Version
    /\ mirror.claim.refused <= Row!Version
    /\ click.pc = "mirror" => click.live \in 1..Row!Version
    /\ takeover.finishing => unplaced

\* The last change of the holder has been applied or is on its way.
HolderIsComing ==
    \E w \in 1..Row!Version :
        /\ w >= mirror.assigneeAt /\ \A u \in w..Row!Version : Holder(u) = Holder(Row!Version)
        /\ w = mirror.assigneeAt \/ Coming(w)
HolderIsPlaced ==
    mirror.exists => \/ mirror.holder = Holder(mirror.assigneeAt)
                     \/ Coming(mirror.assigneeAt) /\ mirror.holder = "none"
DegradedInv ==
    \A d \in transit : d.kind = "degraded" =>
        \/ Coming(d.v) \/ d.v < mirror.assigneeAt
        \/ d.v = mirror.assigneeAt /\ mirror.holder = "person"
HolderInv == HolderIsComing /\ HolderIsPlaced /\ DegradedInv

ClaimInv ==
    /\ AtWork => mirror.claim.live /\ mirror.claim.stamped = 0
    /\ mirror.claim.live =>
        /\ mirror.exists /\ mirror.claim.from = "pending"
        /\ 1 <= taken.reply /\ taken.reply <= taken.own /\ taken.own <= Row!Version
        /\ ~AtWork => taken.own <= mirror.claim.stamped /\ mirror.claim.stamped <= mirror.statusAt
        /\ takeover.pc # "toggle" => Status(taken.own) = "open"
    /\ takeover.pc = "reconcile" => taken.own <= takeover.live
    /\ mirror.claim.refused # 0 => Status(mirror.claim.refused) = "pending"
    /\ ~AtWork => mirror.claim.refused <= mirror.statusAt

Deferred(w) == AtWork /\ Status(w) = "pending" /\ w <= mirror.claim.refused
StatusIsComing ==
    \E w \in 1..Row!Version :
        /\ w >= mirror.statusAt /\ \A u \in w..Row!Version : Status(u) = Status(Row!Version)
        /\ w = mirror.statusAt \/ Coming(w) \/ Deferred(w)
StatusIsPlaced ==
    mirror.exists => \/ mirror.status = Status(mirror.statusAt)
                     \/ AtWork /\ mirror.status = "open" /\ mirror.statusAt <= taken.own
\* A message in whose second the takeover opened the conversation is on its way only under the claim.
ReopeningsHeld ==
    \A d \in transit : \A w \in d.v .. Row!Version :
        d.kind = "incoming" /\ source[w].sec = source[d.v].sec /\ Status(w) # Status(d.v) =>
            /\ Status(d.v) = "pending" /\ Status(w) = "open"
            /\ mirror.claim.live /\ d.v <= taken.own
StatusInv == StatusIsComing /\ StatusIsPlaced /\ ReopeningsHeld

TakenInv ==
    mirror.claim.live =>
        /\ mirror.status = "pending" => Row!Returned(taken.reply)
        /\ mirror.status = "resolved" => taken.reply <= mirror.statusAt

\* The claim compares a mark the fence has judged.
ClickInv ==
    takeover.pc = "claim" => takeover.seen[3] = 0 \/ takeover.seen[3] < takeover.msg

PlacedInv == HolderInv /\ ClaimInv /\ StatusInv /\ TakenInv
MInv == ShapeInv /\ SourceInv /\ RowInv /\ ClickInv /\ (~unplaced => PlacedInv)

-----------------------------------------------------------------------------
LEMMA InitMInv == Row!Init => MInv
<1> SUFFICES ASSUME Row!Init PROVE MInv  OBVIOUS
<1>1. /\ source[1] = [status |-> "pending", holder |-> "none", sec |-> 1, act |-> 1, msg |-> 0]
      /\ source[1] \in State /\ Len(source) = 1 /\ source \in Seq(State)
  BY DEF Row!Init, State, Row!Statuses, Row!Holders
<1>2. mirror \in RowOf /\ takeover \in TakeoverOf /\ click \in ClickOf
  BY DEF Row!Init, RowOf, Claim, Row!NoRow, Row!NoClaim, Row!Statuses, Row!Holders, TakeoverOf,
     Row!NoTakeover, Row!Seen, Pcs,
         ClickOf, Row!NoClick, ClickPcs
<1>3. ShapeInv
  <2>1. transit \subseteq [v : Nat, kind : Kinds]
    BY DEF Row!Init, Kinds
  <2>2. taken \in [reply : Nat, own : Nat] /\ unplaced \in BOOLEAN /\ clicks \in Nat /\ upsets \in Nat
    BY DEF Row!Init
  <2>. QED BY <1>1, <1>2, <2>1, <2>2 DEF ShapeInv
<1>4. SourceInv
  BY <1>1 DEF Row!Init, SourceInv, SecondsRise, ReturnsAreSteps, PayloadsTell, Row!Version, Status
<1>5. RowInv /\ ClickInv
  BY <1>1 DEF Row!Init, RowInv, ClickInv, Row!NoRow, Row!NoClaim, Row!NoTakeover, Row!NoClick, Row!Version
<1>6. Coming(1) /\ ~AtWork /\ ~mirror.exists /\ ~mirror.claim.live
  BY DEF Row!Init, Coming, Event, AtWork, Row!NoTakeover, Row!NoRow, Row!NoClaim
<1>7. HolderIsComing /\ StatusIsComing
  BY <1>1, <1>6 DEF Row!Init, HolderIsComing, StatusIsComing, Row!NoRow, Row!Version
<1>8. HolderIsPlaced /\ StatusIsPlaced /\ TakenInv
  BY <1>6 DEF HolderIsPlaced, StatusIsPlaced, TakenInv
<1>9. DegradedInv /\ ReopeningsHeld
  BY DEF Row!Init, DegradedInv, ReopeningsHeld
<1>10. ClaimInv
  BY <1>1, <1>6 DEF Row!Init, ClaimInv, Row!NoRow, Row!NoClaim, Row!NoTakeover, Row!Version
<1>. QED BY <1>3, <1>4, <1>5, <1>7, <1>8, <1>9, <1>10 DEF MInv, PlacedInv, HolderInv, StatusInv

-----------------------------------------------------------------------------
(* A write of the source. *)

\* What a state committed now may be, and which payloads it sends.
Fits(state, kinds) ==
    /\ state \in State /\ kinds \subseteq Kinds /\ state.sec >= Row!Now.sec
    /\ "event" \in kinds \/ (state.status = Row!Now.status /\ state.holder = Row!Now.holder)
    /\ "incoming" \in kinds => state.status # "resolved" /\ state.act = state.sec
    /\ "degraded" \in kinds => "event" \in kinds /\ state.holder = "person"
Wrote(state, kinds) ==
    /\ source' = Append(source, state)
    /\ transit' = transit \cup {[v |-> Row!Version + 1, kind |-> k] : k \in kinds}

\* Its second is a new one, or nothing else changed, or the customer reopened it, or the takeover.
Timely(state) ==
    \/ state.sec > Row!Now.sec
    \/ state.status = Row!Now.status
    \/ Row!Now.status = "resolved" /\ state.status = "pending"
    \/ state.status = "open" /\ AtWork

LEMMA Sources ==
    ASSUME ShapeInv
    PROVE  /\ Row!Version \in Nat \ {0} /\ Row!Now \in State /\ \A v \in 1..Row!Version : source[v] \in State
           /\ \A v \in 1..Row!Version : source[v].sec \in Nat /\ source[v].act \in Nat /\ source[v].msg \in Nat
<1>1. Row!Version \in Nat \ {0} /\ \A v \in 1..Row!Version : source[v] \in State
  BY DEF ShapeInv, Row!Version
<1>. QED BY <1>1 DEF Row!Now, State

LEMMA Appended ==
    ASSUME ShapeInv, NEW state \in State, source' = Append(source, state)
    PROVE  /\ Row!Version' = Row!Version + 1 /\ source'[Row!Version + 1] = state
           /\ \A v \in 1..Row!Version : source'[v] = source[v]
           /\ source' \in Seq(State) /\ Len(source') \in Nat \ {0}
<1>. DEFINE n == Len(source)
<1>1. n \in Nat \ {0} /\ source \in Seq(State)
  BY DEF ShapeInv
<1>. QED BY <1>1 DEF Row!Version

LEMMA WroteShape ==
    ASSUME ShapeInv, NEW state, NEW kinds, Fits(state, kinds), Wrote(state, kinds)
    PROVE  /\ source' \in Seq(State) /\ Len(source') \in Nat \ {0}
           /\ transit' \subseteq [v : Nat, kind : Kinds]
<1>1. source' \in Seq(State) /\ Len(source') \in Nat \ {0}
  BY Appended DEF Fits, Wrote
<1>2. transit \subseteq [v : Nat, kind : Kinds] /\ Row!Version + 1 \in Nat /\ kinds \subseteq Kinds
  BY Sources DEF ShapeInv, Fits
<1>3. ASSUME NEW d \in transit' PROVE d \in [v : Nat, kind : Kinds]
  BY <1>2 DEF Wrote
<1>. QED BY <1>1, <1>3

LEMMA WroteSourceInv ==
    ASSUME ShapeInv, SourceInv, NEW state, NEW kinds, Fits(state, kinds), Wrote(state, kinds)
    PROVE  SourceInv'
<1>. USE DEF Row!Version
<1>. DEFINE n == Len(source)
<1>0. n \in Nat \ {0} /\ \A v \in 1..n : source[v].sec \in Nat
  BY Sources
<1>1. /\ Len(source') = n + 1 /\ source'[n + 1] = state /\ \A v \in 1..n : source'[v] = source[v]
      /\ state.sec \in Nat /\ state.sec >= source[n].sec
  BY Appended DEF Fits, Wrote, Row!Now, State
<1>. HIDE DEF n
<1>2. SecondsRise'
  <2>. SUFFICES ASSUME NEW a \in 1..(n + 1), NEW b \in 1..(n + 1), a <= b
                PROVE  source'[a].sec <= source'[b].sec
    BY <1>0, <1>1 DEF SecondsRise
  <2>1. CASE b <= n
    BY <2>1, <1>0, <1>1 DEF SourceInv, SecondsRise, n
  <2>2. CASE b = n + 1 /\ a <= n
    <3>1. a \in 1..n /\ n \in 1..n
      BY <2>2, <1>0
    <3>2. source[a].sec <= source[n].sec
      BY <3>1, <1>0 DEF SourceInv, SecondsRise, n
    <3>. QED BY <2>2, <3>1, <3>2, <1>0, <1>1
  <2>3. CASE a = n + 1 /\ b = n + 1
    BY <2>3, <1>1
  <2>. QED BY <2>1, <2>2, <2>3, <1>0
<1>3. ReturnsAreSteps'
  <2>. SUFFICES ASSUME NEW a \in 1..(n + 1), NEW b \in 1..(n + 1), a < b,
                       source'[a].status # "pending", source'[b].status = "pending"
                PROVE  \E v \in a + 1 .. b : source'[v].status = "pending" /\ source'[v - 1].status # "pending"
    BY <1>0, <1>1 DEF ReturnsAreSteps, Status
  <2>0. a \in 1..n /\ source[a].status # "pending"
    BY <1>0, <1>1
  <2>1. ASSUME NEW c \in 1..n, a < c, source[c].status = "pending"
        PROVE  \E v \in a + 1 .. c : source'[v].status = "pending" /\ source'[v - 1].status # "pending"
    <3>1. PICK v \in a + 1 .. c : source[v].status = "pending" /\ source[v - 1].status # "pending"
      BY <2>0, <2>1, <1>0 DEF SourceInv, ReturnsAreSteps, Status, n
    <3>2. v \in 1..n /\ v - 1 \in 1..n
      BY <2>0, <1>0
    <3>. QED BY <3>1, <3>2, <1>1
  <2>2. CASE b \in 1..n
    BY <2>1, <2>2, <1>1
  <2>3. CASE b = n + 1 /\ source[n].status = "pending"
    <3>1. n \in 1..n /\ a < n
      BY <2>0, <2>3, <1>0
    <3>2. PICK v \in a + 1 .. n : source'[v].status = "pending" /\ source'[v - 1].status # "pending"
      BY <2>1, <2>3, <3>1
    <3>3. v \in a + 1 .. b
      BY <2>3, <1>0
    <3>. QED BY <3>2, <3>3
  <2>4. CASE b = n + 1 /\ source[n].status # "pending"
    <3>1. b \in a + 1 .. b /\ b - 1 = n /\ n \in 1..n
      BY <2>4, <1>0
    <3>. QED BY <2>4, <3>1, <1>1
  <2>. QED BY <2>2, <2>3, <2>4, <1>0
<1>4. PayloadsTell'
  <2>. SUFFICES ASSUME NEW d \in transit'
                PROVE  /\ d.v \in 1..(n + 1)
                       /\ d.kind = "incoming" => source'[d.v].status # "resolved"
                                                 /\ source'[d.v].act = source'[d.v].sec
                       /\ d.kind = "degraded" => source'[d.v].holder = "person"
    BY <1>1 DEF PayloadsTell, Status, Holder
  <2>1. CASE d \in transit
    <3>1. /\ d.v \in 1..n
          /\ d.kind = "incoming" => source[d.v].status # "resolved" /\ source[d.v].act = source[d.v].sec
          /\ d.kind = "degraded" => source[d.v].holder = "person"
      BY <2>1 DEF SourceInv, PayloadsTell, Status, Holder, n
    <3>. QED BY <3>1, <1>0, <1>1
  <2>2. CASE d \notin transit
    <3>1. PICK k \in kinds : d = [v |-> n + 1, kind |-> k]
      BY <2>2 DEF Wrote, n
    <3>2. d.v = n + 1 /\ d.kind \in kinds
      BY <3>1
    <3>. QED BY <3>2, <1>0, <1>1 DEF Fits
  <2>. QED BY <2>1, <2>2
<1>. QED BY <1>2, <1>3, <1>4 DEF SourceInv

\* What every later conjunct needs of a write.
LEMMA WroteNumbers ==
    ASSUME ShapeInv, NEW state, NEW kinds, Fits(state, kinds), Wrote(state, kinds)
    PROVE  /\ Row!Version \in Nat \ {0} /\ Row!Version' = Row!Version + 1 /\ source'[Row!Version + 1] = state
           /\ \A v \in 1..Row!Version : source'[v] = source[v] /\ Status(v)' = Status(v) /\ Holder(v)' = Holder(v)
           /\ \A v \in Nat : Coming(v) => Coming(v)'
           /\ \A v \in Nat : "event" \in kinds /\ v = Row!Version + 1 => Coming(v)'
<1>1. Row!Version \in Nat \ {0} /\ Row!Version' = Row!Version + 1 /\ source'[Row!Version + 1] = state
      /\ \A v \in 1..Row!Version : source'[v] = source[v]
  BY Sources, Appended DEF Fits, Wrote
<1>2. transit \subseteq transit' /\ ("event" \in kinds => Event(Row!Version + 1) \in transit')
  BY DEF Wrote, Event
<1>3. \A v \in 1..Row!Version : Status(v)' = Status(v) /\ Holder(v)' = Holder(v)
  BY <1>1 DEF Status, Holder
<1>4. \A v \in Nat : Coming(v) => Coming(v)'
  BY <1>2 DEF Event, Coming
<1>5. \A v \in Nat : "event" \in kinds /\ v = Row!Version + 1 => Coming(v)'
  BY <1>2 DEF Event, Coming
<1>. QED BY <1>1, <1>3, <1>4, <1>5

\* A history that was constant from w on still is, or its change is on its way.
LEMMA WroteHolderInv ==
    ASSUME ShapeInv, SourceInv, RowInv, HolderInv, mirror' = mirror,
           NEW state, NEW kinds, Fits(state, kinds), Wrote(state, kinds)
    PROVE  HolderInv'
<1>. PICK n \in Nat \ {0} : n = Row!Version
  BY Sources
<1>0. /\ n \in Nat \ {0} /\ Row!Version' = n + 1
      /\ Holder(n + 1)' = state.holder /\ \A v \in 1..n : Holder(v)' = Holder(v)
      /\ \A v \in Nat : Coming(v) => Coming(v)'
      /\ "event" \in kinds => Coming(n + 1)'
  BY WroteNumbers DEF Status, Holder
<1>1. mirror.assigneeAt \in Nat /\ mirror.assigneeAt <= n
      /\ (mirror.exists => mirror.assigneeAt \in 1..n)
  BY <1>0 DEF ShapeInv, RowOf, RowInv
<1>2. HolderIsComing'
  <2>1. CASE "event" \in kinds
    <3>1. n + 1 \in 1..Row!Version' /\ n + 1 >= mirror'.assigneeAt
      BY <1>0, <1>1
    <3>2. \A u \in (n + 1)..Row!Version' : Holder(u)' = Holder(Row!Version)'
      BY <1>0
    <3>. QED BY <2>1, <3>1, <3>2, <1>0 DEF HolderIsComing
  <2>2. CASE state.holder = Holder(n)
    <3>1. PICK w \in 1..n : /\ w >= mirror.assigneeAt /\ \A u \in w..n : Holder(u) = Holder(n)
                            /\ w = mirror.assigneeAt \/ Coming(w)
      BY DEF HolderInv, HolderIsComing
    <3>2. w \in 1..Row!Version' /\ (w = mirror'.assigneeAt \/ Coming(w)')
      BY <3>1, <1>0
    <3>3. \A u \in w..Row!Version' : Holder(u)' = Holder(Row!Version)'
      BY <3>1, <2>2, <1>0
    <3>. QED BY <3>1, <3>2, <3>3 DEF HolderIsComing
  <2>. QED BY <2>1, <2>2 DEF Fits, Row!Now, Holder, Row!Version
<1>3. HolderIsPlaced'
  BY <1>0, <1>1 DEF HolderInv, HolderIsPlaced
<1>4. DegradedInv'
  <2>. SUFFICES ASSUME NEW d \in transit', d.kind = "degraded"
                PROVE  \/ Coming(d.v)' \/ d.v < mirror'.assigneeAt
                       \/ d.v = mirror'.assigneeAt /\ mirror'.holder = "person"
    BY DEF DegradedInv
  <2>1. CASE d \in transit
    <3>1. d.v \in Nat
      BY <2>1 DEF ShapeInv
    <3>. QED BY <2>1, <3>1, <1>0 DEF HolderInv, DegradedInv
  <2>2. CASE d \notin transit
    <3>1. PICK k \in kinds : d = [v |-> n + 1, kind |-> k]
      BY <2>2 DEF Wrote
    <3>. QED BY <3>1, <1>0 DEF Fits
  <2>. QED BY <2>1, <2>2
<1>. QED BY <1>2, <1>3, <1>4 DEF HolderInv

\* Its second is a new one, or nothing else changed, or the customer reopened it, or the takeover.
OnTime(state) ==
    \/ state.sec > Row!Now.sec
    \/ state.status = Row!Now.status
    \/ Row!Now.status = "resolved" /\ state.status = "pending"
    \/ state.status = "open" /\ AtWork /\ taken'.own = Row!Version + 1

LEMMA WroteStatusInv ==
    ASSUME ShapeInv, SourceInv, RowInv, ClaimInv, StatusInv, mirror' = mirror, AtWork' = AtWork,
           taken'.own \in Nat, taken.own <= taken'.own,
           NEW state, NEW kinds, Fits(state, kinds), Wrote(state, kinds), OnTime(state)
    PROVE  StatusInv'
<1>. PICK n \in Nat \ {0} : n = Row!Version
  BY Sources
<1>0. /\ n \in Nat \ {0} /\ Row!Version' = n + 1 /\ source'[n + 1] = state
      /\ Status(n + 1)' = state.status
      /\ \A v \in 1..n : source'[v] = source[v] /\ Status(v)' = Status(v)
      /\ \A v \in Nat : Coming(v) => Coming(v)'
      /\ "event" \in kinds => Coming(n + 1)'
  BY WroteNumbers DEF Status, Holder
<1>1. mirror.statusAt \in Nat /\ mirror.statusAt <= n /\ taken.own \in Nat
      /\ (mirror.exists => mirror.statusAt \in 1..n)
  BY <1>0 DEF ShapeInv, RowOf, RowInv
<1>2. \A v \in 1..n : source[v].sec \in Nat
  BY Sources
<1>3. state.sec \in Nat /\ state.sec >= source[n].sec
  BY DEF Fits, State, Row!Now
<1>4. StatusIsComing'
  <2>1. CASE "event" \in kinds
    <3>1. n + 1 \in 1..Row!Version' /\ n + 1 >= mirror'.statusAt
      BY <1>0, <1>1
    <3>2. \A u \in (n + 1)..Row!Version' : Status(u)' = Status(Row!Version)'
      BY <1>0
    <3>. QED BY <2>1, <3>1, <3>2, <1>0 DEF StatusIsComing
  <2>2. CASE state.status = Status(n)
    <3>1. PICK w \in 1..n : /\ w >= mirror.statusAt /\ \A u \in w..n : Status(u) = Status(n)
                            /\ w = mirror.statusAt \/ Coming(w) \/ Deferred(w)
      BY DEF StatusInv, StatusIsComing
    <3>2. w \in 1..Row!Version' /\ (w = mirror'.statusAt \/ Coming(w)' \/ Deferred(w)')
      BY <3>1, <1>0 DEF Deferred
    <3>3. \A u \in w..Row!Version' : Status(u)' = Status(Row!Version)'
      BY <3>1, <2>2, <1>0
    <3>. QED BY <3>1, <3>2, <3>3 DEF StatusIsComing
  <2>. QED BY <2>1, <2>2 DEF Fits, Row!Now, Status, Row!Version
<1>5. StatusIsPlaced'
  BY <1>0, <1>1 DEF StatusInv, StatusIsPlaced
<1>6. ReopeningsHeld'
  <2>. SUFFICES ASSUME NEW d \in transit', NEW w \in d.v .. (n + 1), d.kind = "incoming",
                       source'[w].sec = source'[d.v].sec, source'[w].status # source'[d.v].status
                PROVE  /\ source'[d.v].status = "pending" /\ source'[w].status = "open"
                       /\ mirror.claim.live /\ d.v <= taken'.own
    BY <1>0 DEF ReopeningsHeld, Status
  <2>1. d \in transit /\ d.v \in 1..n
    <3>1. CASE d \in transit
      BY <3>1 DEF SourceInv, PayloadsTell
    <3>2. CASE d \notin transit
      <4>1. d.v = n + 1
        BY <3>2 DEF Wrote
      <4>. QED BY <4>1, <1>0
    <3>. QED BY <3>1, <3>2
  <2>2. source[d.v].status # "resolved" /\ source[d.v].status \in Row!Statuses
    BY <2>1, Sources DEF SourceInv, PayloadsTell, Status, State
  <2>3. ASSUME NEW u \in d.v .. n, source[u].sec = source[d.v].sec, source[u].status # source[d.v].status
        PROVE  /\ source[d.v].status = "pending" /\ source[u].status = "open"
               /\ mirror.claim.live /\ d.v <= taken.own
    BY <2>1, <2>3 DEF StatusInv, ReopeningsHeld, Status
  <2>4. CASE w \in 1..n
    BY <2>1, <2>3, <2>4, <1>0, <1>1
  <2>5. CASE w = n + 1
    <3>1. source'[w] = state /\ source'[d.v] = source[d.v] /\ n \in d.v .. n
      BY <2>1, <2>5, <1>0
    <3>2. source[d.v].sec <= source[n].sec
      BY <2>1, <1>0 DEF SourceInv, SecondsRise
    <3>3. state.sec = source[n].sec /\ source[n].sec = source[d.v].sec
      BY <3>1, <3>2, <2>1, <1>0, <1>2, <1>3
    <3>4. Row!Now = source[n] /\ ~(state.sec > Row!Now.sec)
      BY <3>3, <1>3, <1>2, <1>0 DEF Row!Now
    <3>5. CASE state.status = Row!Now.status
      BY <2>3, <3>1, <3>3, <3>4, <3>5, <1>1, <2>1
    <3>6. CASE Row!Now.status = "resolved" /\ state.status = "pending"
      BY <2>2, <2>3, <3>1, <3>3, <3>4, <3>6
    <3>7. CASE state.status = "open" /\ AtWork /\ taken'.own = n + 1
      BY <2>1, <2>2, <3>1, <3>7, <1>0 DEF Row!Statuses, ClaimInv
    <3>. QED BY <3>4, <3>5, <3>6, <3>7 DEF OnTime
  <2>. QED BY <2>1, <2>4, <2>5, <1>0
<1>. QED BY <1>4, <1>5, <1>6 DEF StatusInv

\* Given back once, given back for good.
LEMMA WroteReturned ==
    ASSUME ShapeInv, NEW state, NEW kinds, Fits(state, kinds), Wrote(state, kinds),
           NEW after \in Nat \ {0}, Row!Returned(after)
    PROVE  Row!Returned(after)'
<1>0. /\ Row!Version \in Nat \ {0} /\ Row!Version' = Row!Version + 1 /\ \A v \in 1..Row!Version : source'[v] = source[v]
  BY WroteNumbers
<1>1. PICK v \in after + 1 .. Row!Version : source[v].status = "pending" /\ source[v - 1].status # "pending"
  BY DEF Row!Returned
<1>2. v \in 1..Row!Version /\ v - 1 \in 1..Row!Version /\ v \in after + 1 .. Row!Version'
  BY <1>0, <1>1
<1>. QED BY <1>0, <1>1, <1>2 DEF Row!Returned

-----------------------------------------------------------------------------
(* A payload that lands. *)

\* What is written of a row that exists.
LEMMA UpdatedFields ==
    ASSUME ShapeInv, SourceInv, mirror.exists, NEW d \in transit
    PROVE  /\ Row!Updated(d) \in RowOf /\ Row!Updated(d).exists /\ Row!Updated(d).console = mirror.console
           /\ Row!Updated(d).claim.live = mirror.claim.live /\ Row!Updated(d).claim.from = mirror.claim.from
           /\ Row!Updated(d).claim.stamped = mirror.claim.stamped
           /\ Row!Stale(d) => Row!Updated(d) = mirror
           /\ ~Row!Stale(d) =>
                /\ Row!WritesStatus(d) => /\ Row!Updated(d).status = Status(d.v)
                                      /\ Row!Updated(d).statusAt = Row!Larger(mirror.statusAt, d.v)
                /\ ~Row!WritesStatus(d) => /\ Row!Updated(d).status = mirror.status
                                       /\ Row!Updated(d).statusAt = mirror.statusAt
                /\ Row!WritesHolder(d) => /\ Row!Updated(d).holder = Row!StatedHolder(d)
                                      /\ Row!Updated(d).assigneeAt = Row!Larger(mirror.assigneeAt, d.v)
                /\ ~Row!WritesHolder(d) => /\ Row!Updated(d).holder = mirror.holder
                                       /\ Row!Updated(d).assigneeAt = mirror.assigneeAt
                /\ Row!Verdict(d) = "defer" =>
                     Row!Updated(d).claim.refused = Row!Larger(mirror.claim.refused, d.v)
                /\ Row!Verdict(d) # "defer" => Row!Updated(d).claim.refused = mirror.claim.refused
<1>1. d.v \in 1..Row!Version /\ d.v \in Nat /\ source[d.v] \in State
  BY Sources DEF SourceInv, PayloadsTell
<1>2. /\ source[d.v].status \in Row!Statuses /\ Row!StatedHolder(d) \in Row!Holders /\ source[d.v].act \in Nat
      /\ mirror.statusAt \in Nat /\ mirror.assigneeAt \in Nat /\ mirror.act \in Nat /\ mirror \in RowOf
      /\ mirror.claim.refused \in Nat /\ mirror.claim \in Claim
  BY <1>1 DEF State, Row!StatedHolder, Row!Holders, ShapeInv, RowOf, Claim
<1>3. \A a, b \in Nat : Row!Larger(a, b) \in Nat
  BY DEF Row!Larger
<1>4. CASE Row!Stale(d)
  BY <1>2, <1>4 DEF Row!Updated, RowOf
<1>5. CASE ~Row!Stale(d)
  <2>. DEFINE status == IF Row!WritesStatus(d) THEN source[d.v].status ELSE mirror.status
              statusAt == IF Row!WritesStatus(d) THEN Row!Larger(mirror.statusAt, d.v) ELSE mirror.statusAt
              person == IF Row!WritesHolder(d) THEN Row!StatedHolder(d) ELSE mirror.holder
              assigneeAt == IF Row!WritesHolder(d) THEN Row!Larger(mirror.assigneeAt, d.v) ELSE mirror.assigneeAt
              held == IF Row!Verdict(d) = "defer" THEN Row!Larger(mirror.claim.refused, d.v)
                         ELSE mirror.claim.refused
              act == Row!Larger(mirror.act, source[d.v].act)
  <2>1. /\ status \in Row!Statuses /\ statusAt \in Nat /\ person \in Row!Holders /\ assigneeAt \in Nat
        /\ held \in Nat /\ act \in Nat
    BY <1>1, <1>2, <1>3 DEF RowOf
  <2>. DEFINE claim == [mirror.claim EXCEPT !.refused = held]
  <2>c. /\ claim \in Claim /\ claim.refused = held /\ claim.live = mirror.claim.live
        /\ claim.from = mirror.claim.from /\ claim.stamped = mirror.claim.stamped
    BY <1>2, <2>1 DEF Claim
  <2>2. Row!Updated(d) = [mirror EXCEPT !.status = status, !.statusAt = statusAt, !.holder = person,
                        !.assigneeAt = assigneeAt, !.claim = claim, !.act = act]
    BY <1>2, <1>5 DEF Row!Updated, RowOf, Claim
  <2>. HIDE DEF status, statusAt, person, assigneeAt, held, act, claim
  <2>3. /\ Row!Updated(d) \in RowOf /\ Row!Updated(d).exists /\ Row!Updated(d).console = mirror.console
        /\ Row!Updated(d).claim.live = mirror.claim.live /\ Row!Updated(d).claim.from = mirror.claim.from
        /\ Row!Updated(d).claim.stamped = mirror.claim.stamped
        /\ Row!Updated(d).status = status /\ Row!Updated(d).statusAt = statusAt /\ Row!Updated(d).holder = person
        /\ Row!Updated(d).assigneeAt = assigneeAt /\ Row!Updated(d).claim.refused = held
    BY <1>2, <2>1, <2>2, <2>c DEF RowOf
  <2>. QED BY <2>3, <1>5 DEF status, statusAt, person, assigneeAt, held, Status
<1>. QED BY <1>4, <1>5

\* The first payload makes the row.
LEMMA CreatedFields ==
    ASSUME ShapeInv, SourceInv, NEW d \in transit
    PROVE  /\ Row!Created(d) \in RowOf /\ Row!Created(d).exists /\ Row!Created(d).console = 0
           /\ Row!Created(d).claim = Row!NoClaim /\ Row!Created(d).status = Status(d.v)
           /\ Row!Created(d).holder = Row!StatedHolder(d)
           /\ Row!Created(d).statusAt = d.v /\ Row!Created(d).assigneeAt = d.v
<1>1. d.v \in 1..Row!Version /\ d.v \in Nat /\ source[d.v] \in State
  BY Sources DEF SourceInv, PayloadsTell
<1>2. source[d.v].status \in Row!Statuses /\ Row!StatedHolder(d) \in Row!Holders /\ source[d.v].act \in Nat
  BY <1>1 DEF State, Row!StatedHolder, Row!Holders
<1>3. Row!NoRow \in RowOf /\ Row!NoRow.console = 0 /\ Row!NoRow.claim = Row!NoClaim
  BY DEF Row!NoRow, RowOf, Row!NoClaim, Claim, Row!Statuses, Row!Holders
<1>. QED BY <1>1, <1>2, <1>3 DEF Row!Created, RowOf, Status

LEMMA VerdictIs ==
    ASSUME NEW stated, NEW reopens, NEW v
    PROVE  /\ Row!StatusClaimVerdict(stated, reopens, v) \in {"apply", "defer"}
           /\ Row!StatusClaimVerdict(stated, reopens, v) = "defer" =>
                /\ mirror.claim.live /\ stated = mirror.claim.from
                /\ ~(mirror.claim.stamped # 0 /\ v > mirror.claim.stamped)
           /\ mirror.claim.live /\ stated = mirror.claim.from
              /\ Row!StatusClaimVerdict(stated, reopens, v) = "apply" =>
                 \/ mirror.claim.stamped # 0 /\ v > mirror.claim.stamped
                 \/ reopens /\ mirror.status = "resolved"
BY DEF Row!StatusClaimVerdict

LEMMA MirrorsFrame ==
    ASSUME ShapeInv, SourceInv, RowInv, ClickInv, NEW d \in transit, Row!Mirrors(d)
    PROVE  ShapeInv' /\ SourceInv' /\ RowInv' /\ ClickInv' /\ AtWork' = AtWork
<1>1. d.v \in 1..Row!Version /\ d.v \in Nat /\ source[d.v] \in State /\ Row!Version \in Nat \ {0}
  BY Sources DEF SourceInv, PayloadsTell
<1>2. /\ mirror' \in RowOf /\ mirror'.exists /\ mirror'.console = mirror.console
      /\ mirror'.statusAt <= Row!Version /\ mirror'.assigneeAt <= Row!Version
      /\ mirror'.statusAt # 0 /\ mirror'.assigneeAt # 0
      /\ mirror'.claim.refused <= Row!Version
  <2>1. CASE mirror.exists
    <3>1. mirror' = Row!Updated(d)
      BY <2>1 DEF Row!Mirrors
    <3>2. /\ mirror.statusAt \in 1..Row!Version /\ mirror.assigneeAt \in 1..Row!Version
      BY <2>1, <1>1 DEF RowInv, ShapeInv, RowOf
    <3>3. \A a \in 1..Row!Version : Row!Larger(a, d.v) \in 1..Row!Version
      BY <1>1 DEF Row!Larger
    <3>4. Row!Updated(d).statusAt \in 1..Row!Version /\ Row!Updated(d).assigneeAt \in 1..Row!Version
      BY <2>1, <3>2, <3>3, UpdatedFields
    <3>5. Row!Updated(d) \in RowOf /\ Row!Updated(d).exists /\ Row!Updated(d).console = mirror.console
      BY <2>1, UpdatedFields
    <3>6. \A a \in 0..Row!Version : Row!Larger(a, d.v) \in 0..Row!Version
      BY <1>1 DEF Row!Larger
    <3>7. mirror.claim.refused \in 0..Row!Version
      BY <1>1 DEF RowInv, ShapeInv, RowOf, Claim
    <3>8. Row!Updated(d).claim.refused \in 0..Row!Version
      BY <2>1, <3>6, <3>7, UpdatedFields
    <3>. QED BY <3>1, <3>4, <3>5, <3>8
  <2>2. CASE ~mirror.exists
    <3>1. mirror' = Row!Created(d) /\ mirror.console = 0
      BY <2>2 DEF Row!Mirrors, RowInv, Row!NoRow
    <3>. QED BY <3>1, <1>1, CreatedFields DEF Row!NoClaim
  <2>. QED BY <2>1, <2>2
<1>3. \/ takeover' = takeover
      \/ /\ takeover.pc = "idle" /\ takeover'.pc = "gate" /\ takeover'.reply = d.v
         /\ ~takeover'.finishing /\ takeover' \in TakeoverOf
  <2>1. source[d.v].msg \in Nat
    BY <1>1 DEF State
  <2>2. Row!NoTakeover \in TakeoverOf /\ ~Row!NoTakeover.finishing
    BY DEF Row!NoTakeover, TakeoverOf, Pcs, Row!Seen, Row!NoRow, Row!Holders
  <2>3. ASSUME takeover' = [Row!NoTakeover EXCEPT !.pc = "gate", !.msg = source[d.v].msg, !.reply = d.v,
                                           !.decided = d.v]
        PROVE  /\ takeover'.pc = "gate" /\ takeover'.reply = d.v
               /\ ~takeover'.finishing /\ takeover' \in TakeoverOf
    BY <2>1, <2>2, <2>3, <1>1 DEF TakeoverOf, Pcs
  <2>. QED BY <2>3 DEF Row!Mirrors
<1>4. UNCHANGED <<source, click, taken, unplaced, clicks, upsets>> /\ transit' \subseteq transit
  BY DEF Row!Mirrors
<1>5. ShapeInv'
  BY <1>2, <1>3, <1>4 DEF ShapeInv
<1>6. SourceInv'
  BY <1>4 DEF SourceInv, SecondsRise, ReturnsAreSteps, PayloadsTell, Row!Version, Status, Holder
<1>7. RowInv'
  BY <1>1, <1>2, <1>3, <1>4 DEF RowInv, Row!Version
<1>8. ClickInv'
  BY <1>2, <1>3, <1>4 DEF ClickInv
<1>9. AtWork' = AtWork
  BY <1>3 DEF AtWork
<1>. QED BY <1>5, <1>6, <1>7, <1>8, <1>9

LEMMA StillComing ==
    ASSUME ShapeInv, NEW d \in transit, Row!Mirrors(d), NEW v \in Nat, Coming(v), d # Event(v)
    PROVE  Coming(v)'
BY DEF Row!Mirrors, Coming, Event

\* The holder of a payload is taken, or it says nothing new.
LEMMA HolderTaken ==
    ASSUME ShapeInv, SourceInv, RowInv, NEW d \in transit, Row!Mirrors(d)
    PROVE  \/ /\ mirror'.holder = Row!StatedHolder(d) /\ mirror'.assigneeAt = d.v
              /\ d.v >= mirror.assigneeAt /\ mirror'.exists
              /\ d.v = mirror.assigneeAt /\ Row!StatedHolder(d) = "none" => mirror.holder = "none"
           \/ /\ mirror'.holder = mirror.holder /\ mirror'.assigneeAt = mirror.assigneeAt
              /\ mirror.exists /\ mirror'.exists
              /\ Row!IsEvent(d) => \/ d.v < mirror.assigneeAt
                               \/ /\ d.v = mirror.assigneeAt
                                  /\ Row!StatedHolder(d) = "none" /\ mirror.holder # "none"
<1>0. d.v \in Nat /\ d.v \in 1..Row!Version /\ mirror.assigneeAt \in Nat /\ mirror.statusAt \in Nat
  BY DEF SourceInv, PayloadsTell, ShapeInv, RowOf
<1>1. CASE ~mirror.exists
  <2>1. mirror' = Row!Created(d) /\ mirror.assigneeAt = 0
    BY <1>1 DEF Row!Mirrors, RowInv, Row!NoRow
  <2>. QED BY <2>1, <1>0, CreatedFields
<1>2. CASE mirror.exists /\ Row!Stale(d)
  <2>1. mirror' = mirror
    BY <1>2, UpdatedFields DEF Row!Mirrors
  <2>. QED BY <2>1, <1>0, <1>2 DEF Row!Stale
<1>3. CASE mirror.exists /\ ~Row!Stale(d) /\ Row!WritesHolder(d)
  <2>1. mirror'.holder = Row!StatedHolder(d) /\ mirror'.assigneeAt = Row!Larger(mirror.assigneeAt, d.v) /\ mirror'.exists
    BY <1>3, UpdatedFields DEF Row!Mirrors
  <2>. QED BY <2>1, <1>3, <1>0 DEF Row!WritesHolder, Row!Larger
<1>4. CASE mirror.exists /\ ~Row!Stale(d) /\ ~Row!WritesHolder(d)
  <2>1. mirror'.holder = mirror.holder /\ mirror'.assigneeAt = mirror.assigneeAt /\ mirror'.exists
    BY <1>4, UpdatedFields DEF Row!Mirrors
  <2>. QED BY <2>1, <1>4, <1>0 DEF Row!WritesHolder
<1>. QED BY <1>1, <1>2, <1>3, <1>4

LEMMA MirrorsHolderInv ==
    ASSUME ShapeInv, SourceInv, RowInv, HolderInv, NEW d \in transit, Row!Mirrors(d)
    PROVE  HolderInv'
<1>. PICK n \in Nat \ {0} : n = Row!Version
  BY Sources
<1>0. /\ d.v \in 1..n /\ d.v \in Nat /\ mirror.assigneeAt \in Nat /\ d.kind \in Kinds
      /\ source' = source /\ Row!Version' = n /\ transit' = transit \ {d} /\ d = [v |-> d.v, kind |-> d.kind]
      /\ \A v \in Nat : Holder(v)' = Holder(v)
  BY DEF SourceInv, PayloadsTell, ShapeInv, RowOf, Row!Mirrors, Row!Version, Holder
<1>1. d.kind = "degraded" => /\ Holder(d.v) = "person"
                             /\ \/ Coming(d.v) \/ d.v < mirror.assigneeAt
                                \/ d.v = mirror.assigneeAt /\ mirror.holder = "person"
  BY DEF SourceInv, PayloadsTell, HolderInv, DegradedInv
<1>2. \A v \in Nat : d = Event(v) => d.v = v /\ d.kind = "event" /\ Row!IsEvent(d) /\ Row!StatedHolder(d) = Holder(v)
  BY DEF Event, Row!IsEvent, Row!StatedHolder, Holder
<1>3. d.kind # "degraded" => Row!StatedHolder(d) = Holder(d.v)
  BY DEF Row!StatedHolder, Holder
<1>4. d.kind = "degraded" => Row!IsEvent(d) /\ Row!StatedHolder(d) = "none" /\ \A v \in Nat : d # Event(v)
  BY <1>2 DEF Row!IsEvent, Row!StatedHolder
<1>5. CASE /\ mirror'.holder = Row!StatedHolder(d) /\ mirror'.assigneeAt = d.v
           /\ d.v >= mirror.assigneeAt
           /\ d.v = mirror.assigneeAt /\ Row!StatedHolder(d) = "none" => mirror.holder = "none"
  <2>1. HolderIsComing'
    <3>1. PICK w \in 1..n : /\ w >= mirror.assigneeAt /\ \A u \in w..n : Holder(u) = Holder(n)
                            /\ w = mirror.assigneeAt \/ Coming(w)
      BY DEF HolderInv, HolderIsComing
    <3>2. CASE w <= d.v
      <4>1. d.v \in 1..Row!Version' /\ \A u \in d.v .. Row!Version' : Holder(u)' = Holder(Row!Version)'
        BY <3>1, <3>2, <1>0
      <4>. QED BY <4>1, <1>5, <1>0 DEF HolderIsComing
    <3>3. CASE w > d.v
      <4>1. Coming(w) /\ d # Event(w)
        BY <3>1, <3>3, <1>5, <1>0, <1>2
      <4>2. Coming(w)'
        BY <4>1, StillComing
      <4>3. w \in 1..Row!Version' /\ w >= mirror'.assigneeAt /\ \A u \in w..Row!Version' : Holder(u)' = Holder(Row!Version)'
        BY <3>1, <3>3, <1>0, <1>5
      <4>. QED BY <4>2, <4>3 DEF HolderIsComing
    <3>. QED BY <3>2, <3>3, <1>0
  <2>2. HolderIsPlaced'
    <3>1. CASE d.kind # "degraded"
      BY <3>1, <1>0, <1>3, <1>5 DEF HolderIsPlaced
    <3>2. CASE d.kind = "degraded"
      <4>1. Coming(d.v)
        BY <3>2, <1>0, <1>1, <1>4, <1>5
      <4>2. Coming(d.v)'
        BY <4>1, <3>2, <1>0, <1>4, StillComing
      <4>. QED BY <4>2, <3>2, <1>4, <1>5 DEF HolderIsPlaced, Coming, Event
    <3>. QED BY <3>1, <3>2
  <2>3. DegradedInv'
    <3>. SUFFICES ASSUME NEW e \in transit', e.kind = "degraded"
                  PROVE  \/ Coming(e.v)' \/ e.v < mirror'.assigneeAt
                         \/ e.v = mirror'.assigneeAt /\ mirror'.holder = "person"
      BY DEF DegradedInv
    <3>1. /\ e \in transit /\ e.v \in Nat /\ Holder(e.v) = "person"
          /\ \/ Coming(e.v) \/ e.v < mirror.assigneeAt
             \/ e.v = mirror.assigneeAt /\ mirror.holder = "person"
      BY <1>0 DEF SourceInv, PayloadsTell, HolderInv, DegradedInv, ShapeInv
    <3>2. CASE Coming(e.v) /\ d # Event(e.v)
      BY <3>1, <3>2, StillComing
    <3>3. CASE d = Event(e.v)
      BY <3>1, <3>3, <1>2, <1>5
    <3>4. CASE e.v < mirror.assigneeAt
      BY <3>1, <3>4, <1>0, <1>5
    <3>5. CASE e.v = mirror.assigneeAt /\ mirror.holder = "person" /\ e.v = d.v
      BY <3>1, <3>5, <1>0, <1>3, <1>4, <1>5
    <3>6. CASE e.v = mirror.assigneeAt /\ e.v # d.v
      BY <3>1, <3>6, <1>0, <1>5
    <3>. QED BY <3>1, <3>2, <3>3, <3>4, <3>5, <3>6
  <2>. QED BY <2>1, <2>2, <2>3 DEF HolderInv
<1>6. CASE /\ mirror'.holder = mirror.holder /\ mirror'.assigneeAt = mirror.assigneeAt
           /\ mirror.exists /\ mirror'.exists
           /\ Row!IsEvent(d) => \/ d.v < mirror.assigneeAt
                            \/ /\ d.v = mirror.assigneeAt
                               /\ Row!StatedHolder(d) = "none" /\ mirror.holder # "none"
  <2>1. HolderIsComing'
    <3>1. PICK w \in 1..n : /\ w >= mirror.assigneeAt /\ \A u \in w..n : Holder(u) = Holder(n)
                            /\ w = mirror.assigneeAt \/ Coming(w)
      BY DEF HolderInv, HolderIsComing
    <3>2. w = mirror'.assigneeAt \/ Coming(w)'
      <4>1. CASE d = Event(w)
        BY <4>1, <3>1, <1>0, <1>2, <1>6
      <4>2. CASE Coming(w) /\ d # Event(w)
        BY <4>2, StillComing
      <4>. QED BY <4>1, <4>2, <3>1, <1>6
    <3>3. w \in 1..Row!Version' /\ w >= mirror'.assigneeAt /\ \A u \in w..Row!Version' : Holder(u)' = Holder(Row!Version)'
      BY <3>1, <1>0, <1>6
    <3>. QED BY <3>2, <3>3 DEF HolderIsComing
  <2>2. HolderIsPlaced'
    <3>1. CASE mirror.holder = Holder(mirror.assigneeAt)
      BY <3>1, <1>0, <1>6 DEF HolderIsPlaced, Holder
    <3>2. CASE Coming(mirror.assigneeAt) /\ mirror.holder = "none"
      <4>1. d # Event(mirror.assigneeAt)
        BY <3>2, <1>0, <1>2, <1>6
      <4>2. Coming(mirror.assigneeAt) /\ Event(mirror.assigneeAt) \in transit'
        BY <4>1, <3>2, <1>0 DEF Coming
      <4>. QED BY <3>2, <4>2, <1>6 DEF HolderIsPlaced, Coming, Event
    <3>. QED BY <3>1, <3>2, <1>6 DEF HolderInv, HolderIsPlaced
  <2>3. DegradedInv'
    <3>. SUFFICES ASSUME NEW e \in transit', e.kind = "degraded"
                  PROVE  \/ Coming(e.v)' \/ e.v < mirror'.assigneeAt
                         \/ e.v = mirror'.assigneeAt /\ mirror'.holder = "person"
      BY DEF DegradedInv
    <3>1. /\ e \in transit /\ e.v \in Nat /\ Holder(e.v) = "person"
          /\ \/ Coming(e.v) \/ e.v < mirror.assigneeAt
             \/ e.v = mirror.assigneeAt /\ mirror.holder = "person"
      BY <1>0 DEF SourceInv, PayloadsTell, HolderInv, DegradedInv, ShapeInv
    <3>2. CASE Coming(e.v) /\ d # Event(e.v)
      BY <3>1, <3>2, StillComing
    <3>3. CASE d = Event(e.v)
      BY <3>1, <3>3, <1>2, <1>6
    <3>. QED BY <3>1, <3>2, <3>3, <1>6
  <2>. QED BY <2>1, <2>2, <2>3 DEF HolderInv
<1>. QED BY <1>5, <1>6, HolderTaken

LEMMA ReturnedBetween ==
    ASSUME ShapeInv, SourceInv, NEW a \in 1..Row!Version, NEW b \in 1..Row!Version, NEW after \in Nat,
           a < b, after <= a, Status(a) # "pending", Status(b) = "pending"
    PROVE  Row!Returned(after)
<1>1. PICK v \in a + 1 .. b : Status(v) = "pending" /\ Status(v - 1) # "pending"
  BY DEF SourceInv, ReturnsAreSteps
<1>2. v \in after + 1 .. Row!Version
  BY <1>1, Sources
<1>. QED BY <1>1, <1>2 DEF Row!Returned, Status

\* The row of a conversation that is being claimed.
LEMMA ClaimedRow ==
    ASSUME ShapeInv, RowInv, ClaimInv, mirror.claim.live
    PROVE  /\ mirror.exists /\ mirror.claim.from = "pending" /\ mirror.statusAt \in 1..Row!Version
           /\ taken.reply \in 1..Row!Version /\ taken.own \in 1..Row!Version /\ taken.reply <= taken.own
           /\ mirror.claim.stamped \in Nat
           /\ AtWork => mirror.claim.stamped = 0
           /\ ~AtWork => /\ taken.own <= mirror.claim.stamped
                         /\ mirror.claim.stamped <= mirror.statusAt
                         /\ mirror.claim.stamped # 0
           /\ takeover.pc # "toggle" => Status(taken.own) = "open"
           /\ ~AtWork => Status(taken.own) = "open"
BY Sources DEF ShapeInv, RowOf, Claim, RowInv, ClaimInv, AtWork

\* Under a live claim a write of pending is news: Chatwoot gave the conversation back.
LEMMA PendingIsNews ==
    ASSUME ShapeInv, SourceInv, RowInv, ClaimInv, StatusInv, TakenInv, mirror.claim.live,
           NEW v \in 1..Row!Version, NEW reopens, Status(v) = "pending",
           Row!StatusClaimVerdict(Status(v), reopens, v) = "apply",
           v >= mirror.statusAt \/ Status(mirror.statusAt) = "pending"
    PROVE  Row!Returned(taken.reply)
<1>1. CASE mirror.claim.stamped # 0 /\ v > mirror.claim.stamped
  <2>1. ~AtWork
    BY <1>1, ClaimedRow
  <2>. QED BY <1>1, <2>1, ClaimedRow, ReturnedBetween
<1>2. CASE mirror.status = "resolved"
  <2>1. Status(mirror.statusAt) = "resolved" /\ taken.reply <= mirror.statusAt
    BY <1>2, ClaimedRow DEF StatusInv, StatusIsPlaced, TakenInv
  <2>2. mirror.statusAt < v
    BY <2>1, ClaimedRow
  <2>. QED BY <2>1, <2>2, ClaimedRow, ReturnedBetween
<1>. QED BY <1>1, <1>2, VerdictIs, ClaimedRow

\* Outside its round trips a claim refuses only what the row is past already.
LEMMA RefusedIsPast ==
    ASSUME ShapeInv, RowInv, ClaimInv, NEW v \in 1..Row!Version, NEW reopens,
           Row!StatusClaimVerdict(Status(v), reopens, v) = "defer"
    PROVE  Status(v) = "pending" /\ (~AtWork => v <= mirror.statusAt)
BY VerdictIs, ClaimedRow

\* What a payload does with the status.
LEMMA StatusTaken ==
    ASSUME ShapeInv, SourceInv, RowInv, ClaimInv, StatusInv, NEW d \in transit, Row!Mirrors(d)
    PROVE  /\ mirror'.exists
           /\ \/ /\ mirror'.status = Status(d.v) /\ mirror'.statusAt = d.v /\ d.v >= mirror.statusAt
                 /\ mirror.exists => Row!Verdict(d) = "apply"
              \/ /\ mirror'.status = Status(d.v) /\ mirror'.statusAt = mirror.statusAt /\ mirror.exists
                 /\ Status(d.v) = Status(mirror.statusAt)
                 /\ Row!Verdict(d) = "apply" /\ d.kind = "incoming"
              \/ /\ mirror'.status = mirror.status /\ mirror'.statusAt = mirror.statusAt /\ mirror.exists
                 /\ d.kind = "event" =>
                      \/ d.v < mirror.statusAt
                      \/ Row!Verdict(d) = "defer" /\ mirror'.claim.refused = Row!Larger(mirror.claim.refused, d.v)
           /\ mirror'.claim.live = mirror.claim.live /\ mirror'.claim.from = mirror.claim.from
           /\ mirror'.claim.stamped = mirror.claim.stamped
           /\ \/ mirror'.claim.refused = mirror.claim.refused
              \/ Row!Verdict(d) = "defer" /\ mirror'.claim.refused = Row!Larger(mirror.claim.refused, d.v)
<1>0. d.v \in Nat /\ d.v \in 1..Row!Version /\ mirror.statusAt \in Nat /\ Row!Verdict(d) \in {"apply", "defer"}
  BY VerdictIs DEF SourceInv, PayloadsTell, ShapeInv, RowOf, Row!Verdict
<1>1. CASE ~mirror.exists
  <2>1. mirror' = Row!Created(d) /\ mirror.statusAt = 0 /\ mirror.claim = Row!NoClaim
    BY <1>1 DEF Row!Mirrors, RowInv, Row!NoRow
  <2>. QED BY <1>1, <2>1, <1>0, CreatedFields
<1>2. CASE mirror.exists /\ Row!Stale(d)
  <2>1. mirror' = mirror
    BY <1>2, UpdatedFields DEF Row!Mirrors
  <2>. QED BY <2>1, <1>0, <1>2 DEF Row!Stale, Row!IsEvent
<1>3. CASE mirror.exists /\ ~Row!Stale(d) /\ ~Row!WritesStatus(d)
  <2>1. /\ mirror'.exists /\ mirror'.status = mirror.status /\ mirror'.statusAt = mirror.statusAt
        /\ mirror'.claim.live = mirror.claim.live /\ mirror'.claim.from = mirror.claim.from
        /\ mirror'.claim.stamped = mirror.claim.stamped
        /\ Row!Verdict(d) = "defer" => mirror'.claim.refused = Row!Larger(mirror.claim.refused, d.v)
        /\ Row!Verdict(d) # "defer" => mirror'.claim.refused = mirror.claim.refused
    BY <1>3, UpdatedFields DEF Row!Mirrors
  <2>2. d.kind = "event" => d.v < mirror.statusAt \/ Row!Verdict(d) = "defer"
    BY <1>3, <1>0 DEF Row!WritesStatus, Row!IsEvent
  <2>. QED BY <2>1, <2>2, <1>3
<1>4. CASE mirror.exists /\ ~Row!Stale(d) /\ Row!WritesStatus(d)
  <2>1. /\ mirror'.exists /\ mirror'.status = Status(d.v)
        /\ mirror'.statusAt = Row!Larger(mirror.statusAt, d.v)
        /\ mirror'.claim.live = mirror.claim.live /\ mirror'.claim.from = mirror.claim.from
        /\ mirror'.claim.stamped = mirror.claim.stamped
        /\ Row!Verdict(d) # "defer" => mirror'.claim.refused = mirror.claim.refused
    BY <1>4, UpdatedFields DEF Row!Mirrors
  <2>2. Row!Verdict(d) = "apply"
    BY <1>4 DEF Row!WritesStatus
  <2>3. CASE d.v >= mirror.statusAt
    BY <1>0, <1>4, <2>1, <2>2, <2>3 DEF Row!Larger
  <2>4. CASE d.v < mirror.statusAt
    <3>1. /\ d.kind = "incoming" /\ source[d.v].act >= source[mirror.statusAt].sec
          /\ mirror.statusAt \in 1..Row!Version
      BY <1>0, <1>4, <2>4 DEF Row!WritesStatus, Row!Reopens, RowInv
    <3>2. source[d.v].sec = source[mirror.statusAt].sec
      <4>1. source[d.v].act = source[d.v].sec
        BY <3>1 DEF SourceInv, PayloadsTell
      <4>2. source[d.v].sec <= source[mirror.statusAt].sec
        BY <1>0, <2>4, <3>1 DEF SourceInv, SecondsRise
      <4>. QED BY <3>1, <4>1, <4>2, <1>0, Sources
    <3>3. Status(d.v) = Status(mirror.statusAt)
      <4>. SUFFICES ASSUME Status(d.v) # Status(mirror.statusAt) PROVE FALSE
        OBVIOUS
      <4>0. mirror.statusAt \in d.v .. Row!Version
        BY <3>1, <2>4, <1>0
      <4>1. /\ Status(d.v) = "pending" /\ Status(mirror.statusAt) = "open"
            /\ mirror.claim.live /\ d.v <= taken.own
        BY <3>1, <3>2, <4>0 DEF StatusInv, ReopeningsHeld
      <4>2. mirror.claim.from = "pending" /\ ~(mirror.claim.stamped # 0 /\ d.v > mirror.claim.stamped)
        BY <4>1, <1>0, ClaimedRow
      <4>3. mirror.status # "resolved"
        BY <4>1, <1>4 DEF StatusInv, StatusIsPlaced
      <4>. QED BY <2>2, <4>1, <4>2, <4>3 DEF Row!Verdict, Row!StatusClaimVerdict, Status
    <3>. QED BY <1>0, <1>4, <2>1, <2>2, <2>4, <3>1, <3>3 DEF Row!Larger
  <2>. QED BY <2>3, <2>4, <1>0
<1>. QED BY <1>1, <1>2, <1>3, <1>4

LEMMA MirrorsStatusInv ==
    ASSUME ShapeInv, SourceInv, RowInv, ClickInv, ClaimInv, StatusInv, NEW d \in transit, Row!Mirrors(d)
    PROVE  StatusInv'
<1>. PICK n \in Nat \ {0} : n = Row!Version
  BY Sources
<1>0. /\ d.v \in 1..n /\ d.v \in Nat /\ mirror.statusAt \in Nat /\ d.kind \in Kinds
      /\ mirror.claim.refused \in Nat
      /\ source' = source /\ Row!Version' = n /\ transit' = transit \ {d} /\ taken' = taken
      /\ \A v \in Nat : Status(v)' = Status(v)
  BY DEF SourceInv, PayloadsTell, ShapeInv, RowOf, Claim, Row!Mirrors, Row!Version, Status
<1>1. AtWork' = AtWork
  BY MirrorsFrame
<1>2. \A v \in Nat : d = Event(v) => d.v = v /\ d.kind = "event"
  BY DEF Event
<1>3. /\ mirror'.claim.live = mirror.claim.live
      /\ mirror'.claim.refused \in Nat /\ mirror'.claim.refused >= mirror.claim.refused
  BY <1>0, StatusTaken DEF Row!Larger
<1>4. \A v \in 1..n : Deferred(v) => Deferred(v)'
  BY <1>0, <1>1, <1>3 DEF Deferred
<1>5. PICK w \in 1..n : /\ w >= mirror.statusAt /\ \A u \in w..n : Status(u) = Status(n)
                        /\ w = mirror.statusAt \/ Coming(w) \/ Deferred(w)
  BY DEF StatusInv, StatusIsComing
<1>6. \A u \in w..n : Status(u)' = Status(n)'
  BY <1>0, <1>5
<1>7. Coming(w) /\ d # Event(w) => Coming(w)'
  BY StillComing
<1>8. ReopeningsHeld'
  BY <1>0, <1>3 DEF StatusInv, ReopeningsHeld, Status
<1>9. CASE /\ mirror'.status = Status(d.v) /\ mirror'.statusAt = d.v /\ d.v >= mirror.statusAt
  <2>1. StatusIsPlaced'
    BY <1>0, <1>9 DEF StatusIsPlaced
  <2>2. CASE w <= d.v
    <3>1. d.v \in 1..Row!Version' /\ \A u \in d.v .. Row!Version' : Status(u)' = Status(Row!Version)'
      BY <1>5, <1>6, <2>2, <1>0
    <3>2. StatusIsComing'
      BY <3>1, <1>9, <1>0 DEF StatusIsComing
    <3>. QED BY <2>1, <3>2, <1>8 DEF StatusInv
  <2>3. CASE w > d.v
    <3>1. Coming(w)' \/ Deferred(w)'
      BY <1>5, <2>3, <1>9, <1>0, <1>2, <1>4, <1>7
    <3>2. w \in 1..Row!Version' /\ w >= mirror'.statusAt
      BY <1>5, <2>3, <1>0, <1>9
    <3>3. StatusIsComing'
      BY <3>1, <3>2, <1>6, <1>0 DEF StatusIsComing
    <3>. QED BY <2>1, <3>3, <1>8 DEF StatusInv
  <2>. QED BY <2>2, <2>3, <1>0
<1>10. CASE /\ mirror'.statusAt = mirror.statusAt /\ mirror.exists
            /\ \/ mirror'.status = Status(mirror.statusAt)
               \/ mirror'.status = mirror.status
            /\ d.kind = "event" =>
                      \/ d.v < mirror.statusAt
                      \/ Row!Verdict(d) = "defer" /\ mirror'.claim.refused = Row!Larger(mirror.claim.refused, d.v)
  <2>1. StatusIsPlaced'
    BY <1>0, <1>1, <1>10 DEF StatusInv, StatusIsPlaced
  <2>2. w = mirror'.statusAt \/ Coming(w)' \/ Deferred(w)'
    <3>1. CASE w = mirror.statusAt \/ Deferred(w) \/ (Coming(w) /\ d # Event(w))
      BY <3>1, <1>4, <1>7, <1>10
    <3>2. CASE d = Event(w) /\ w # mirror.statusAt
      <4>1. d.v = w /\ Row!Verdict(d) = "defer" /\ mirror'.claim.refused >= w
        BY <3>2, <1>0, <1>2, <1>5, <1>10 DEF Row!Larger
      <4>2. Status(w) = "pending" /\ (~AtWork => w <= mirror.statusAt)
        BY <4>1, RefusedIsPast DEF Row!Verdict, Status
      <4>. QED BY <4>1, <4>2, <3>2, <1>0, <1>1, <1>5 DEF Deferred
    <3>. QED BY <3>1, <3>2, <1>5
  <2>3. StatusIsComing'
    BY <2>2, <1>5, <1>6, <1>0, <1>10 DEF StatusIsComing
  <2>. QED BY <2>1, <2>3, <1>8 DEF StatusInv
<1>. QED
  <2>1. \/ /\ mirror'.status = Status(d.v) /\ mirror'.statusAt = d.v /\ d.v >= mirror.statusAt
        \/ /\ mirror'.status = Status(d.v) /\ mirror'.statusAt = mirror.statusAt /\ mirror.exists
           /\ Status(d.v) = Status(mirror.statusAt) /\ d.kind = "incoming"
        \/ /\ mirror'.status = mirror.status /\ mirror'.statusAt = mirror.statusAt /\ mirror.exists
           /\ d.kind = "event" =>
                      \/ d.v < mirror.statusAt
                      \/ Row!Verdict(d) = "defer" /\ mirror'.claim.refused = Row!Larger(mirror.claim.refused, d.v)
    BY StatusTaken
  <2>. QED BY <2>1, <1>9, <1>10

LEMMA MirrorsClaimInv ==
    ASSUME ShapeInv, SourceInv, RowInv, ClickInv, ClaimInv, StatusInv, NEW d \in transit, Row!Mirrors(d)
    PROVE  ClaimInv'
<1>. PICK n \in Nat \ {0} : n = Row!Version
  BY Sources
<1>0. /\ d.v \in 1..n /\ mirror.statusAt \in Nat /\ mirror'.statusAt \in Nat
      /\ mirror.claim.refused \in Nat
      /\ mirror.claim.stamped \in Nat
      /\ Row!Version' = n /\ taken' = taken /\ \A v \in Nat : Status(v)' = Status(v)
  BY MirrorsFrame DEF SourceInv, PayloadsTell, ShapeInv, RowOf, Claim, Row!Mirrors, Row!Version, Status
<1>1. AtWork' = AtWork /\ (takeover'.pc = "toggle" <=> takeover.pc = "toggle")
      /\ (takeover'.pc = "reconcile" => takeover.pc = "reconcile" /\ takeover'.live = takeover.live)
  BY MirrorsFrame DEF Row!Mirrors, Row!NoTakeover
<1>2. mirror'.exists /\ mirror'.statusAt >= mirror.statusAt
      /\ mirror'.claim.live = mirror.claim.live /\ mirror'.claim.from = mirror.claim.from
      /\ mirror'.claim.stamped = mirror.claim.stamped
  BY StatusTaken, <1>0
<1>3. /\ mirror'.claim.refused \in Nat /\ mirror'.claim.refused <= n
      /\ mirror'.claim.refused # 0 => Status(mirror'.claim.refused) = "pending"
      /\ ~AtWork => mirror'.claim.refused <= mirror'.statusAt
  <2>1. CASE mirror'.claim.refused = mirror.claim.refused
    BY <2>1, <1>0, <1>2 DEF ClaimInv, RowInv
  <2>2. CASE Row!Verdict(d) = "defer" /\ mirror'.claim.refused = Row!Larger(mirror.claim.refused, d.v)
    <3>1. Status(d.v) = "pending" /\ (~AtWork => d.v <= mirror.statusAt)
      BY <2>2, <1>0, RefusedIsPast DEF Row!Verdict, Status
    <3>. QED BY <3>1, <2>2, <1>0, <1>2 DEF Row!Larger, ClaimInv, RowInv
  <2>. QED BY <2>1, <2>2, StatusTaken
<1>4. /\ mirror'.claim.refused <= Row!Version'
      /\ mirror'.claim.refused # 0 => Status(mirror.claim.refused)' = "pending"
  BY <1>0, <1>3 DEF Status, Row!Mirrors
<1>5. mirror.claim.live => /\ taken.own \in Nat /\ Status(taken.own)' = Status(taken.own)
  BY <1>0 DEF ShapeInv
<1>. QED BY <1>0, <1>1, <1>2, <1>3, <1>4, <1>5, ClaimedRow DEF ClaimInv

LEMMA MirrorsTakenInv ==
    ASSUME ShapeInv, SourceInv, RowInv, ClaimInv, StatusInv, TakenInv, NEW d \in transit, Row!Mirrors(d)
    PROVE  TakenInv'
<1>0. /\ d.v \in 1..Row!Version /\ taken' = taken /\ mirror'.claim.live = mirror.claim.live
      /\ (Row!Returned(taken.reply) => Row!Returned(taken.reply)')
  BY StatusTaken DEF SourceInv, PayloadsTell, Row!Mirrors, Row!Returned, Row!Version
<1>. SUFFICES ASSUME mirror.claim.live PROVE TakenInv'
  BY <1>0 DEF TakenInv
<1>1. /\ mirror.exists /\ taken.reply \in Nat /\ mirror.statusAt \in Nat
      /\ ~Row!Straggles(d.v)
  BY ClaimedRow, ConstantsAssumption DEF Row!Mirrors
<1>2. mirror'.status = "pending" => Row!Returned(taken.reply)
  <2>1. CASE mirror'.status = mirror.status
    BY <2>1 DEF TakenInv
  <2>2. CASE mirror'.status = Status(d.v) /\ Row!Verdict(d) = "apply"
             /\ (d.v >= mirror.statusAt \/ Status(d.v) = Status(mirror.statusAt))
    BY <2>2, <1>0, PendingIsNews DEF Row!Verdict, Status
  <2>. QED BY <2>1, <2>2, <1>1, StatusTaken
<1>3. mirror'.status = "resolved" => taken.reply <= mirror'.statusAt
  <2>1. CASE mirror'.status = mirror.status /\ mirror'.statusAt = mirror.statusAt
    BY <2>1 DEF TakenInv
  <2>2. CASE mirror'.status = Status(d.v) /\ mirror'.statusAt = d.v
    BY <2>2, <1>0, <1>1 DEF Row!Straggles, Status
  <2>3. CASE mirror'.status = Status(d.v) /\ d.kind = "incoming"
    BY <2>3 DEF SourceInv, PayloadsTell
  <2>. QED BY <2>1, <2>2, <2>3, StatusTaken
<1>. QED BY <1>0, <1>2, <1>3 DEF TakenInv

-----------------------------------------------------------------------------
(* A live read that is written. *)

LEMMA ReconciledFields ==
    ASSUME ShapeInv, RowInv, mirror.exists, NEW v \in 1..Row!Version, NEW owner \in BOOLEAN
    PROVE  /\ Row!Reconciled(v, owner) \in RowOf /\ Row!Reconciled(v, owner).exists
           /\ Row!Reconciled(v, owner).console = mirror.console
           /\ Row!Reconciled(v, owner).claim.live = mirror.claim.live
           /\ Row!Reconciled(v, owner).claim.from = mirror.claim.from
           /\ Row!Reconciled(v, owner).claim.stamped = IF owner THEN v ELSE mirror.claim.stamped
           /\ Row!Reconciled(v, owner).claim.refused =
                IF owner THEN 0
                ELSE IF Row!LiveVerdict(v, owner) = "defer" THEN Row!Larger(mirror.claim.refused, v)
                     ELSE mirror.claim.refused
           /\ Row!DeferredWins(v, owner) => /\ Row!Reconciled(v, owner).status = mirror.claim.from
                                        /\ Row!Reconciled(v, owner).statusAt = mirror.claim.refused
           /\ ~Row!DeferredWins(v, owner) /\ Row!LiveVerdict(v, owner) = "apply" /\ v >= mirror.statusAt =>
                /\ Row!Reconciled(v, owner).status = Status(v) /\ Row!Reconciled(v, owner).statusAt = v
           /\ ~Row!DeferredWins(v, owner) /\ ~(Row!LiveVerdict(v, owner) = "apply" /\ v >= mirror.statusAt) =>
                /\ Row!Reconciled(v, owner).status = mirror.status
                /\ Row!Reconciled(v, owner).statusAt = mirror.statusAt
           /\ v >= mirror.assigneeAt => /\ Row!Reconciled(v, owner).holder = Holder(v)
                                        /\ Row!Reconciled(v, owner).assigneeAt = v
           /\ ~(v >= mirror.assigneeAt) => /\ Row!Reconciled(v, owner).holder = mirror.holder
                                           /\ Row!Reconciled(v, owner).assigneeAt = mirror.assigneeAt
<1>. DEFINE deferred == Row!DeferredWins(v, owner)
            ordered  == Row!LiveStatusOrdered(v, owner)
            holds    == Row!Ranks(v, mirror.assigneeAt)
            status   == IF deferred THEN mirror.claim.from
                        ELSE IF ordered THEN source[v].status ELSE mirror.status
            statusAt == IF deferred THEN mirror.claim.refused
                        ELSE IF ordered THEN Row!Larger(mirror.statusAt, v) ELSE mirror.statusAt
            person   == IF holds THEN source[v].holder ELSE mirror.holder
            assigneeAt == IF holds THEN Row!Larger(mirror.assigneeAt, v) ELSE mirror.assigneeAt
            act      == Row!Larger(mirror.act, source[v].act)
            stamped  == IF owner THEN v ELSE mirror.claim.stamped
            held  == IF owner THEN 0
                        ELSE IF Row!LiveVerdict(v, owner) = "defer" THEN Row!Larger(mirror.claim.refused, v)
                             ELSE mirror.claim.refused
            claim    == [mirror.claim EXCEPT !.stamped = stamped, !.refused = held]
<1>0. /\ v \in Nat /\ source[v].status \in Row!Statuses /\ source[v].holder \in Row!Holders /\ source[v].act \in Nat
      /\ mirror \in RowOf /\ mirror.status \in Row!Statuses /\ mirror.holder \in Row!Holders
      /\ mirror.statusAt \in Nat /\ mirror.assigneeAt \in Nat /\ mirror.act \in Nat
      /\ mirror.statusAt # 0 /\ mirror.assigneeAt # 0
      /\ mirror.claim \in Claim /\ mirror.claim.stamped \in Nat /\ mirror.claim.refused \in Nat
      /\ mirror.claim.from \in {"none", "pending"}
  <2>1. v \in Nat /\ source[v] \in State /\ mirror \in RowOf
    BY Sources DEF ShapeInv
  <2>2. mirror.claim \in Claim
    BY <2>1 DEF RowOf
  <2>3. mirror.claim.stamped \in Nat /\ mirror.claim.refused \in Nat
        /\ mirror.claim.from \in {"none", "pending"}
    BY <2>2 DEF Claim
  <2>4. /\ mirror.status \in Row!Statuses /\ mirror.holder \in Row!Holders
        /\ mirror.statusAt \in Nat /\ mirror.assigneeAt \in Nat /\ mirror.act \in Nat
    BY <2>1 DEF RowOf
  <2>5. source[v].status \in Row!Statuses /\ source[v].holder \in Row!Holders /\ source[v].act \in Nat
    BY <2>1 DEF State
  <2>. QED BY <2>1, <2>2, <2>3, <2>4, <2>5 DEF RowInv
<1>1. \A a, b \in Nat : Row!Larger(a, b) \in Nat
  BY DEF Row!Larger
<1>2. deferred => mirror.claim.from \in Row!Statuses
  BY <1>0 DEF Row!DeferredWins, Row!Statuses
<1>3. /\ status \in Row!Statuses /\ statusAt \in Nat /\ person \in Row!Holders /\ assigneeAt \in Nat /\ act \in Nat
      /\ stamped \in Nat /\ held \in Nat
  BY <1>0, <1>1, <1>2
<1>4. Row!Reconciled(v, owner) = [mirror EXCEPT !.status = status, !.statusAt = statusAt, !.holder = person,
                                !.assigneeAt = assigneeAt, !.act = act, !.claim = claim]
  <2>1. Row!Reconciled(v, owner) = [mirror EXCEPT !.status = status, !.statusAt = statusAt, !.holder = person,
                                  !.assigneeAt = assigneeAt, !.act = act, !.claim.stamped = stamped,
                                  !.claim.refused = held]
    BY Zenon DEF Row!Reconciled
  <2>. HIDE DEF deferred, ordered, holds, status, statusAt, person, assigneeAt, act, stamped, held
  <2>. QED BY <1>0, <2>1 DEF RowOf, Claim
<1>5. ordered <=> Row!LiveVerdict(v, owner) = "apply" /\ ~deferred /\ v >= mirror.statusAt
  BY <1>0 DEF Row!LiveStatusOrdered, Row!Ranks
<1>6. holds <=> v >= mirror.assigneeAt
  BY <1>0 DEF Row!Ranks
<1>. HIDE DEF deferred, ordered, holds, status, statusAt, person, assigneeAt, act, stamped, held
<1>7. /\ claim \in Claim /\ claim.live = mirror.claim.live /\ claim.from = mirror.claim.from
      /\ claim.stamped = stamped /\ claim.refused = held
  BY <1>0, <1>3 DEF Claim
<1>. HIDE DEF claim
<1>8. /\ Row!Reconciled(v, owner) \in RowOf /\ Row!Reconciled(v, owner).exists
      /\ Row!Reconciled(v, owner).console = mirror.console
      /\ Row!Reconciled(v, owner).claim = claim /\ Row!Reconciled(v, owner).status = status
      /\ Row!Reconciled(v, owner).statusAt = statusAt /\ Row!Reconciled(v, owner).holder = person
      /\ Row!Reconciled(v, owner).assigneeAt = assigneeAt
  BY <1>0, <1>3, <1>4, <1>7 DEF RowOf
<1>9. /\ v >= mirror.statusAt => Row!Larger(mirror.statusAt, v) = v
      /\ v >= mirror.assigneeAt => Row!Larger(mirror.assigneeAt, v) = v
  BY <1>0 DEF Row!Larger
<1>. QED BY <1>5, <1>6, <1>7, <1>8, <1>9
     DEF deferred, status, statusAt, person, assigneeAt, stamped, held, Status, Holder

LEMMA ReconciledFrame ==
    ASSUME ShapeInv, SourceInv, RowInv, ClickInv, mirror.exists, NEW v \in 1..Row!Version, NEW owner \in BOOLEAN,
           mirror' = Row!Reconciled(v, owner), UNCHANGED <<source, transit>>
    PROVE  /\ mirror' \in RowOf /\ mirror'.exists /\ mirror'.console = mirror.console
           /\ mirror'.statusAt <= Row!Version /\ mirror'.assigneeAt <= Row!Version
           /\ mirror'.statusAt # 0 /\ mirror'.assigneeAt # 0
           /\ mirror'.claim.refused <= Row!Version /\ SourceInv'
<1>1. /\ mirror.statusAt \in 1..Row!Version /\ mirror.assigneeAt \in 1..Row!Version
      /\ mirror.claim.refused \in 0..Row!Version /\ Row!Version \in Nat
      /\ Row!Larger(mirror.claim.refused, v) \in 0..Row!Version
  BY Sources DEF RowInv, ShapeInv, RowOf, Claim, Row!Larger
<1>2. Row!DeferredWins(v, owner) => mirror.claim.refused > v
  BY DEF Row!DeferredWins
<1>3. SourceInv'
  BY DEF SourceInv, SecondsRise, ReturnsAreSteps, PayloadsTell, Row!Version, Status, Holder
<1>. QED BY <1>1, <1>2, <1>3, ReconciledFields

LEMMA ReconciledHolderInv ==
    ASSUME ShapeInv, SourceInv, RowInv, HolderInv, mirror.exists,
           NEW v \in 1..Row!Version, NEW owner \in BOOLEAN,
           mirror' = Row!Reconciled(v, owner), UNCHANGED <<source, transit>>
    PROVE  HolderInv'
<1>. PICK n \in Nat \ {0} : n = Row!Version
  BY Sources
<1>0. /\ mirror.assigneeAt \in 1..n /\ Row!Version' = n
      /\ \A u \in Nat : Holder(u)' = Holder(u) /\ Coming(u)' = Coming(u)
  BY DEF RowInv, ShapeInv, RowOf, Row!Version, Holder, Coming, Event
<1>1. CASE v >= mirror.assigneeAt
  <2>0. mirror'.holder = Holder(v) /\ mirror'.assigneeAt = v
    BY <1>1, ReconciledFields
  <2>1. HolderIsComing'
    <3>1. PICK w \in 1..n : /\ w >= mirror.assigneeAt /\ \A u \in w..n : Holder(u) = Holder(n)
                            /\ w = mirror.assigneeAt \/ Coming(w)
      BY DEF HolderInv, HolderIsComing
    <3>2. CASE w <= v
      <4>1. v \in 1..Row!Version' /\ \A u \in v..Row!Version' : Holder(u)' = Holder(Row!Version)'
        BY <3>1, <3>2, <1>0
      <4>. QED BY <4>1, <2>0, <1>0 DEF HolderIsComing
    <3>3. CASE w > v
      <4>1. Coming(w)'
        BY <3>1, <3>3, <1>1, <1>0
      <4>2. w \in 1..Row!Version' /\ w >= mirror'.assigneeAt /\ \A u \in w..Row!Version' : Holder(u)' = Holder(Row!Version)'
        BY <3>1, <3>3, <1>0, <2>0
      <4>. QED BY <4>1, <4>2 DEF HolderIsComing
    <3>. QED BY <3>2, <3>3, <1>0
  <2>2. HolderIsPlaced'
    BY <1>0, <2>0 DEF HolderIsPlaced
  <2>3. DegradedInv'
    <3>. SUFFICES ASSUME NEW e \in transit, e.kind = "degraded"
                  PROVE  \/ Coming(e.v)' \/ e.v < mirror'.assigneeAt
                         \/ e.v = mirror'.assigneeAt /\ mirror'.holder = "person"
      BY DEF DegradedInv
    <3>1. /\ e.v \in 1..n /\ Holder(e.v) = "person"
          /\ \/ Coming(e.v) \/ e.v < mirror.assigneeAt
             \/ e.v = mirror.assigneeAt /\ mirror.holder = "person"
      BY DEF SourceInv, PayloadsTell, HolderInv, DegradedInv
    <3>. QED BY <3>1, <1>0, <1>1, <2>0
  <2>. QED BY <2>1, <2>2, <2>3 DEF HolderInv
<1>2. CASE ~(v >= mirror.assigneeAt)
  <2>0. mirror'.holder = mirror.holder /\ mirror'.assigneeAt = mirror.assigneeAt
    BY <1>2, ReconciledFields
  <2>1. HolderIsComing'
    BY <1>0, <2>0 DEF HolderInv, HolderIsComing, Coming, Holder, Row!Version, Event
  <2>2. HolderIsPlaced' /\ DegradedInv'
    BY <1>0, <2>0 DEF HolderInv, HolderIsPlaced, DegradedInv, Coming, Event, Holder
  <2>. QED BY <2>1, <2>2 DEF HolderInv
<1>. QED BY <1>1, <1>2

\* The claim's owner writes what it read after its transition: whatever was held back is settled.
LEMMA OwnReconcile ==
    ASSUME ShapeInv, SourceInv, RowInv, ClickInv, ClaimInv, StatusInv, TakenInv, Row!TakeoverReconciles
    PROVE  ClaimInv' /\ StatusInv' /\ TakenInv'
<1>. PICK n \in Nat \ {0} : n = Row!Version
  BY Sources
<1>. PICK owner \in BOOLEAN : owner
  OBVIOUS
<1>. DEFINE v == takeover.live
            r == mirror.claim.refused
            own == taken.own
<1>0. /\ AtWork /\ mirror.claim.live /\ takeover.pc = "reconcile" /\ takeover'.pc = "idle" /\ ~AtWork'
      /\ mirror' = Row!Reconciled(v, owner) /\ UNCHANGED <<source, transit, taken>>
  <2>1. mirror' = Row!Reconciled(v, owner)
    <3>1. owner = TRUE
      OBVIOUS
    <3>. QED BY <3>1, Zenon DEF Row!TakeoverReconciles
  <2>. QED BY <2>1 DEF Row!TakeoverReconciles, AtWork, Row!TakeoverEnds, Row!NoTakeover, ClaimInv
<1>1. /\ mirror.exists /\ mirror.claim.from = "pending" /\ mirror.statusAt \in 1..n
      /\ taken.reply \in 1..n /\ own \in 1..n /\ taken.reply <= own /\ Status(own) = "open"
  BY <1>0, ClaimedRow
<1>2. /\ v \in 1..n /\ own <= v /\ r \in Nat /\ r <= n /\ (r # 0 => Status(r) = "pending")
  <2>1. r \in Nat
    BY DEF ShapeInv, RowOf, Claim
  <2>2. v \in Nat /\ own \in Nat
    BY DEF ShapeInv, TakeoverOf
  <2>. QED BY <2>1, <2>2, <1>0, <1>1 DEF ClaimInv, RowInv
<1>3. /\ Row!Version' = n /\ \A u \in Nat : Status(u)' = Status(u) /\ Coming(u)' = Coming(u)
      /\ \A a \in Nat : Row!Returned(a)' = Row!Returned(a)
  BY <1>0 DEF Row!Version, Status, Coming, Event, Row!Returned
<1>4. /\ mirror'.exists /\ mirror'.claim.live /\ mirror'.claim.from = "pending"
      /\ mirror'.claim.stamped = v /\ mirror'.claim.refused = 0
      /\ Row!DeferredWins(v, owner) => mirror'.status = "pending" /\ mirror'.statusAt = r
      /\ ~Row!DeferredWins(v, owner) /\ Row!LiveVerdict(v, owner) = "apply" /\ v >= mirror.statusAt =>
           mirror'.status = Status(v) /\ mirror'.statusAt = v
      /\ ~Row!DeferredWins(v, owner) /\ ~(Row!LiveVerdict(v, owner) = "apply" /\ v >= mirror.statusAt) =>
           mirror'.status = mirror.status /\ mirror'.statusAt = mirror.statusAt
  BY <1>0, <1>1, <1>2, ReconciledFields
<1>5. /\ Row!DeferredWins(v, owner) <=> r > v /\ r > mirror.statusAt
      /\ Row!LiveVerdict(v, owner) = "apply"
  BY <1>1 DEF Row!DeferredWins, Row!LiveVerdict
<1>6. CASE r > v /\ r > mirror.statusAt
  <2>1. mirror'.status = "pending" /\ mirror'.statusAt = r /\ Status(r) = "pending" /\ r \in 1..n
    <3>1. mirror'.status = "pending" /\ mirror'.statusAt = r
      BY <1>4, <1>5, <1>6, Zenon
    <3>. QED BY <3>1, <1>1, <1>2, <1>6
  <2>. HIDE DEF v, r, own
  <2>2. StatusIsComing'
    <3>1. PICK w \in 1..n : /\ w >= mirror.statusAt /\ \A u \in w..n : Status(u) = Status(n)
                            /\ w = mirror.statusAt \/ Coming(w) \/ Deferred(w)
      BY DEF StatusInv, StatusIsComing
    <3>2. CASE w <= r
      <4>1. r \in 1..Row!Version' /\ \A u \in r..Row!Version' : Status(u)' = Status(Row!Version)'
        BY <3>1, <3>2, <2>1, <1>3
      <4>. QED BY <4>1, <2>1, <1>3 DEF StatusIsComing
    <3>3. CASE w > r
      <4>1. Coming(w)'
        BY <3>1, <3>3, <1>2, <1>3, <1>6, <2>1 DEF Deferred, r
      <4>2. w \in 1..Row!Version' /\ w >= mirror'.statusAt /\ \A u \in w..Row!Version' : Status(u)' = Status(Row!Version)'
        BY <3>1, <3>3, <1>3, <2>1
      <4>. QED BY <4>1, <4>2 DEF StatusIsComing
    <3>. QED BY <3>2, <3>3, <2>1
  <2>3. mirror'.status = Status(mirror'.statusAt)
    BY <2>1
  <2>4. v <= mirror'.statusAt /\ mirror'.statusAt \in Nat
    BY <1>2, <1>6, <2>1
  <2>5. Row!Returned(taken.reply)
    <3>1. own < r /\ taken.reply \in Nat
      BY <1>1, <1>2, <1>6, <2>1
    <3>. QED BY <3>1, <1>1, <2>1, ReturnedBetween
  <2>6. mirror'.status # "resolved"
    BY <2>1
  <2>7. ClaimInv'
    <3>1. /\ Status(taken.own)' = "open" /\ taken'.own <= mirror'.claim.stamped
          /\ taken'.reply <= taken'.own /\ 1 <= taken'.reply /\ taken'.own <= Row!Version'
          /\ mirror'.claim.stamped <= mirror'.statusAt
      <4>1. taken' = taken /\ source' = source
        BY <1>0
      <4>2. Status(taken.own)' = "open"
        BY <4>1, <1>1 DEF Status, own
      <4>3. taken.own <= v /\ taken.reply <= taken.own /\ 1 <= taken.reply /\ taken.own <= n
        BY <1>1, <1>2 DEF own
      <4>. QED BY <4>1, <4>2, <4>3, <2>4, <1>3, <1>4
    <3>2. 0 <= Row!Version' /\ 0 <= mirror'.statusAt
      BY <2>4, <1>3
    <3>. QED BY <3>1, <3>2, <1>0, <1>4 DEF ClaimInv
  <2>8. StatusIsPlaced'
    BY <2>3, <1>0 DEF StatusIsPlaced, Status
  <2>9. ReopeningsHeld'
    BY <1>0, <1>3, <1>4 DEF StatusInv, ReopeningsHeld, Status
  <2>10. TakenInv'
    BY <2>5, <2>6, <1>0 DEF TakenInv, Row!Returned, Row!Version
  <2>. QED BY <2>2, <2>7, <2>8, <2>9, <2>10 DEF StatusInv
<1>7. CASE ~(r > v /\ r > mirror.statusAt)
  <2>1. \/ v >= mirror.statusAt /\ mirror'.status = Status(v) /\ mirror'.statusAt = v
        \/ v < mirror.statusAt /\ mirror'.status = mirror.status /\ mirror'.statusAt = mirror.statusAt
    <3>1. ~Row!DeferredWins(v, owner) /\ Row!LiveVerdict(v, owner) = "apply"
      BY <1>5, <1>7, Zenon
    <3>2. \/ v >= mirror.statusAt /\ mirror'.status = Status(v) /\ mirror'.statusAt = v
          \/ ~(v >= mirror.statusAt) /\ mirror'.status = mirror.status /\ mirror'.statusAt = mirror.statusAt
      BY <1>4, <3>1, Zenon
    <3>. QED BY <3>2, <1>1, <1>2
  <2>. HIDE DEF v, r, own
  <2>2. StatusIsComing'
    <3>1. PICK w \in 1..n : /\ w >= mirror.statusAt /\ \A u \in w..n : Status(u) = Status(n)
                            /\ w = mirror.statusAt \/ Coming(w) \/ Deferred(w)
      BY DEF StatusInv, StatusIsComing
    <3>2. CASE mirror'.statusAt = v /\ w <= v
      <4>1. v \in 1..Row!Version' /\ \A u \in v..Row!Version' : Status(u)' = Status(Row!Version)'
        BY <3>1, <3>2, <1>2, <1>3
      <4>. QED BY <4>1, <3>2, <1>3 DEF StatusIsComing
    <3>3. CASE mirror'.statusAt = v /\ w > v /\ v >= mirror.statusAt
      <4>1. Coming(w)'
        BY <3>1, <3>3, <1>1, <1>2, <1>3, <1>7 DEF Deferred, r
      <4>2. w \in 1..Row!Version' /\ w >= mirror'.statusAt /\ \A u \in w..Row!Version' : Status(u)' = Status(Row!Version)'
        BY <3>1, <3>3, <1>2, <1>3
      <4>. QED BY <4>1, <4>2 DEF StatusIsComing
    <3>4. CASE mirror'.statusAt = mirror.statusAt /\ v < mirror.statusAt
      <4>1. w = mirror'.statusAt \/ Coming(w)'
        BY <3>1, <3>4, <1>1, <1>2, <1>3, <1>7 DEF Deferred, r
      <4>2. w \in 1..Row!Version' /\ w >= mirror'.statusAt /\ \A u \in w..Row!Version' : Status(u)' = Status(Row!Version)'
        BY <3>1, <3>4, <1>1, <1>2, <1>3
      <4>. QED BY <4>1, <4>2 DEF StatusIsComing
    <3>. QED BY <3>2, <3>3, <3>4, <2>1, <1>1, <1>2
  <2>3. mirror'.status = Status(mirror'.statusAt)
    <3>1. mirror.status = Status(mirror.statusAt) \/ mirror.statusAt <= own
      BY <1>1 DEF StatusInv, StatusIsPlaced, own
    <3>2. v < mirror.statusAt => ~(mirror.statusAt <= own)
      BY <1>1, <1>2
    <3>3. CASE v >= mirror.statusAt /\ mirror'.status = Status(v) /\ mirror'.statusAt = v
      BY <3>3
    <3>4. CASE v < mirror.statusAt /\ mirror'.status = mirror.status /\ mirror'.statusAt = mirror.statusAt
      BY <3>1, <3>2, <3>4
    <3>. QED BY <2>1, <3>3, <3>4
  <2>4. v <= mirror'.statusAt /\ mirror'.statusAt \in Nat
    BY <1>1, <1>2, <2>1
  <2>5. mirror'.status = "pending" => Row!Returned(taken.reply)
    <3>1. CASE mirror'.status = Status(v) /\ Status(v) = "pending"
      <4>1. own < v /\ taken.reply \in Nat
        BY <1>1, <1>2, <3>1
      <4>. QED BY <4>1, <3>1, <1>1, <1>2, ReturnedBetween
    <3>. QED BY <3>1, <2>1, <1>0 DEF TakenInv
  <2>6. taken.reply <= mirror'.statusAt
    BY <1>1, <1>2, <2>1, <2>4
  <2>7. ClaimInv'
    <3>1. /\ Status(taken.own)' = "open" /\ taken'.own <= mirror'.claim.stamped
          /\ taken'.reply <= taken'.own /\ 1 <= taken'.reply /\ taken'.own <= Row!Version'
          /\ mirror'.claim.stamped <= mirror'.statusAt
      <4>1. taken' = taken /\ source' = source
        BY <1>0
      <4>2. Status(taken.own)' = "open"
        BY <4>1, <1>1 DEF Status, own
      <4>3. taken.own <= v /\ taken.reply <= taken.own /\ 1 <= taken.reply /\ taken.own <= n
        BY <1>1, <1>2 DEF own
      <4>. QED BY <4>1, <4>2, <4>3, <2>4, <1>3, <1>4
    <3>2. 0 <= Row!Version' /\ 0 <= mirror'.statusAt
      BY <2>4, <1>3
    <3>. QED BY <3>1, <3>2, <1>0, <1>4 DEF ClaimInv
  <2>8. StatusIsPlaced'
    BY <2>3, <1>0 DEF StatusIsPlaced, Status
  <2>9. ReopeningsHeld'
    BY <1>0, <1>3, <1>4 DEF StatusInv, ReopeningsHeld, Status
  <2>10. TakenInv'
    BY <2>5, <2>6, <1>0 DEF TakenInv, Row!Returned, Row!Version
  <2>. QED BY <2>2, <2>7, <2>8, <2>9, <2>10 DEF StatusInv
<1>. QED BY <1>6, <1>7

\* Somebody else's read is judged as a payload is.
LEMMA ReadReconcile ==
    ASSUME ShapeInv, SourceInv, RowInv, ClickInv, ClaimInv, StatusInv, TakenInv, mirror.exists,
           NEW v \in 1..Row!Version, ~Row!Straggles(v), NEW owner \in BOOLEAN, ~owner,
           mirror' = Row!Reconciled(v, owner),
           UNCHANGED <<source, transit, taken, takeover>>
    PROVE  ClaimInv' /\ StatusInv' /\ TakenInv'
<1>. PICK n \in Nat \ {0} : n = Row!Version
  BY Sources
<1>. DEFINE r == mirror.claim.refused
<1>0. /\ mirror.statusAt \in 1..n /\ r \in Nat /\ mirror.claim.stamped \in Nat /\ v \in 1..n
      /\ AtWork' = AtWork /\ Row!LiveVerdict(v, owner) = Row!StatusClaimVerdict(Status(v), owner, v)
      /\ ~Row!DeferredWins(v, owner)
  <2>1. mirror.statusAt \in 1..n /\ r \in Nat /\ mirror.claim.stamped \in Nat /\ v \in 1..n
    BY DEF RowInv, ShapeInv, RowOf, Claim
  <2>2. owner = FALSE
    OBVIOUS
  <2>3. Row!LiveVerdict(v, owner) = Row!StatusClaimVerdict(Status(v), owner, v)
    BY <2>2, Zenon DEF Row!LiveVerdict, Status
  <2>. QED BY <2>1, <2>3 DEF AtWork, Row!DeferredWins
<1>1. /\ Row!Version' = n /\ \A u \in Nat : Status(u)' = Status(u) /\ Coming(u)' = Coming(u)
      /\ \A a \in Nat : Row!Returned(a)' = Row!Returned(a)
  BY DEF Row!Version, Status, Coming, Event, Row!Returned
<1>2. /\ mirror'.exists /\ mirror'.claim.live = mirror.claim.live /\ mirror'.claim.from = mirror.claim.from
      /\ mirror'.claim.stamped = mirror.claim.stamped
      /\ mirror'.claim.refused = IF Row!LiveVerdict(v, owner) = "defer" THEN Row!Larger(r, v) ELSE r
      /\ \/ v >= mirror.statusAt /\ Row!LiveVerdict(v, owner) = "apply"
            /\ mirror'.status = Status(v) /\ mirror'.statusAt = v
         \/ mirror'.status = mirror.status /\ mirror'.statusAt = mirror.statusAt
  BY <1>0, ReconciledFields
<1>3. /\ mirror'.claim.refused \in Nat /\ mirror'.claim.refused <= n /\ mirror'.claim.refused >= r
      /\ mirror'.claim.refused # 0 => Status(mirror'.claim.refused) = "pending"
      /\ ~AtWork => mirror'.claim.refused <= mirror'.statusAt
  <2>1. CASE Row!LiveVerdict(v, owner) = "defer"
    <3>1. Status(v) = "pending" /\ (~AtWork => v <= mirror.statusAt)
      BY <2>1, <1>0, RefusedIsPast
    <3>. QED BY <3>1, <2>1, <1>0, <1>2 DEF Row!Larger, ClaimInv, RowInv
  <2>2. CASE Row!LiveVerdict(v, owner) # "defer"
    BY <2>2, <1>0, <1>2 DEF ClaimInv, RowInv
  <2>. QED BY <2>1, <2>2
<1>. HIDE DEF r
<1>4. ClaimInv'
  <2>1. mirror'.statusAt >= mirror.statusAt /\ mirror'.statusAt \in Nat
    BY <1>0, <1>2
  <2>. QED BY <2>1, <1>0, <1>1, <1>2, <1>3, ClaimedRow DEF ClaimInv, Status
<1>5. StatusIsComing'
  <2>1. PICK w \in 1..n : /\ w >= mirror.statusAt /\ \A u \in w..n : Status(u) = Status(n)
                          /\ w = mirror.statusAt \/ Coming(w) \/ Deferred(w)
    BY DEF StatusInv, StatusIsComing
  <2>2. \A u \in w..Row!Version' : Status(u)' = Status(Row!Version)'
    BY <2>1, <1>1
  <2>3. Deferred(w) => Deferred(w)'
    BY <2>1, <1>0, <1>1, <1>3 DEF Deferred, r
  <2>4. CASE mirror'.statusAt = v /\ w <= v
    <3>1. v \in 1..Row!Version' /\ \A u \in v..Row!Version' : Status(u)' = Status(Row!Version)'
      BY <2>1, <2>2, <2>4, <1>0, <1>1
    <3>. QED BY <3>1, <2>4, <1>0 DEF StatusIsComing
  <2>5. CASE mirror'.statusAt = v /\ w > v /\ v >= mirror.statusAt
    <3>1. w \in 1..Row!Version' /\ w >= mirror'.statusAt /\ (Coming(w)' \/ Deferred(w)')
      BY <2>1, <2>3, <2>5, <1>0, <1>1
    <3>. QED BY <3>1, <2>2 DEF StatusIsComing
  <2>6. CASE mirror'.statusAt = mirror.statusAt
    <3>1. w \in 1..Row!Version' /\ w >= mirror'.statusAt /\ (w = mirror'.statusAt \/ Coming(w)' \/ Deferred(w)')
      BY <2>1, <2>3, <2>6, <1>0, <1>1
    <3>. QED BY <3>1, <2>2 DEF StatusIsComing
  <2>. QED BY <2>4, <2>5, <2>6, <1>0, <1>2
<1>6. StatusIsPlaced' /\ ReopeningsHeld'
  <2>1. StatusIsPlaced'
    BY <1>0, <1>1, <1>2 DEF StatusInv, StatusIsPlaced, Status
  <2>2. ReopeningsHeld'
    BY <1>1, <1>2 DEF StatusInv, ReopeningsHeld, Status
  <2>. QED BY <2>1, <2>2
<1>7. TakenInv'
  <2>. SUFFICES ASSUME mirror.claim.live PROVE TakenInv'
    BY <1>2 DEF TakenInv
  <2>1. taken.reply \in Nat
    BY ClaimedRow
  <2>2. CASE mirror'.status = mirror.status /\ mirror'.statusAt = mirror.statusAt
    BY <2>1, <2>2, <1>1, <1>2 DEF TakenInv
  <2>3. CASE v >= mirror.statusAt /\ Row!LiveVerdict(v, owner) = "apply"
             /\ mirror'.status = Status(v) /\ mirror'.statusAt = v
    <3>1. Status(v) = "pending" => Row!Returned(taken.reply)
      BY <2>3, <1>0, PendingIsNews
    <3>2. Status(v) = "resolved" => taken.reply <= v
      BY <2>1, <1>0 DEF Row!Straggles, Status
    <3>. QED BY <3>1, <3>2, <2>1, <2>3, <1>1 DEF TakenInv
  <2>. QED BY <2>2, <2>3, <1>2
<1>. QED BY <1>4, <1>5, <1>6, <1>7 DEF StatusInv

-----------------------------------------------------------------------------
(* The steps, one by one. *)

\* A step of a takeover or of a click that leaves the row and the source alone.
LEMMA StillStep ==
    ASSUME MInv, UNCHANGED <<source, transit, mirror, taken>>,
           takeover' \in TakeoverOf, click' \in ClickOf, unplaced' \in BOOLEAN, clicks' \in Nat, upsets' \in Nat,
           unplaced => unplaced', RowInv', ClickInv',
           ~unplaced' => /\ AtWork' = AtWork /\ (takeover.pc = "toggle" => takeover'.pc = "toggle")
                         /\ takeover'.pc = "reconcile" => taken.own <= takeover'.live
    PROVE  MInv'
<1>1. ShapeInv'
  BY DEF MInv, ShapeInv
<1>2. SourceInv'
  BY DEF MInv, SourceInv, SecondsRise, ReturnsAreSteps, PayloadsTell, Row!Version, Status, Holder
<1>3. ASSUME ~unplaced' PROVE PlacedInv'
  <2>0. PlacedInv /\ AtWork' = AtWork
    BY <1>3 DEF MInv
  <2>1. HolderInv'
    BY <2>0 DEF PlacedInv, HolderInv, HolderIsComing, HolderIsPlaced, DegradedInv, Coming, Event, Holder,
       Row!Version
  <2>2. ClaimInv'
    BY <2>0, <1>3 DEF PlacedInv, ClaimInv, Status, Row!Version
  <2>3. StatusIsComing'
    BY <2>0 DEF PlacedInv, StatusInv, StatusIsComing, Deferred, Coming, Event, Status, Row!Version
  <2>4. StatusIsPlaced' /\ ReopeningsHeld'
    BY <2>0 DEF PlacedInv, StatusInv, StatusIsPlaced, ReopeningsHeld, Status, Row!Version
  <2>5. TakenInv'
    BY <2>0 DEF PlacedInv, TakenInv, Row!Returned, Row!Version
  <2>. QED BY <2>1, <2>2, <2>3, <2>4, <2>5 DEF PlacedInv, StatusInv
<1>. QED BY <1>1, <1>2, <1>3 DEF MInv

\* A write of the source that leaves the row and the takeover alone.
LEMMA WriteStep ==
    ASSUME MInv, NEW state, NEW kinds, Fits(state, kinds), Wrote(state, kinds), OnTime(state),
           UNCHANGED <<mirror, takeover, taken, unplaced>>,
           click' \in ClickOf, clicks' \in Nat, upsets' \in Nat,
           click' = click \/ (mirror.exists /\ click'.pc # "mirror")
    PROVE  MInv'
<1>0. ShapeInv /\ SourceInv /\ RowInv /\ ClickInv
  BY DEF MInv
<1>1. ShapeInv'
  BY <1>0, WroteShape DEF ShapeInv
<1>2. SourceInv'
  BY <1>0, WroteSourceInv
<1>3. RowInv'
  <2>1. Row!Version \in Nat /\ Row!Version' = Row!Version + 1
    BY <1>0, WroteNumbers
  <2>2. mirror.statusAt \in Nat /\ mirror.assigneeAt \in Nat /\ takeover.reply \in Nat /\ click.live \in Nat
    BY <1>0 DEF ShapeInv, RowOf, TakeoverOf, ClickOf
  <2>3. takeover.live \in Nat /\ mirror.claim.refused \in Nat
    BY <1>0 DEF ShapeInv, RowOf, Claim, TakeoverOf
  <2>. QED BY <1>0, <2>1, <2>2, <2>3 DEF RowInv
<1>4. ClickInv'
  BY <1>0 DEF ClickInv
<1>5. ASSUME ~unplaced PROVE PlacedInv'
  <2>0. PlacedInv /\ AtWork' = AtWork
    BY <1>5 DEF MInv, AtWork
  <2>1. HolderInv'
    BY <1>0, <2>0, WroteHolderInv DEF PlacedInv
  <2>2. taken'.own \in Nat /\ taken.own <= taken'.own
    BY <1>0 DEF ShapeInv
  <2>3. StatusInv'
    BY <1>0, <2>0, <2>2, WroteStatusInv DEF PlacedInv
  <2>4. ClaimInv'
    <3>1. /\ Row!Version \in Nat /\ Row!Version' = Row!Version + 1 /\ mirror.claim.refused \in Nat /\ takeover.live \in Nat
          /\ mirror.claim.live => taken.own \in 1..Row!Version
          /\ mirror.claim.refused # 0 => mirror.claim.refused \in 1..Row!Version
          /\ \A v \in 1..Row!Version : Status(v)' = Status(v)
      <4>1. mirror.claim.refused \in Nat /\ takeover.live \in Nat
        BY <1>0 DEF ShapeInv, RowOf, Claim, TakeoverOf
      <4>2. mirror.claim.live => taken.own \in 1..Row!Version
        BY <1>0, <2>0, ClaimedRow DEF PlacedInv
      <4>3. mirror.claim.refused <= Row!Version
        BY <1>0 DEF RowInv
      <4>4. /\ Row!Version \in Nat /\ Row!Version' = Row!Version + 1
            /\ \A v \in 1..Row!Version : Status(v)' = Status(v)
        BY <1>0, WroteNumbers
      <4>. QED BY <4>1, <4>2, <4>3, <4>4
    <3>2. /\ mirror.claim.live => Status(taken.own)' = Status(taken.own)
          /\ mirror.claim.refused # 0 => Status(mirror.claim.refused)' = Status(mirror.claim.refused)
      BY <3>1 DEF Status
    <3>. QED BY <3>1, <3>2, <2>0 DEF PlacedInv, ClaimInv
  <2>5. TakenInv'
    <3>1. mirror.claim.live => taken.reply \in Nat \ {0}
      BY <1>0, <2>0, Sources, ClaimedRow DEF PlacedInv
    <3>2. mirror.claim.live /\ Row!Returned(taken.reply) => Row!Returned(taken.reply)'
      BY <3>1, <1>0, WroteReturned DEF Row!Returned
    <3>. QED BY <3>2, <2>0 DEF PlacedInv, TakenInv
  <2>. QED BY <2>1, <2>3, <2>4, <2>5 DEF PlacedInv
<1>. QED BY <1>1, <1>2, <1>3, <1>4, <1>5 DEF MInv

\* What a commit writes.
LEMMA CommitsWrites ==
    ASSUME ShapeInv, NEW state \in State, NEW kinds \in SUBSET Kinds, NEW s \in Nat, s >= Row!Now.sec,
           Row!Commits(state, kinds, s),
           "event" \in kinds \/ (state.status = Row!Now.status /\ state.holder = Row!Now.holder),
           "incoming" \in kinds => state.status # "resolved" /\ state.msg # Row!Now.msg,
           "degraded" \in kinds => "event" \in kinds /\ state.holder = "person"
    PROVE  \E written : /\ Fits(written, kinds) /\ Wrote(written, kinds)
                        /\ written.sec = s /\ written.status = state.status
<1>. DEFINE act == IF state.msg = Row!Now.msg THEN state.act ELSE s
            written == [state EXCEPT !.sec = s, !.act = act]
<1>1. /\ written \in State /\ written.sec = s /\ written.act = act
      /\ written.status = state.status /\ written.holder = state.holder
  BY DEF State
<1>2. Wrote(written, kinds)
  BY DEF Row!Commits, Wrote, State
<1>3. Fits(written, kinds)
  BY <1>1 DEF Fits
<1>. QED BY <1>1, <1>2, <1>3

\* ... and a request to set something, which may find it set.
LEMMA SetsWrites ==
    ASSUME ShapeInv, NEW state \in State, NEW s \in Nat, s >= Row!Now.sec, Row!Sets(state, s)
    PROVE  \/ UNCHANGED <<source, transit>> /\ state = Row!Now
           \/ \E written : /\ Fits(written, {"event"}) /\ Wrote(written, {"event"})
                           /\ written.sec = s /\ written.status = state.status
<1>1. CASE state = Row!Now
  BY <1>1 DEF Row!Sets
<1>2. CASE state # Row!Now
  <2>1. {"event"} \in SUBSET Kinds /\ Row!Commits(state, {"event"}, s)
    BY <1>2 DEF Row!Sets, Kinds
  <2>. QED BY <2>1, CommitsWrites
<1>. QED BY <1>1, <1>2

LEMMA Seconds ==
    ASSUME ShapeInv
    PROVE  /\ Row!Now \in State /\ Row!Now.sec \in Nat /\ Row!This \in Nat /\ Row!Later \in Nat
           /\ Row!This >= Row!Now.sec /\ Row!Later > Row!Now.sec /\ Row!Later >= Row!Now.sec
           /\ Row!Spoken \in State /\ Row!Spoken.msg # Row!Now.msg /\ Row!Spoken.status = Row!Now.status /\ Row!Spoken.holder = Row!Now.holder
BY Sources DEF State, Row!This, Row!Later, Row!Spoken

LEMMA CustomerWritesStep == MInv /\ Row!CustomerWrites => MInv'
<1> SUFFICES ASSUME MInv, Row!CustomerWrites PROVE MInv'  OBVIOUS
<1>0. ShapeInv /\ click \in ClickOf /\ clicks \in Nat /\ upsets \in Nat
      /\ UNCHANGED <<mirror, takeover, click, taken, unplaced, clicks, upsets>>
  BY DEF MInv, ShapeInv, Row!CustomerWrites
<1>1. ASSUME NEW s \in {Row!This, Row!Later}, Row!Now.status = "resolved",
             Row!Commits([Row!Spoken EXCEPT !.status = "pending"], {"incoming", "event"}, s)
      PROVE  MInv'
  <2>. DEFINE state == [Row!Spoken EXCEPT !.status = "pending"]
  <2>1. state \in State /\ state.status = "pending" /\ state.msg # Row!Now.msg
    BY <1>0, Seconds DEF State, Row!Statuses
  <2>2. s \in Nat /\ s >= Row!Now.sec /\ {"incoming", "event"} \in SUBSET Kinds
    BY <1>0, Seconds DEF Kinds
  <2>. HIDE DEF state
  <2>3. PICK written : /\ Fits(written, {"incoming", "event"}) /\ Wrote(written, {"incoming", "event"})
                       /\ written.sec = s /\ written.status = "pending"
    <3>1. Row!Commits(state, {"incoming", "event"}, s)
      BY <1>1 DEF state
    <3>2. "event" \in {"incoming", "event"} /\ "degraded" \notin {"incoming", "event"}
      OBVIOUS
    <3>. QED BY <1>0, <2>1, <2>2, <3>1, <3>2, CommitsWrites
  <2>4. OnTime(written)
    BY <1>1, <2>3 DEF OnTime
  <2>. QED BY <1>0, <2>3, <2>4, WriteStep
<1>2. ASSUME NEW s \in {Row!This, Row!Later}, Row!Commits(Row!Spoken, {"incoming"}, s), Row!Now.status # "resolved"
      PROVE  MInv'
  <2>1. s \in Nat /\ s >= Row!Now.sec /\ {"incoming"} \in SUBSET Kinds
    BY <1>0, Seconds DEF Kinds
  <2>2. PICK written : /\ Fits(written, {"incoming"}) /\ Wrote(written, {"incoming"})
                       /\ written.sec = s /\ written.status = Row!Now.status
    BY <1>0, <1>2, <2>1, Seconds, CommitsWrites
  <2>3. OnTime(written)
    BY <2>2 DEF OnTime
  <2>. QED BY <1>0, <2>2, <2>3, WriteStep
<1>. QED BY <1>1, <1>2 DEF Row!CustomerWrites

LEMMA ColleagueRepliesStep == MInv /\ Row!ColleagueReplies => MInv'
<1> SUFFICES ASSUME MInv, Row!ColleagueReplies PROVE MInv'  OBVIOUS
<1>0. ShapeInv /\ click \in ClickOf /\ clicks \in Nat /\ upsets \in Nat
      /\ UNCHANGED <<mirror, takeover, click, taken, unplaced, clicks, upsets>>
      /\ Row!Commits(Row!Spoken, {"reply"}, Row!Later) /\ {"reply"} \in SUBSET Kinds
  BY DEF MInv, ShapeInv, Row!ColleagueReplies, Kinds
<1>1. PICK written : /\ Fits(written, {"reply"}) /\ Wrote(written, {"reply"})
                     /\ written.sec = Row!Later /\ written.status = Row!Now.status
  BY <1>0, Seconds, CommitsWrites
<1>2. OnTime(written)
  BY <1>1 DEF OnTime
<1>. QED BY <1>0, <1>1, <1>2, WriteStep

LEMMA AttendantMovesStep == MInv /\ Row!AttendantMoves => MInv'
<1> SUFFICES ASSUME MInv, Row!AttendantMoves PROVE MInv'  OBVIOUS
<1>0. ShapeInv /\ click \in ClickOf /\ clicks \in Nat /\ upsets \in Nat
      /\ UNCHANGED <<mirror, takeover, click, taken, unplaced, clicks, upsets>>
  BY DEF MInv, ShapeInv, Row!AttendantMoves
<1>1. PICK s \in Row!Statuses, h \in Row!Holders :
        Row!Commits([Row!Now EXCEPT !.status = s, !.holder = h],
                IF h = "person" THEN {"event", "degraded"} ELSE {"event"}, Row!Later)
  BY DEF Row!AttendantMoves
<1>. DEFINE state == [Row!Now EXCEPT !.status = s, !.holder = h]
            kinds == IF h = "person" THEN {"event", "degraded"} ELSE {"event"}
<1>2. state \in State /\ state.status = s /\ state.holder = h
  BY <1>0, Seconds DEF State
<1>3. kinds \in SUBSET Kinds /\ "event" \in kinds /\ "incoming" \notin kinds
      /\ ("degraded" \in kinds => state.holder = "person")
  BY <1>2 DEF Kinds
<1>. HIDE DEF state, kinds
<1>4. PICK written : /\ Fits(written, kinds) /\ Wrote(written, kinds)
                     /\ written.sec = Row!Later
  <2>1. Row!Commits(state, kinds, Row!Later)
    BY <1>1 DEF state, kinds
  <2>. QED BY <1>0, <1>2, <1>3, <2>1, Seconds, CommitsWrites
<1>5. OnTime(written)
  BY <1>0, <1>4, Seconds DEF OnTime
<1>. QED BY <1>0, <1>4, <1>5, WriteStep

LEMMA ClickFields ==
    ASSUME ShapeInv, NEW pc \in ClickPcs
    PROVE  /\ [click EXCEPT !.pc = pc] \in ClickOf /\ [click EXCEPT !.pc = pc].pc = pc
           /\ Row!NoClick \in ClickOf /\ Row!NoClick.pc = "idle"
BY DEF ShapeInv, ClickOf, Row!NoClick, ClickPcs, Row!Holders

\* A step of a click that leaves the row and the source alone.
LEMMA ClickStep ==
    ASSUME MInv, UNCHANGED <<source, transit, mirror, takeover, taken, unplaced>>,
           click' \in ClickOf, clicks' \in Nat, upsets' \in Nat, mirror.exists,
           click'.pc = "mirror" => click'.live = Row!Version
    PROVE  MInv'
<1>0. ShapeInv /\ RowInv /\ ClickInv /\ takeover' \in TakeoverOf /\ unplaced' \in BOOLEAN
  BY DEF MInv, ShapeInv
<1>1. RowInv'
  BY <1>0, Sources DEF RowInv, Row!Version
<1>2. ClickInv'
  BY <1>0 DEF ClickInv
<1>3. ~unplaced => /\ AtWork' = AtWork
                   /\ takeover'.pc = "reconcile" => taken.own <= takeover'.live
  BY DEF MInv, PlacedInv, ClaimInv, AtWork
<1>. QED BY <1>0, <1>1, <1>2, <1>3, StillStep

\* ... and one that asks the source to set something.
LEMMA ClickSets ==
    ASSUME MInv, NEW state \in State, Row!Sets(state, Row!Later), UNCHANGED <<mirror, takeover, taken, unplaced>>,
           click' \in ClickOf, clicks' \in Nat, upsets' \in Nat, mirror.exists, click'.pc # "mirror"
    PROVE  MInv'
<1>0. ShapeInv /\ Row!Later \in Nat /\ Row!Later >= Row!Now.sec /\ Row!Later > Row!Now.sec
  BY Seconds DEF MInv
<1>1. CASE UNCHANGED <<source, transit>>
  BY <1>1, ClickStep
<1>2. ASSUME NEW written, Fits(written, {"event"}), Wrote(written, {"event"}), written.sec = Row!Later
      PROVE  MInv'
  <2>1. OnTime(written)
    BY <1>0, <1>2 DEF OnTime
  <2>. QED BY <1>2, <2>1, WriteStep
<1>. QED BY <1>0, <1>1, <1>2, SetsWrites

LEMMA ClickIsOn ==
    ASSUME MInv, click.pc # "idle"
    PROVE  mirror.exists /\ ShapeInv /\ clicks \in Nat /\ upsets \in Nat
BY DEF MInv, RowInv, ShapeInv

LEMMA ConsoleReadsStep == ASSUME MInv, NEW b \in Buttons, Row!ConsoleReads(b) PROVE MInv'
<1>0. ShapeInv /\ mirror.exists /\ clicks' \in Nat /\ upsets \in Nat
      /\ UNCHANGED <<source, transit, mirror, takeover, taken, unplaced>>
  BY DEF MInv, ShapeInv, Row!ConsoleReads
<1>1. b \in {"return", "resolve", "handoff"}
  BY ConstantsAssumption DEF Row!ConstantsAssumption
<1>2. Row!Now.holder \in Row!Holders /\ Row!Now.msg \in Nat /\ mirror.holder \in Row!Holders
  BY <1>0, Seconds DEF State, ShapeInv, RowOf
<1>3. upsets' \in Nat
  BY <1>0 DEF Row!ConsoleReads, Row!Goes
<1>4. click' \in ClickOf /\ click'.pc # "mirror"
  <2>. DEFINE Base(person) == IF b = "return" THEN person ELSE "none"
  <2>0. Base(Row!Now.holder) \in Row!Holders /\ Base(mirror.holder) \in Row!Holders
    BY <1>2 DEF Row!Holders
  <2>1. CASE click' = [Row!NoClick EXCEPT !.pc = IF b = "handoff" THEN "assign" ELSE "toggle",
                          !.button = b, !.base = Base(Row!Now.holder),
                          !.mark = IF b = "handoff" THEN 0 ELSE Row!Now.msg]
    <3>. HIDE DEF Base
    <3>. QED BY <2>0, <2>1, <1>1, <1>2 DEF Row!NoClick, ClickOf, ClickPcs, Row!Holders
  <2>2. CASE click' = [Row!NoClick EXCEPT !.pc = "toggle", !.button = b, !.base = Base(mirror.holder)]
    <3>. HIDE DEF Base
    <3>. QED BY <2>0, <2>2, <1>1, <1>2 DEF Row!NoClick, ClickOf, ClickPcs, Row!Holders
  <2>. QED BY <2>1, <2>2 DEF Row!ConsoleReads
<1>. QED BY <1>0, <1>3, <1>4, ClickStep

LEMMA ConsoleAssignsStep == MInv /\ Row!ConsoleAssigns => MInv'
<1> SUFFICES ASSUME MInv, Row!ConsoleAssigns PROVE MInv'  OBVIOUS
<1>0. ShapeInv /\ mirror.exists /\ clicks \in Nat /\ upsets \in Nat
  BY ClickIsOn DEF Row!ConsoleAssigns
<1>1. click' \in ClickOf /\ click'.pc = "toggle"
  BY <1>0, ClickFields DEF Row!ConsoleAssigns, Row!ClickGoesTo, ClickPcs
<1>2. [Row!Now EXCEPT !.holder = "person"] \in State
  BY <1>0, Seconds DEF State, Row!Holders
<1>. QED BY <1>0, <1>1, <1>2, ClickSets DEF Row!ConsoleAssigns

LEMMA ConsoleUnassignsStep == MInv /\ Row!ConsoleUnassigns => MInv'
<1> SUFFICES ASSUME MInv, Row!ConsoleUnassigns PROVE MInv'  OBVIOUS
<1>0. ShapeInv /\ mirror.exists /\ clicks \in Nat /\ upsets \in Nat
  BY ClickIsOn DEF Row!ConsoleUnassigns
<1>1. click' \in ClickOf /\ click'.pc = "mark"
  BY <1>0, ClickFields DEF Row!ConsoleUnassigns, Row!ClickGoesTo, ClickPcs
<1>2. [Row!Now EXCEPT !.holder = "none"] \in State
  BY <1>0, Seconds DEF State, Row!Holders
<1>. QED BY <1>0, <1>1, <1>2, ClickSets DEF Row!ConsoleUnassigns

LEMMA TargetIs == ASSUME ShapeInv PROVE Row!Target(click.button) \in Row!Statuses
BY DEF ShapeInv, ClickOf, Row!Target, Row!Statuses

LEMMA ConsoleTogglesStep == MInv /\ Row!ConsoleToggles => MInv'
<1> SUFFICES ASSUME MInv, Row!ConsoleToggles PROVE MInv'  OBVIOUS
<1>0. ShapeInv /\ mirror.exists /\ clicks \in Nat /\ upsets \in Nat
      /\ UNCHANGED <<mirror, takeover, taken, unplaced, clicks>>
  BY ClickIsOn DEF Row!ConsoleToggles
<1>1. upsets' \in Nat
  BY <1>0 DEF Row!ConsoleToggles, Row!Goes
<1>2. click' \in ClickOf /\ click'.pc # "mirror"
  BY <1>0, ClickFields DEF Row!ConsoleToggles, Row!ClickGoesTo, ClickPcs
<1>3. [Row!Now EXCEPT !.status = Row!Target(click.button)] \in State
  BY <1>0, Seconds, TargetIs DEF State
<1>4. CASE Row!Sets([Row!Now EXCEPT !.status = Row!Target(click.button)], Row!Later)
  BY <1>0, <1>1, <1>2, <1>3, <1>4, ClickSets
<1>5. CASE UNCHANGED <<source, transit>>
  BY <1>0, <1>1, <1>2, <1>5, ClickStep
<1>. QED BY <1>4, <1>5 DEF Row!ConsoleToggles

LEMMA ConsoleReadsHolderStep == MInv /\ Row!ConsoleReadsHolder => MInv'
<1> SUFFICES ASSUME MInv, Row!ConsoleReadsHolder PROVE MInv'  OBVIOUS
<1>0. ShapeInv /\ mirror.exists /\ clicks \in Nat /\ upsets \in Nat
      /\ UNCHANGED <<source, transit, mirror, takeover, taken, unplaced, clicks>>
  BY ClickIsOn DEF Row!ConsoleReadsHolder
<1>1. upsets' \in Nat
  BY <1>0 DEF Row!ConsoleReadsHolder, Row!Goes
<1>2. click' \in ClickOf /\ click'.pc # "mirror"
  <2>1. Row!Now.holder \in Row!Holders
    BY <1>0, Seconds DEF State
  <2>2. ASSUME NEW pc \in {"mark", "unassign"}, NEW h \in Row!Holders,
               click' = [click EXCEPT !.pc = pc, !.holder = h]
        PROVE  click' \in ClickOf /\ click'.pc # "mirror"
    BY <1>0, <2>2 DEF ShapeInv, ClickOf, ClickPcs
  <2>3. ASSUME click' = [click EXCEPT
                !.pc = IF Row!Now.holder = "none" \/ click.base = "none" THEN "mark" ELSE "unassign",
                !.holder = IF click.base = "none" THEN Row!Now.holder ELSE "none"]
        PROVE  click' \in ClickOf /\ click'.pc # "mirror"
    <3>1. PICK pc \in {"mark", "unassign"} :
            pc = IF Row!Now.holder = "none" \/ click.base = "none" THEN "mark" ELSE "unassign"
      OBVIOUS
    <3>2. PICK h \in Row!Holders : h = IF click.base = "none" THEN Row!Now.holder ELSE "none"
      BY <2>1 DEF Row!Holders
    <3>3. click' = [click EXCEPT !.pc = pc, !.holder = h]
      BY <2>3, <3>1, <3>2
    <3>. QED BY <3>3, <2>2
  <2>4. ASSUME Row!ClickGoesTo("unassign") PROVE click' \in ClickOf /\ click'.pc # "mirror"
    BY <1>0, <2>4, ClickFields DEF Row!ClickGoesTo, ClickPcs
  <2>. QED BY <2>3, <2>4 DEF Row!ConsoleReadsHolder
<1>. QED BY <1>0, <1>1, <1>2, ClickStep

\* The click's mark is no part of what the row says of the conversation.
LEMMA ConsoleMarksStep == MInv /\ Row!ConsoleMarks => MInv'
<1> SUFFICES ASSUME MInv, Row!ConsoleMarks PROVE MInv'  OBVIOUS
<1>0. ShapeInv /\ SourceInv /\ RowInv /\ ClickInv /\ mirror.exists /\ mirror \in RowOf /\ click \in ClickOf
      /\ UNCHANGED <<source, transit, takeover, taken, unplaced, clicks, upsets>>
  BY ClickIsOn DEF Row!ConsoleMarks, MInv, ShapeInv
<1>1. PICK mark \in Nat : mark = Row!Larger(mirror.console, click.mark) /\ mark >= mirror.console
  BY <1>0 DEF Row!Larger, RowOf, ClickOf
<1>2. /\ mirror' = [mirror EXCEPT !.console = mark]
  BY <1>1 DEF Row!ConsoleMarks
<1>3. /\ mirror' \in RowOf /\ mirror'.exists /\ mirror'.console = mark /\ mirror'.status = mirror.status
      /\ mirror'.statusAt = mirror.statusAt /\ mirror'.holder = mirror.holder
      /\ mirror'.assigneeAt = mirror.assigneeAt /\ mirror'.claim = mirror.claim
  BY <1>0, <1>2 DEF RowOf
<1>4. click' \in ClickOf /\ click'.pc = "readback"
  BY <1>0 DEF Row!ConsoleMarks, ClickOf, ClickPcs, Row!Holders
<1>5. ShapeInv'
  BY <1>0, <1>3, <1>4 DEF ShapeInv
<1>6. SourceInv'
  BY <1>0 DEF SourceInv, SecondsRise, ReturnsAreSteps, PayloadsTell, Row!Version, Status, Holder
<1>7. RowInv'
  BY <1>0, <1>3, <1>4 DEF RowInv, Row!Version
<1>8. ClickInv'
  <2>1. mirror.console \in Nat /\ takeover.msg \in Nat
    BY <1>0 DEF RowOf, ShapeInv, TakeoverOf
  <2>. QED BY <2>1, <1>0, <1>1, <1>3 DEF ClickInv
<1>9. ASSUME ~unplaced PROVE PlacedInv'
  <2>0. PlacedInv /\ AtWork' = AtWork
    BY <1>0, <1>9 DEF MInv, AtWork
  <2>1. HolderInv'
    BY <2>0, <1>0, <1>3
    DEF PlacedInv, HolderInv, HolderIsComing, HolderIsPlaced, DegradedInv, Coming, Event, Holder, Row!Version
  <2>2. ClaimInv'
    BY <2>0, <1>0, <1>3 DEF PlacedInv, ClaimInv, Status, Row!Version
  <2>3. StatusIsComing'
    BY <2>0, <1>0, <1>3 DEF PlacedInv, StatusInv, StatusIsComing, Deferred, Coming, Event, Status,
       Row!Version
  <2>4. StatusIsPlaced' /\ ReopeningsHeld'
    BY <2>0, <1>0, <1>3 DEF PlacedInv, StatusInv, StatusIsPlaced, ReopeningsHeld, Status, Row!Version
  <2>5. TakenInv'
    BY <2>0, <1>0, <1>3 DEF PlacedInv, TakenInv, Row!Returned, Row!Version
  <2>. QED BY <2>1, <2>2, <2>3, <2>4, <2>5 DEF PlacedInv, StatusInv
<1>. QED BY <1>0, <1>5, <1>6, <1>7, <1>8, <1>9 DEF MInv

\* A row that something was written to without a version.
LEMMA UnplacedStep ==
    ASSUME MInv, UNCHANGED <<source, transit, takeover, taken, clicks>>, unplaced', unplaced' \in BOOLEAN,
           mirror' \in RowOf, mirror'.exists, mirror'.console = mirror.console,
           mirror'.statusAt <= Row!Version, mirror'.assigneeAt <= Row!Version, mirror'.claim.refused <= Row!Version,
           mirror'.statusAt # 0, mirror'.assigneeAt # 0,
           click' \in ClickOf, click'.pc = "idle", upsets' \in Nat
    PROVE  MInv'
<1>1. ShapeInv'
  BY DEF MInv, ShapeInv
<1>2. SourceInv'
  BY DEF MInv, SourceInv, SecondsRise, ReturnsAreSteps, PayloadsTell, Row!Version, Status, Holder
<1>3. RowInv' /\ ClickInv'
  BY DEF MInv, RowInv, ClickInv, Row!Version
<1>. QED BY <1>1, <1>2, <1>3 DEF MInv

LEMMA FallbackIs == ASSUME ShapeInv PROVE Row!FallbackHolder \in Row!Holders
BY DEF ShapeInv, ClickOf, RowOf, Row!FallbackHolder, Row!Holders

LEMMA ConsoleReadsBackStep == MInv /\ Row!ConsoleReadsBack => MInv'
<1> SUFFICES ASSUME MInv, Row!ConsoleReadsBack PROVE MInv'  OBVIOUS
<1>0. ShapeInv /\ RowInv /\ mirror.exists /\ clicks \in Nat /\ upsets \in Nat /\ Row!Version \in Nat
      /\ UNCHANGED <<source, transit, takeover, taken, clicks>>
  BY ClickIsOn, Sources DEF Row!ConsoleReadsBack, MInv
<1>1. CASE click' = [click EXCEPT !.pc = "mirror", !.live = Row!Version] /\ UNCHANGED <<mirror, unplaced, upsets>>
  <2>1. click' \in ClickOf /\ click'.live = Row!Version
    BY <1>0, <1>1 DEF ShapeInv, ClickOf, ClickPcs
  <2>. QED BY <1>0, <1>1, <2>1, ClickStep
<1>2. CASE Row!Goes("unread") /\ click' = Row!NoClick /\ mirror' = Row!Blindly /\ unplaced' = TRUE
  <2>1. Row!Target(click.button) \in Row!Statuses /\ Row!FallbackHolder \in Row!Holders /\ mirror \in RowOf
    BY <1>0, TargetIs, FallbackIs DEF ShapeInv
  <2>2. /\ mirror' \in RowOf /\ mirror'.exists /\ mirror'.console = mirror.console
        /\ mirror'.statusAt = mirror.statusAt /\ mirror'.assigneeAt = mirror.assigneeAt /\ mirror'.claim = mirror.claim
    BY <1>0, <1>2, <2>1 DEF Row!Blindly, RowOf
  <2>3. click' \in ClickOf /\ click'.pc = "idle" /\ upsets' \in Nat /\ unplaced' /\ unplaced' \in BOOLEAN
    BY <1>0, <1>2 DEF Row!NoClick, ClickOf, ClickPcs, Row!Holders, Row!Goes
  <2>. QED BY <1>0, <2>2, <2>3, UnplacedStep DEF RowInv
<1>. QED BY <1>1, <1>2 DEF Row!ConsoleReadsBack

LEMMA RefusedIsBounded ==
    ASSUME ShapeInv, RowInv, mirror.exists, NEW v \in 1..Row!Version, NEW owner \in BOOLEAN, ~Row!DeferredWins(v, owner)
    PROVE  Row!Reconciled(v, owner).claim.refused <= Row!Version
<1>1. /\ mirror.claim.refused \in 0..Row!Version /\ Row!Version \in Nat
      /\ Row!Larger(mirror.claim.refused, v) \in 0..Row!Version
  BY Sources DEF RowInv, ShapeInv, RowOf, Claim, Row!Larger
<1>. QED BY <1>1, ReconciledFields

LEMMA ConsoleMirrorsStep == MInv /\ Row!ConsoleMirrors => MInv'
<1> SUFFICES ASSUME MInv, Row!ConsoleMirrors PROVE MInv'  OBVIOUS
<1>. DEFINE v == click.live
<1>. PICK owner \in BOOLEAN : ~owner
  OBVIOUS
<1>0. ShapeInv /\ SourceInv /\ RowInv /\ ClickInv /\ mirror.exists /\ clicks \in Nat /\ upsets \in Nat
      /\ UNCHANGED <<source, transit, takeover, taken, clicks, upsets>> /\ v \in 1..Row!Version
  BY ClickIsOn DEF Row!ConsoleMirrors, MInv, RowInv
<1>1. click' \in ClickOf /\ click'.pc = "idle"
  BY DEF Row!ConsoleMirrors, Row!NoClick, ClickOf, ClickPcs, Row!Holders
<1>2. ~Row!Straggles(v) /\ ~Row!DeferredWins(v, owner)
  BY ConstantsAssumption DEF Row!ConsoleMirrors, Row!DeferredWins
<1>3. \/ mirror' = Row!Reconciled(v, owner) /\ UNCHANGED unplaced
      \/ /\ mirror' = [Row!Reconciled(v, owner) EXCEPT !.status = Row!Target(click.button), !.holder = Row!FallbackHolder]
         /\ unplaced' = TRUE
  <2>1. owner = FALSE
    OBVIOUS
  <2>. QED BY <2>1, Zenon DEF Row!ConsoleMirrors
<1>4. CASE mirror' = Row!Reconciled(v, owner) /\ UNCHANGED unplaced
  <2>1. /\ mirror' \in RowOf /\ mirror'.exists /\ mirror'.console = mirror.console
        /\ mirror'.statusAt <= Row!Version /\ mirror'.assigneeAt <= Row!Version
        /\ mirror'.statusAt # 0 /\ mirror'.assigneeAt # 0
        /\ mirror'.claim.refused <= Row!Version /\ SourceInv'
    BY <1>0, <1>2, <1>4, ReconciledFrame
  <2>2. ShapeInv'
    BY <1>0, <1>1, <1>4, <2>1 DEF ShapeInv
  <2>3. RowInv' /\ ClickInv'
    BY <1>0, <1>1, <1>4, <2>1 DEF RowInv, ClickInv, Row!Version
  <2>4. ASSUME ~unplaced PROVE PlacedInv'
    <3>0. PlacedInv
      BY <2>4 DEF MInv
    <3>1. HolderInv'
      BY <1>0, <1>4, <3>0, ReconciledHolderInv DEF PlacedInv
    <3>2. ClaimInv' /\ StatusInv' /\ TakenInv'
      BY <1>0, <1>2, <1>4, <3>0, ReadReconcile DEF PlacedInv
    <3>. QED BY <3>1, <3>2 DEF PlacedInv
  <2>. QED BY <1>4, <2>1, <2>2, <2>3, <2>4 DEF MInv
<1>5. CASE /\ mirror' = [Row!Reconciled(v, owner) EXCEPT !.status = Row!Target(click.button), !.holder = Row!FallbackHolder]
           /\ unplaced' = TRUE
  <2>1. /\ Row!Reconciled(v, owner) \in RowOf /\ Row!Reconciled(v, owner).exists
        /\ Row!Reconciled(v, owner).console = mirror.console
        /\ Row!Reconciled(v, owner).statusAt \in {v, mirror.statusAt}
        /\ Row!Reconciled(v, owner).assigneeAt \in {v, mirror.assigneeAt}
        /\ Row!Reconciled(v, owner).claim.refused <= Row!Version
    BY <1>0, <1>2, ReconciledFields, RefusedIsBounded
  <2>2. Row!Target(click.button) \in Row!Statuses /\ Row!FallbackHolder \in Row!Holders
    BY <1>0, TargetIs, FallbackIs
  <2>3. /\ mirror' \in RowOf /\ mirror'.exists /\ mirror'.console = mirror.console
        /\ mirror'.statusAt \in {v, mirror.statusAt} /\ mirror'.assigneeAt \in {v, mirror.assigneeAt} /\ mirror'.claim = Row!Reconciled(v, owner).claim
    BY <1>5, <2>1, <2>2 DEF RowOf
  <2>4. /\ mirror'.statusAt <= Row!Version /\ mirror'.assigneeAt <= Row!Version
        /\ mirror'.statusAt # 0 /\ mirror'.assigneeAt # 0 /\ mirror'.claim.refused <= Row!Version
    BY <2>1, <2>3, <1>0, Sources DEF RowInv
  <2>. QED BY <1>0, <1>1, <1>5, <2>3, <2>4, UnplacedStep
<1>. QED BY <1>3, <1>4, <1>5

LEMMA TakeoverFields ==
    ASSUME ShapeInv, NEW pc \in Pcs
    PROVE  /\ [takeover EXCEPT !.pc = pc] \in TakeoverOf /\ [takeover EXCEPT !.pc = pc].pc = pc
           /\ [takeover EXCEPT !.pc = pc].reply = takeover.reply
           /\ [takeover EXCEPT !.pc = pc].msg = takeover.msg
           /\ [takeover EXCEPT !.pc = pc].finishing = takeover.finishing
           /\ [takeover EXCEPT !.pc = pc].live = takeover.live
BY DEF ShapeInv, TakeoverOf

LEMMA NoTakeoverIs ==
    /\ Row!NoTakeover \in TakeoverOf /\ Row!NoTakeover.pc = "idle" /\ ~Row!NoTakeover.finishing
    /\ Row!NoTakeover.seen = Row!Seen(Row!NoRow)
BY DEF Row!NoTakeover, TakeoverOf, Pcs, Row!Seen, Row!NoRow, Row!Holders

LEMMA TakeoverIsOn ==
    ASSUME MInv, takeover.pc # "idle"
    PROVE  /\ mirror.exists /\ ShapeInv /\ SourceInv /\ RowInv /\ ClickInv /\ clicks \in Nat /\ upsets \in Nat
           /\ click \in ClickOf /\ unplaced \in BOOLEAN /\ takeover \in TakeoverOf
BY NoTakeoverIs DEF MInv, RowInv, ShapeInv

\* A step of the takeover that leaves the row alone and is over with it, or goes on to pc.
LEMMA TakeoverStep ==
    ASSUME MInv, takeover.pc # "idle", UNCHANGED <<source, transit, mirror, click, taken, clicks>>,
           upsets' \in Nat, unplaced' \in BOOLEAN, unplaced => unplaced',
           takeover' \in TakeoverOf, takeover'.pc = "idle" \/ takeover'.reply = takeover.reply,
           takeover'.finishing => unplaced', ClickInv',
           takeover'.pc = "reconcile" => takeover'.live \in 1..Row!Version,
           ~unplaced' => /\ AtWork' = AtWork /\ (takeover.pc = "toggle" => takeover'.pc = "toggle")
                         /\ takeover'.pc = "reconcile" => taken.own <= takeover'.live
    PROVE  MInv'
<1>0. mirror.exists /\ RowInv /\ click' \in ClickOf /\ clicks' \in Nat
  BY TakeoverIsOn
<1>1. RowInv'
  BY <1>0 DEF RowInv, Row!Version
<1>. QED BY <1>0, <1>1, StillStep

LEMMA TakeoverGatesStep == MInv /\ Row!TakeoverGates => MInv'
<1> SUFFICES ASSUME MInv, Row!TakeoverGates PROVE MInv'  OBVIOUS
<1>0. /\ takeover.pc = "gate" /\ ShapeInv /\ RowInv /\ ClickInv /\ upsets \in Nat /\ unplaced \in BOOLEAN
      /\ UNCHANGED <<source, transit, mirror, click, taken, unplaced, clicks>>
  BY TakeoverIsOn DEF Row!TakeoverGates
<1>1. upsets' \in Nat
  BY <1>0 DEF Row!TakeoverGates, Row!Goes
<1>2. \/ Row!TakeoverEnds
      \/ ~takeover.finishing /\ Row!TakeoverGoesTo("fence")
      \/ takeover.finishing /\ (Row!TakeoverGoesTo("toggle") \/ Row!TakeoverGoesTo("stranded"))
  BY DEF Row!TakeoverGates
<1>3. CASE Row!TakeoverEnds
  <2>1. ClickInv' /\ ~AtWork /\ AtWork' = AtWork
    BY <1>0, <1>3, NoTakeoverIs DEF ClickInv, Row!TakeoverEnds, AtWork
  <2>. QED BY <1>0, <1>1, <1>3, <2>1, NoTakeoverIs, TakeoverStep DEF Row!TakeoverEnds
<1>4. CASE ~takeover.finishing /\ Row!TakeoverGoesTo("fence")
  <2>1. /\ takeover' \in TakeoverOf /\ takeover'.pc = "fence" /\ takeover'.reply = takeover.reply
        /\ takeover'.msg = takeover.msg
        /\ takeover'.finishing = takeover.finishing
    BY <1>0, <1>4, TakeoverFields DEF Row!TakeoverGoesTo, Pcs
  <2>2. ClickInv' /\ ~AtWork /\ AtWork' = AtWork
    BY <1>0, <2>1 DEF ClickInv, AtWork
  <2>. QED BY <1>0, <1>1, <1>4, <2>1, <2>2, TakeoverStep
<1>5. CASE takeover.finishing /\ (Row!TakeoverGoesTo("toggle") \/ Row!TakeoverGoesTo("stranded"))
  <2>1. /\ takeover' \in TakeoverOf /\ takeover'.pc \notin {"claim", "reconcile"} /\ takeover'.reply = takeover.reply
        /\ takeover'.msg = takeover.msg
        /\ takeover'.finishing = takeover.finishing
    <3>1. PICK pc \in {"toggle", "stranded"} : takeover' = [takeover EXCEPT !.pc = pc]
      BY <1>5 DEF Row!TakeoverGoesTo
    <3>2. pc \in Pcs /\ pc \notin {"claim", "reconcile"}
      BY DEF Pcs
    <3>. QED BY <1>0, <3>1, <3>2, TakeoverFields
  <2>2. ClickInv' /\ unplaced
    BY <1>0, <1>5, <2>1 DEF ClickInv, RowInv
  <2>. QED BY <1>0, <1>1, <1>5, <2>1, <2>2, TakeoverStep
<1>. QED BY <1>2, <1>3, <1>4, <1>5

\* The fence is where a click after the reply ends the takeover.
LEMMA TakeoverFencesStep == MInv /\ Row!TakeoverFences => MInv'
<1> SUFFICES ASSUME MInv, Row!TakeoverFences PROVE MInv'  OBVIOUS
<1>0. /\ takeover.pc = "fence" /\ ShapeInv /\ RowInv /\ ClickInv /\ upsets \in Nat /\ unplaced \in BOOLEAN
      /\ UNCHANGED <<source, transit, mirror, click, taken, unplaced, clicks, upsets>>
  BY TakeoverIsOn DEF Row!TakeoverFences
<1>1. CASE Row!TakeoverEnds
  <2>1. ClickInv' /\ ~AtWork /\ AtWork' = AtWork
    BY <1>0, <1>1, NoTakeoverIs DEF ClickInv, Row!TakeoverEnds, AtWork
  <2>. QED BY <1>0, <1>1, <2>1, NoTakeoverIs, TakeoverStep DEF Row!TakeoverEnds
<1>2. CASE ~Row!Overruled /\ takeover' = [takeover EXCEPT !.pc = "claim", !.seen = Row!Seen(mirror)]
  <2>1. /\ takeover' \in TakeoverOf /\ takeover'.pc = "claim" /\ takeover'.reply = takeover.reply
        /\ takeover'.msg = takeover.msg /\ takeover'.seen = Row!Seen(mirror)
        /\ takeover'.finishing = takeover.finishing
    <3>1. Row!Seen(mirror) \in Nat \X Row!Holders \X Nat /\ takeover \in TakeoverOf
      BY <1>0 DEF ShapeInv, RowOf, Row!Seen
    <3>. QED BY <3>1, <1>2 DEF TakeoverOf, Pcs
  <2>2. ClickInv' /\ ~AtWork /\ AtWork' = AtWork
    <3>1. Row!Seen(mirror)[3] = mirror.console /\ takeover.msg \in Nat /\ mirror.console \in Nat
      BY <1>0 DEF Row!Seen, ShapeInv, TakeoverOf, RowOf
    <3>2. mirror.console = 0 \/ mirror.console < takeover.msg
      BY <1>2, <3>1 DEF Row!Overruled
    <3>. QED BY <1>0, <2>1, <3>1, <3>2 DEF ClickInv, AtWork
  <2>3. takeover'.finishing => unplaced'
    BY <1>0, <2>1 DEF RowInv
  <2>. QED BY <1>0, <2>1, <2>2, <2>3, TakeoverStep
<1>. QED BY <1>1, <1>2 DEF Row!TakeoverFences

LEMMA TakeoverReadsBackStep == MInv /\ Row!TakeoverReadsBack => MInv'
<1> SUFFICES ASSUME MInv, Row!TakeoverReadsBack PROVE MInv'  OBVIOUS
<1>0. /\ takeover.pc = "readback" /\ ShapeInv /\ RowInv /\ ClickInv /\ upsets \in Nat /\ unplaced \in BOOLEAN
      /\ takeover \in TakeoverOf /\ Row!Version \in Nat
      /\ UNCHANGED <<source, transit, mirror, click, taken, clicks>>
  BY TakeoverIsOn, Sources DEF Row!TakeoverReadsBack
<1>1. CASE takeover' = [takeover EXCEPT !.pc = "reconcile", !.live = Row!Version] /\ UNCHANGED <<unplaced, upsets>>
  <2>1. /\ takeover' \in TakeoverOf /\ takeover'.pc = "reconcile" /\ takeover'.reply = takeover.reply
        /\ takeover'.msg = takeover.msg
        /\ takeover'.finishing = takeover.finishing /\ takeover'.live = Row!Version
    BY <1>0, <1>1 DEF TakeoverOf, Pcs
  <2>2. ClickInv' /\ AtWork /\ AtWork' = AtWork /\ (takeover'.finishing => unplaced')
        /\ Row!Version \in 1..Row!Version
    BY <1>0, <1>1, <2>1, Sources DEF ClickInv, AtWork, RowInv
  <2>3. ~unplaced => taken.own <= Row!Version
    BY <2>2 DEF MInv, PlacedInv, ClaimInv
  <2>. QED BY <1>0, <1>1, <2>1, <2>2, <2>3, TakeoverStep
<1>2. CASE Row!Goes("unread") /\ Row!TakeoverEnds /\ unplaced' = TRUE
  <2>1. ClickInv' /\ upsets' \in Nat
    BY <1>0, <1>2, NoTakeoverIs DEF ClickInv, Row!TakeoverEnds, Row!Goes
  <2>. QED BY <1>0, <1>2, <2>1, NoTakeoverIs, TakeoverStep DEF Row!TakeoverEnds
<1>. QED BY <1>1, <1>2 DEF Row!TakeoverReadsBack

LEMMA TakeoverStrandsStep == MInv /\ Row!TakeoverStrands => MInv'
<1> SUFFICES ASSUME MInv, Row!TakeoverStrands PROVE MInv'  OBVIOUS
<1>0. /\ takeover.pc # "idle" /\ ShapeInv /\ RowInv /\ ClickInv /\ upsets \in Nat /\ unplaced \in BOOLEAN
      /\ UNCHANGED <<source, transit, mirror, click, taken, clicks>>
      /\ unplaced' \in BOOLEAN /\ (unplaced => unplaced')
      /\ takeover.pc \in {"toggle", "readback", "reconcile"} => unplaced'
  BY TakeoverIsOn DEF Row!TakeoverStrands
<1>1. /\ takeover' \in TakeoverOf /\ takeover'.pc = "stranded" /\ takeover'.reply = takeover.reply
      /\ takeover'.msg = takeover.msg
      /\ takeover'.finishing = takeover.finishing
  BY <1>0, TakeoverFields DEF Row!TakeoverStrands, Row!TakeoverGoesTo, Pcs
<1>2. /\ ClickInv' /\ (takeover'.finishing => unplaced') /\ upsets' \in Nat
      /\ ~unplaced' => AtWork' = AtWork /\ takeover.pc # "toggle"
  BY <1>0, <1>1 DEF ClickInv, RowInv, AtWork, Row!TakeoverStrands, Row!Goes
<1>. QED BY <1>0, <1>1, <1>2, TakeoverStep

LEMMA TakeoverRecoversStep == MInv /\ Row!TakeoverRecovers => MInv'
<1> SUFFICES ASSUME MInv, Row!TakeoverRecovers PROVE MInv'  OBVIOUS
<1>0. /\ takeover.pc = "stranded" /\ ShapeInv /\ RowInv /\ ClickInv /\ upsets \in Nat /\ unplaced \in BOOLEAN
      /\ takeover \in TakeoverOf
      /\ UNCHANGED <<source, transit, mirror, click, taken, clicks, upsets>>
      /\ unplaced' = (unplaced \/ takeover'.finishing)
  BY TakeoverIsOn DEF Row!TakeoverRecovers
<1>1. CASE Row!TakeoverEnds
  <2>1. ClickInv' /\ ~AtWork /\ AtWork' = AtWork /\ unplaced' \in BOOLEAN
    BY <1>0, <1>1, NoTakeoverIs DEF ClickInv, Row!TakeoverEnds, AtWork
  <2>. QED BY <1>0, <1>1, <2>1, NoTakeoverIs, TakeoverStep DEF Row!TakeoverEnds
<1>2. ASSUME NEW finishing \in BOOLEAN,
             takeover' = [[takeover EXCEPT !.pc = "gate", !.decided = 0, !.live = 0]
                          EXCEPT !.finishing = finishing]
      PROVE  MInv'
  <2>1. /\ takeover' \in TakeoverOf /\ takeover'.pc = "gate" /\ takeover'.reply = takeover.reply
        /\ takeover'.finishing = finishing
    BY <1>0, <1>2 DEF TakeoverOf, Pcs
  <2>2. ClickInv' /\ ~AtWork /\ AtWork' = AtWork /\ unplaced' \in BOOLEAN
    BY <1>0, <2>1 DEF ClickInv, AtWork
  <2>. QED BY <1>0, <2>1, <2>2, TakeoverStep
<1>3. \/ Row!TakeoverEnds
      \/ \E finishing \in BOOLEAN :
           takeover' = [[takeover EXCEPT !.pc = "gate", !.decided = 0, !.live = 0]
                          EXCEPT !.finishing = finishing]
  BY Zenon DEF Row!TakeoverRecovers
<1>. QED BY <1>1, <1>2, <1>3

\* The claim moves the row ahead of the source: what it says then is the takeover's own to come.
LEMMA TakeoverClaimsStep == MInv /\ Row!TakeoverClaims => MInv'
<1> SUFFICES ASSUME MInv, Row!TakeoverClaims PROVE MInv'  OBVIOUS
<1>0. /\ takeover.pc = "claim" /\ ShapeInv /\ SourceInv /\ RowInv /\ ClickInv /\ mirror.exists
      /\ takeover \in TakeoverOf /\ mirror \in RowOf /\ unplaced \in BOOLEAN /\ upsets \in Nat
      /\ Row!Version \in Nat \ {0} /\ takeover.reply \in 1..Row!Version
      /\ UNCHANGED <<source, transit, click, unplaced, clicks, upsets>>
  BY TakeoverIsOn, Sources DEF Row!TakeoverClaims, RowInv, ShapeInv
<1>1. CASE Row!TakeoverEnds /\ UNCHANGED <<mirror, taken>>
  <2>1. ClickInv' /\ ~AtWork /\ AtWork' = AtWork
    BY <1>0, <1>1, NoTakeoverIs DEF ClickInv, Row!TakeoverEnds, AtWork
  <2>. QED BY <1>0, <1>1, <2>1, NoTakeoverIs, TakeoverStep DEF Row!TakeoverEnds
<1>2. CASE /\ mirror.status = "pending"
           /\ mirror' = [mirror EXCEPT !.status = "open",
                            !.claim = [Row!NoClaim EXCEPT !.live = TRUE, !.from = "pending"]]
           /\ takeover' = [takeover EXCEPT !.pc = "toggle", !.seen = Row!NoTakeover.seen]
           /\ taken' = [reply |-> takeover.reply, own |-> Row!Version]
  <2>. DEFINE claim == [Row!NoClaim EXCEPT !.live = TRUE, !.from = "pending"]
  <2>1. /\ claim \in Claim /\ claim.live /\ claim.from = "pending" /\ claim.stamped = 0 /\ claim.refused = 0
    BY DEF Row!NoClaim, Claim
  <2>. HIDE DEF claim
  <2>2. /\ mirror' \in RowOf /\ mirror'.exists /\ mirror'.console = mirror.console /\ mirror'.status = "open"
        /\ mirror'.statusAt = mirror.statusAt /\ mirror'.holder = mirror.holder
        /\ mirror'.assigneeAt = mirror.assigneeAt /\ mirror'.claim = claim
    <3>1. mirror' = [mirror EXCEPT !.status = "open", !.claim = claim]
      BY <1>2 DEF claim
    <3>. QED BY <3>1, <1>0, <2>1 DEF RowOf, Row!Statuses
  <2>3. /\ takeover' \in TakeoverOf /\ takeover'.pc = "toggle" /\ takeover'.reply = takeover.reply
        /\ takeover'.msg = takeover.msg
        /\ takeover'.finishing = takeover.finishing
    <3>1. Row!NoTakeover.seen \in Nat \X Row!Holders \X Nat
      BY NoTakeoverIs DEF TakeoverOf
    <3>. QED BY <3>1, <1>0, <1>2 DEF TakeoverOf, Pcs
  <2>4. taken'.reply = takeover.reply /\ taken'.own = Row!Version /\ taken' \in [reply : Nat, own : Nat]
    BY <1>0, <1>2
  <2>5. ShapeInv'
    BY <1>0, <2>2, <2>3, <2>4 DEF ShapeInv
  <2>6. SourceInv'
    BY <1>0 DEF SourceInv, SecondsRise, ReturnsAreSteps, PayloadsTell, Row!Version, Status, Holder
  <2>7. RowInv' /\ ClickInv'
    BY <1>0, <2>1, <2>2, <2>3 DEF RowInv, ClickInv, Row!Version
  <2>8. ASSUME ~unplaced PROVE PlacedInv'
    <3>0. PlacedInv /\ ~AtWork /\ AtWork' /\ Row!Version' = Row!Version
      BY <1>0, <2>3, <2>8 DEF MInv, AtWork, Row!Version
    <3>1. HolderInv'
      BY <3>0, <1>0, <2>2
      DEF PlacedInv, HolderInv, HolderIsComing, HolderIsPlaced, DegradedInv, Coming, Event, Holder
    <3>2. ClaimInv'
      BY <3>0, <1>0, <2>1, <2>2, <2>3, <2>4 DEF ClaimInv
    <3>3. StatusIsComing'
      <4>1. PICK w \in 1..Row!Version :
              /\ w >= mirror.statusAt /\ \A u \in w..Row!Version : Status(u) = Status(Row!Version)
              /\ w = mirror.statusAt \/ Coming(w)
        BY <3>0 DEF PlacedInv, StatusInv, StatusIsComing, Deferred
      <4>. QED BY <4>1, <3>0, <1>0, <2>2 DEF StatusIsComing, Coming, Event, Status
    <3>4. StatusIsPlaced'
      BY <3>0, <1>0, <2>2, <2>4 DEF StatusIsPlaced, RowInv
    <3>5. ReopeningsHeld'
      <4>1. \A d \in transit : d.v <= Row!Version
        BY <1>0 DEF SourceInv, PayloadsTell
      <4>. QED BY <4>1, <3>0, <1>0, <2>1, <2>2, <2>4 DEF PlacedInv, StatusInv, ReopeningsHeld, Status
    <3>6. TakenInv'
      BY <2>2 DEF TakenInv
    <3>. QED BY <3>1, <3>2, <3>3, <3>4, <3>5, <3>6 DEF PlacedInv, StatusInv
  <2>. QED BY <1>0, <2>5, <2>6, <2>7, <2>8 DEF MInv
<1>. QED BY <1>1, <1>2 DEF Row!TakeoverClaims

\* Its own transition, in the second of whatever the source had just said.
LEMMA TakeoverTogglesStep == MInv /\ Row!TakeoverToggles => MInv'
<1> SUFFICES ASSUME MInv, Row!TakeoverToggles PROVE MInv'  OBVIOUS
<1>0. /\ takeover.pc = "toggle" /\ ShapeInv /\ SourceInv /\ RowInv /\ ClickInv /\ mirror.exists
      /\ takeover \in TakeoverOf /\ mirror \in RowOf /\ unplaced \in BOOLEAN /\ upsets \in Nat /\ clicks \in Nat
      /\ click \in ClickOf /\ taken \in [reply : Nat, own : Nat]
      /\ Row!Version \in Nat \ {0} /\ takeover.reply \in 1..Row!Version
      /\ UNCHANGED <<mirror, click, clicks>>
  BY TakeoverIsOn, Sources DEF Row!TakeoverToggles, RowInv, ShapeInv
<1>1. /\ takeover' \in TakeoverOf /\ upsets' \in Nat /\ unplaced' \in BOOLEAN
      /\ takeover'.pc = "readback" \/ (takeover'.pc = "idle" /\ unplaced')
      /\ takeover'.pc = "readback" => /\ unplaced' = unplaced /\ takeover'.reply = takeover.reply
                                      /\ takeover'.finishing = takeover.finishing
      /\ takeover'.finishing => takeover.finishing
      /\ unplaced => unplaced'
  <2>1. ASSUME Row!TakeoverGoesTo("readback")
        PROVE  /\ takeover' \in TakeoverOf /\ takeover'.pc = "readback" /\ takeover'.reply = takeover.reply
               /\ takeover'.finishing = takeover.finishing
    BY <1>0, <2>1, TakeoverFields DEF Row!TakeoverGoesTo, Pcs
  <2>2. ASSUME Row!TakeoverEnds
        PROVE  takeover' \in TakeoverOf /\ takeover'.pc = "idle" /\ ~takeover'.finishing
    BY <2>2, NoTakeoverIs DEF Row!TakeoverEnds
  <2>3. \/ Row!TakeoverGoesTo("readback") /\ UNCHANGED <<unplaced, upsets>>
        \/ Row!TakeoverEnds /\ unplaced' = TRUE /\ upsets' = upsets + 1
    BY DEF Row!TakeoverToggles, Row!Goes
  <2>4. CASE Row!TakeoverGoesTo("readback") /\ UNCHANGED <<unplaced, upsets>>
    BY <2>1, <2>4, <1>0
  <2>5. CASE Row!TakeoverEnds /\ unplaced' = TRUE /\ upsets' = upsets + 1
    <3>1. unplaced' /\ unplaced' \in BOOLEAN /\ upsets' \in Nat
      BY <2>5, <1>0
    <3>. QED BY <2>2, <2>5, <3>1
  <2>. QED BY <2>3, <2>4, <2>5
<1>2. [Row!Now EXCEPT !.status = "open"] \in State /\ [Row!Now EXCEPT !.status = "open"].status = "open"
  BY <1>0, Seconds DEF State, Row!Statuses
<1>3. \/ UNCHANGED <<source, transit>> /\ ((taken'.own = Row!Version /\ Row!Now.status = "open") \/ unplaced')
      \/ \E written : /\ Fits(written, {"event"}) /\ Wrote(written, {"event"})
                      /\ written.status = "open" /\ taken'.own = Row!Version + 1
  <2>1. CASE Row!Sets([Row!Now EXCEPT !.status = "open"], Row!This) /\ taken' = [taken EXCEPT !.own = Len(source')]
    <3>1. taken'.own = Len(source')
      BY <1>0, <2>1
    <3>2. Row!This \in Nat /\ Row!This >= Row!Now.sec
      BY <1>0, Seconds
    <3>3. \/ UNCHANGED <<source, transit>> /\ [Row!Now EXCEPT !.status = "open"] = Row!Now
          \/ \E written : /\ Fits(written, {"event"}) /\ Wrote(written, {"event"})
                          /\ written.status = "open"
      BY <1>0, <1>2, <2>1, <3>2, SetsWrites
    <3>4. ASSUME NEW written, Fits(written, {"event"}), Wrote(written, {"event"}) PROVE Len(source') = Row!Version + 1
      BY <3>4, <1>0, WroteNumbers DEF Row!Version
    <3>. QED BY <3>1, <3>3, <3>4, <1>2 DEF Row!Version
  <2>2. CASE UNCHANGED <<source, transit, taken>> /\ unplaced' = TRUE
    BY <2>2
  <2>. QED BY <2>1, <2>2 DEF Row!TakeoverToggles
<1>4. /\ taken' \in [reply : Nat, own : Nat] /\ taken'.reply = taken.reply
      /\ ~unplaced' => taken'.own \in {Row!Version, Row!Version + 1}
  <2>1. CASE taken' = taken
    BY <2>1, <1>0, <1>3
  <2>2. CASE taken' = [taken EXCEPT !.own = Len(source')] /\ Row!Sets([Row!Now EXCEPT !.status = "open"], Row!This)
    <3>1. Len(source') \in Nat
      <4>1. CASE UNCHANGED source
        BY <4>1, <1>0 DEF Row!Version
      <4>2. ASSUME NEW written, Fits(written, {"event"}), Wrote(written, {"event"}) PROVE Len(source') \in Nat
        BY <4>2, <1>0, WroteShape
      <4>. QED BY <4>1, <4>2, <1>3
    <3>. QED BY <3>1, <2>2, <1>0, <1>3
  <2>. QED BY <2>1, <2>2 DEF Row!TakeoverToggles
<1>5. ShapeInv' /\ SourceInv' /\ Row!Version' \in Nat /\ Row!Version' >= Row!Version
  <2>1. CASE UNCHANGED <<source, transit>>
    <3>1. ShapeInv'
      BY <2>1, <1>0, <1>1, <1>4 DEF ShapeInv
    <3>2. SourceInv'
      BY <2>1, <1>0 DEF SourceInv, SecondsRise, ReturnsAreSteps, PayloadsTell, Row!Version, Status, Holder
    <3>. QED BY <3>1, <3>2, <2>1, <1>0 DEF Row!Version
  <2>2. ASSUME NEW written, Fits(written, {"event"}), Wrote(written, {"event"})
        PROVE  ShapeInv' /\ SourceInv' /\ Row!Version' \in Nat /\ Row!Version' >= Row!Version
    <3>1. ShapeInv'
      BY <2>2, <1>0, <1>1, <1>4, WroteShape DEF ShapeInv
    <3>2. SourceInv'
      BY <2>2, <1>0, WroteSourceInv
    <3>3. Row!Version' = Row!Version + 1
      BY <2>2, <1>0, WroteNumbers
    <3>. QED BY <3>1, <3>2, <3>3, <1>0
  <2>. QED BY <1>3, <2>1, <2>2
<1>6. RowInv' /\ ClickInv'
  <2>1. /\ mirror.statusAt \in Nat /\ mirror.assigneeAt \in Nat /\ click.live \in Nat
        /\ mirror.claim.refused \in Nat
    BY <1>0 DEF RowOf, Claim, ClickOf
  <2>. QED BY <2>1, <1>0, <1>1, <1>5 DEF RowInv, ClickInv
<1>7. ASSUME ~unplaced' PROVE PlacedInv'
  <2>0. /\ PlacedInv /\ AtWork /\ AtWork' = AtWork /\ takeover'.pc = "readback" /\ mirror.claim.live
        /\ taken.own <= taken'.own /\ taken'.own \in Nat /\ taken.own <= Row!Version /\ ~unplaced
        /\ taken'.own \in {Row!Version, Row!Version + 1}
    <3>1. ~unplaced /\ PlacedInv
      BY <1>1, <1>7 DEF MInv
    <3>2. AtWork /\ AtWork' = AtWork /\ takeover'.pc = "readback"
      BY <1>0, <1>1, <1>7 DEF AtWork
    <3>3. mirror.claim.live /\ taken.own <= Row!Version /\ taken.own \in Nat
      BY <3>1, <3>2, <1>0 DEF PlacedInv, ClaimInv
    <3>. QED BY <3>1, <3>2, <3>3, <1>0, <1>4, <1>7
  <2>1. CASE UNCHANGED <<source, transit>> /\ taken'.own = Row!Version /\ Row!Now.status = "open"
    <3>1. HolderInv'
      BY <2>0, <2>1, <1>0
      DEF PlacedInv, HolderInv, HolderIsComing, HolderIsPlaced, DegradedInv, Coming, Event, Holder, Row!Version
    <3>2. StatusInv'
      <4>1. mirror.statusAt \in Nat
        BY <1>0 DEF RowOf
      <4>2. StatusIsComing'
        BY <2>0, <2>1, <1>0 DEF PlacedInv, StatusInv, StatusIsComing, Deferred, Coming, Event, Status,
           Row!Version
      <4>3. StatusIsPlaced'
        BY <2>0, <2>1, <1>0, <4>1 DEF PlacedInv, StatusInv, StatusIsPlaced, Status, RowInv
      <4>4. ReopeningsHeld'
        <5>1. \A d \in transit : d.v \in 1..Row!Version
          BY <1>0 DEF SourceInv, PayloadsTell
        <5>. QED BY <5>1, <2>0, <2>1, <1>0 DEF PlacedInv, StatusInv, ReopeningsHeld, Status, Row!Version
      <4>. QED BY <4>2, <4>3, <4>4 DEF StatusInv
    <3>3. ClaimInv'
      <4>1. Row!Version' = Row!Version /\ \A v \in Nat : Status(v)' = Status(v)
        BY <2>1 DEF Row!Version, Status
      <4>2. taken'.reply <= taken'.own /\ 1 <= taken'.reply /\ Status(taken.own)' = "open"
        <5>1. taken.reply <= taken.own /\ 1 <= taken.reply /\ taken.reply \in Nat /\ taken.own \in Nat
          BY <2>0, <1>0 DEF PlacedInv, ClaimInv
        <5>2. Status(taken.own)' = "open"
          BY <2>1 DEF Status, Row!Now, Row!Version
        <5>. QED BY <5>1, <5>2, <2>0, <2>1, <1>0, <1>4
      <4>3. Status(mirror.claim.refused)' = Status(mirror.claim.refused)
        BY <2>1, <1>0 DEF Status
      <4>. QED BY <4>1, <4>2, <4>3, <2>0, <2>1, <1>0 DEF PlacedInv, ClaimInv
    <3>4. TakenInv'
      BY <2>0, <2>1, <1>0, <1>4 DEF PlacedInv, TakenInv, Row!Returned, Row!Version
    <3>. QED BY <3>1, <3>2, <3>3, <3>4 DEF PlacedInv
  <2>2. ASSUME NEW written, Fits(written, {"event"}), Wrote(written, {"event"}),
               written.status = "open", taken'.own = Row!Version + 1
        PROVE  PlacedInv'
    <3>0. OnTime(written)
      BY <2>0, <2>2 DEF OnTime
    <3>1. HolderInv'
      BY <2>0, <2>2, <1>0, WroteHolderInv DEF PlacedInv
    <3>2. StatusInv'
      BY <2>0, <2>2, <3>0, <1>0, WroteStatusInv DEF PlacedInv
    <3>3. /\ Row!Version' = Row!Version + 1 /\ source'[Row!Version + 1] = written
          /\ \A v \in 1..Row!Version : Status(v)' = Status(v)
      BY <2>2, <1>0, WroteNumbers
    <3>4. ClaimInv'
      <4>1. taken'.reply <= taken'.own /\ 1 <= taken'.reply /\ Status(taken.own)' = "open"
        <5>1. taken.reply <= taken.own /\ 1 <= taken.reply /\ taken.reply \in Nat /\ taken.own \in Nat
          BY <2>0, <1>0 DEF PlacedInv, ClaimInv
        <5>2. Status(taken.own)' = "open"
          BY <2>2, <3>3 DEF Status
        <5>. QED BY <5>1, <5>2, <2>0, <2>2, <1>0, <1>4
      <4>2. mirror.claim.refused \in Nat /\ mirror.claim.refused <= Row!Version
            /\ (mirror.claim.refused # 0 => Status(mirror.claim.refused) = "pending")
        BY <2>0, <1>0 DEF RowOf, Claim, PlacedInv, ClaimInv, RowInv
      <4>3. mirror'.claim.refused # 0 => Status(mirror.claim.refused)' = "pending"
        BY <4>2, <3>3, <1>0 DEF Status
      <4>. QED BY <4>1, <4>2, <4>3, <3>3, <2>0, <2>2, <1>0 DEF PlacedInv, ClaimInv
    <3>5. TakenInv'
      <4>1. taken.reply \in Nat \ {0}
        BY <2>0, <1>0 DEF PlacedInv, ClaimInv
      <4>2. Row!Returned(taken.reply) => Row!Returned(taken.reply)'
        <5>1. ASSUME Row!Returned(taken.reply) PROVE \E v \in taken.reply + 1 .. Row!Version' :
                 source'[v].status = "pending" /\ source'[v - 1].status # "pending"
          <6>1. PICK v \in taken.reply + 1 .. Row!Version :
                  source[v].status = "pending" /\ source[v - 1].status # "pending"
            BY <5>1 DEF Row!Returned
          <6>2. v \in 1..Row!Version /\ v - 1 \in 1..Row!Version /\ v \in taken.reply + 1 .. Row!Version'
            BY <6>1, <4>1, <3>3, <1>0
          <6>3. source'[v].status = source[v].status /\ source'[v - 1].status = source[v - 1].status
            BY <6>2, <3>3 DEF Status
          <6>. QED BY <6>1, <6>2, <6>3
        <5>. QED BY <5>1, <1>4 DEF Row!Returned
      <4>. QED BY <4>2, <2>0, <1>0, <1>4 DEF PlacedInv, TakenInv, Row!Returned
    <3>. QED BY <3>1, <3>2, <3>4, <3>5 DEF PlacedInv
  <2>. QED BY <1>3, <1>7, <2>1, <2>2
<1>. QED BY <1>5, <1>6, <1>7 DEF MInv

LEMMA TakeoverReconcilesStep == MInv /\ Row!TakeoverReconciles => MInv'
<1> SUFFICES ASSUME MInv, Row!TakeoverReconciles PROVE MInv'  OBVIOUS
<1>. PICK owner \in BOOLEAN : owner
  OBVIOUS
<1>0. /\ takeover.pc = "reconcile" /\ ShapeInv /\ SourceInv /\ RowInv /\ ClickInv /\ mirror.exists
      /\ takeover.live \in 1..Row!Version
      /\ UNCHANGED <<source, transit, click, taken, unplaced, clicks, upsets>>
      /\ takeover' = Row!NoTakeover
  BY TakeoverIsOn DEF Row!TakeoverReconciles, Row!TakeoverEnds, RowInv
<1>1. mirror' = Row!Reconciled(takeover.live, owner)
  <2>1. owner = TRUE
    OBVIOUS
  <2>. QED BY <2>1, Zenon DEF Row!TakeoverReconciles
<1>2. /\ mirror' \in RowOf /\ mirror'.exists /\ mirror'.console = mirror.console
      /\ mirror'.statusAt <= Row!Version /\ mirror'.assigneeAt <= Row!Version
      /\ mirror'.statusAt # 0 /\ mirror'.assigneeAt # 0
      /\ mirror'.claim.refused <= Row!Version /\ SourceInv'
  BY <1>0, <1>1, ReconciledFrame
<1>3. ShapeInv'
  BY <1>0, <1>2, NoTakeoverIs DEF ShapeInv
<1>4. RowInv' /\ ClickInv'
  BY <1>0, <1>2, NoTakeoverIs DEF RowInv, ClickInv, Row!Version
<1>5. ASSUME ~unplaced PROVE PlacedInv'
  <2>0. PlacedInv
    BY <1>5 DEF MInv
  <2>1. HolderInv'
    BY <1>0, <1>1, <2>0, ReconciledHolderInv DEF PlacedInv
  <2>2. ClaimInv' /\ StatusInv' /\ TakenInv'
    BY <1>0, <2>0, OwnReconcile DEF PlacedInv
  <2>. QED BY <2>1, <2>2 DEF PlacedInv
<1>. QED BY <1>0, <1>2, <1>3, <1>4, <1>5 DEF MInv

LEMMA ClaimExpiresStep == MInv /\ Row!ClaimExpires => MInv'
<1> SUFFICES ASSUME MInv, Row!ClaimExpires PROVE MInv'  OBVIOUS
<1>0. /\ ShapeInv /\ SourceInv /\ RowInv /\ ClickInv /\ mirror \in RowOf /\ mirror.claim \in Claim
      /\ mirror.claim.live /\ ~AtWork /\ AtWork' = AtWork /\ \A d \in transit : d.v > taken.own
      /\ UNCHANGED <<source, transit, takeover, click, unplaced, clicks, upsets>>
  BY DEF MInv, ShapeInv, RowOf, Row!ClaimExpires, AtWork
<1>. DEFINE claim == [mirror.claim EXCEPT !.live = FALSE]
<1>1. /\ claim \in Claim /\ ~claim.live /\ claim.from = mirror.claim.from
      /\ claim.stamped = mirror.claim.stamped /\ claim.refused = mirror.claim.refused
  BY <1>0 DEF Claim
<1>2. mirror' = [mirror EXCEPT !.claim = claim]
  BY <1>0 DEF Row!ClaimExpires, RowOf
<1>. HIDE DEF claim
<1>3. /\ mirror' \in RowOf /\ mirror'.exists = mirror.exists /\ mirror'.console = mirror.console
      /\ mirror'.status = mirror.status
      /\ mirror'.statusAt = mirror.statusAt /\ mirror'.holder = mirror.holder
      /\ mirror'.assigneeAt = mirror.assigneeAt /\ mirror'.claim = claim
  BY <1>0, <1>1, <1>2 DEF RowOf
<1>4. ShapeInv'
  <2>1. taken' \in [reply : Nat, own : Nat]
    BY DEF Row!ClaimExpires
  <2>. QED BY <2>1, <1>0, <1>3 DEF ShapeInv
<1>5. SourceInv'
  BY <1>0 DEF SourceInv, SecondsRise, ReturnsAreSteps, PayloadsTell, Row!Version, Status, Holder
<1>6. RowInv' /\ ClickInv'
  <2>1. mirror.exists
    BY <1>0 DEF RowInv, Row!NoRow, Row!NoClaim
  <2>. QED BY <2>1, <1>0, <1>1, <1>3 DEF RowInv, ClickInv, Row!Version
<1>7. ASSUME ~unplaced PROVE PlacedInv'
  <2>0. PlacedInv
    BY <1>7 DEF MInv
  <2>1. HolderInv'
    BY <2>0, <1>0, <1>3
    DEF PlacedInv, HolderInv, HolderIsComing, HolderIsPlaced, DegradedInv, Coming, Event, Holder, Row!Version
  <2>2. ClaimInv'
    BY <2>0, <1>0, <1>1, <1>3 DEF PlacedInv, ClaimInv, AtWork, Status, Row!Version
  <2>3. StatusIsComing'
    BY <2>0, <1>0, <1>3 DEF PlacedInv, StatusInv, StatusIsComing, Deferred, Coming, Event, Status,
       Row!Version
  <2>4. StatusIsPlaced'
    BY <2>0, <1>0, <1>3 DEF PlacedInv, StatusInv, StatusIsPlaced, Status
  <2>5. ReopeningsHeld'
    <3>1. taken.own \in Nat /\ \A d \in transit : d.v \in Nat
      BY <1>0 DEF ShapeInv
    <3>2. \A d \in transit : ~(d.v <= taken.own)
      BY <3>1, <1>0
    <3>. QED BY <3>2, <2>0, <1>0 DEF PlacedInv, StatusInv, ReopeningsHeld, Status, Row!Version
  <2>6. TakenInv'
    BY <1>1, <1>3 DEF TakenInv
  <2>. QED BY <2>1, <2>2, <2>3, <2>4, <2>5, <2>6 DEF PlacedInv, StatusInv
<1>. QED BY <1>0, <1>4, <1>5, <1>6, <1>7 DEF MInv

LEMMA MirrorsStep == ASSUME MInv, NEW d \in transit, Row!Mirrors(d) PROVE MInv'
<1>0. ShapeInv /\ SourceInv /\ RowInv /\ ClickInv /\ unplaced' = unplaced
  BY DEF MInv, Row!Mirrors
<1>1. ShapeInv' /\ SourceInv' /\ RowInv' /\ ClickInv'
  BY <1>0, MirrorsFrame
<1>2. ASSUME ~unplaced PROVE PlacedInv'
  <2>0. PlacedInv
    BY <1>2 DEF MInv
  <2>. QED BY <1>0, <2>0, MirrorsHolderInv, MirrorsStatusInv, MirrorsClaimInv, MirrorsTakenInv DEF PlacedInv
<1>. QED BY <1>0, <1>1, <1>2 DEF MInv

\* The invariant is inductive.
LEMMA MInvStep == MInv /\ [Row!Next]_(Row!vars) => MInv'
<1> SUFFICES ASSUME MInv, [Row!Next]_(Row!vars) PROVE MInv'  OBVIOUS
<1>1. CASE Row!CustomerWrites \/ Row!ColleagueReplies \/ Row!AttendantMoves
  BY <1>1, CustomerWritesStep, ColleagueRepliesStep, AttendantMovesStep
<1>2. ASSUME NEW d \in transit, Row!Mirrors(d) PROVE MInv'
  BY <1>2, MirrorsStep
<1>3. CASE Row!Takeover
  BY <1>3, TakeoverGatesStep, TakeoverFencesStep, TakeoverClaimsStep, TakeoverTogglesStep,
     TakeoverReadsBackStep, TakeoverReconcilesStep DEF Row!Takeover
<1>4. CASE Row!TakeoverStrands \/ Row!TakeoverRecovers \/ Row!ClaimExpires
  BY <1>4, TakeoverStrandsStep, TakeoverRecoversStep, ClaimExpiresStep
<1>5. ASSUME NEW b \in Buttons, Row!ConsoleReads(b) PROVE MInv'
  BY <1>5, ConsoleReadsStep
<1>6. CASE Row!Console
  BY <1>6, ConsoleAssignsStep, ConsoleTogglesStep, ConsoleReadsHolderStep, ConsoleUnassignsStep,
     ConsoleMarksStep, ConsoleReadsBackStep, ConsoleMirrorsStep DEF Row!Console
<1>7. CASE UNCHANGED Row!vars
  <2>1. ShapeInv /\ RowInv /\ ClickInv
    BY DEF MInv
  <2>2. takeover' \in TakeoverOf /\ click' \in ClickOf /\ unplaced' \in BOOLEAN /\ clicks' \in Nat /\ upsets' \in Nat
    BY <2>1, <1>7 DEF ShapeInv, Row!vars
  <2>3. RowInv' /\ ClickInv'
    BY <2>1, <1>7 DEF RowInv, ClickInv, Row!Version, Row!vars
  <2>4. ~unplaced' => /\ AtWork' = AtWork /\ (takeover.pc = "toggle" => takeover'.pc = "toggle")
                      /\ takeover'.pc = "reconcile" => taken.own <= takeover'.live
    BY <1>7 DEF MInv, PlacedInv, ClaimInv, AtWork, Row!vars
  <2>. QED BY <1>7, <2>2, <2>3, <2>4, StillStep DEF Row!vars
<1>. QED BY <1>1, <1>2, <1>3, <1>4, <1>5, <1>6, <1>7 DEF Row!Next

LEMMA Quieted == MInv => Row!AgreesWhenQuiet
<1> SUFFICES ASSUME MInv, Row!Quiet, ~unplaced
             PROVE  mirror.status = Row!Now.status /\ mirror.holder = Row!Now.holder
  BY DEF Row!AgreesWhenQuiet
<1>0. PlacedInv /\ ShapeInv /\ RowInv /\ ~AtWork /\ \A v : ~Coming(v)
  BY DEF MInv, Row!Quiet, AtWork, Coming
<1>1. PICK w \in 1..Row!Version :
        w = mirror.statusAt /\ \A u \in w..Row!Version : Status(u) = Status(Row!Version)
  BY <1>0 DEF PlacedInv, StatusInv, StatusIsComing, Deferred
<1>2. PICK x \in 1..Row!Version :
        x = mirror.assigneeAt /\ \A u \in x..Row!Version : Holder(u) = Holder(Row!Version)
  BY <1>0 DEF PlacedInv, HolderInv, HolderIsComing
<1>3. mirror.exists
  BY <1>0, <1>1 DEF RowInv, Row!NoRow
<1>4. mirror.status = Status(w) /\ mirror.holder = Holder(x)
  BY <1>0, <1>1, <1>2, <1>3 DEF PlacedInv, HolderInv, HolderIsPlaced, StatusInv, StatusIsPlaced
<1>. QED BY <1>0, <1>1, <1>2, <1>4, Sources DEF Status, Holder, Row!Now

LEMMA TakenOver == MInv => Row!TakenOverStaysQuiet
BY DEF MInv, PlacedInv, TakenInv, Row!TakenOverStaysQuiet, Row!OursToAnswer

\* Only the claim goes on to the toggle from there, and what it swaps is what the fence saw.
LEMMA Clicked == MInv /\ [Row!Next]_(Row!vars) => [Row!ClaimsUnderNoClick]_(Row!vars)
<1> SUFFICES ASSUME MInv, [Row!Next]_(Row!vars), takeover.pc = "claim", takeover'.pc = "toggle"
             PROVE  mirror.console = 0 \/ mirror.console < takeover.msg
  BY DEF Row!ClaimsUnderNoClick
<1>0. ShapeInv /\ ClickInv /\ Row!NoTakeover.pc = "idle"
  BY NoTakeoverIs DEF MInv
<1>1. takeover' # takeover
  OBVIOUS
<1>2. Row!Takeover \/ Row!TakeoverStrands \/ Row!TakeoverRecovers \/ \E d \in transit : Row!Mirrors(d)
  BY <1>1, Zenon
  DEF Row!Next, Row!vars, Row!CustomerWrites, Row!ColleagueReplies, Row!AttendantMoves, Row!ClaimExpires,
      Row!ConsoleReads, Row!Console, Row!ConsoleAssigns, Row!ConsoleToggles, Row!ConsoleReadsHolder,
      Row!ConsoleUnassigns, Row!ConsoleMarks, Row!ConsoleReadsBack, Row!ConsoleMirrors
<1>3. ~Row!TakeoverRecovers /\ ~(\E d \in transit : Row!Mirrors(d))
  BY <1>1 DEF Row!TakeoverRecovers, Row!Mirrors
<1>4. ~Row!TakeoverStrands
  <2>1. [takeover EXCEPT !.pc = "stranded"].pc = "stranded"
    BY <1>0, TakeoverFields DEF Pcs
  <2>. QED BY <2>1 DEF Row!TakeoverStrands, Row!TakeoverGoesTo
<1>5. Row!TakeoverClaims
  BY <1>2, <1>3, <1>4
  DEF Row!Takeover, Row!TakeoverGates, Row!TakeoverFences, Row!TakeoverToggles, Row!TakeoverReadsBack,
      Row!TakeoverReconciles
<1>6. Row!Seen(mirror) = takeover.seen
  BY <1>0, <1>5 DEF Row!TakeoverClaims, Row!TakeoverEnds
<1>. QED BY <1>0, <1>6 DEF ClickInv, Row!Seen

-----------------------------------------------------------------------------
(* The services run. *)

\* A step of the run is one of the conversation's or leaves it alone.
LEMMA RowMoves == [UnionNext]_allVars => [Row!Next]_(Row!vars)
<1>1. UnionNext => Row!Next \/ UNCHANGED mirrorVars
  BY Zenon DEF UnionNext
<1>2. UNCHANGED allVars => UNCHANGED mirrorVars
  BY Zenon DEF allVars
<1>3. UNCHANGED mirrorVars => UNCHANGED Row!vars
  BY DEF mirrorVars, Row!vars
<1>. QED BY <1>1, <1>2, <1>3

\* The inductive invariant of the mirrored row, in every instance of the run.
THEOREM MInvHolds == UnionSpec => []MInv
<1>1. UnionInit => MInv
  BY InitMInv, Zenon DEF UnionInit
<1>. QED BY <1>1, MInvStep, RowMoves, PTL DEF UnionSpec

\* Once every payload has landed, in whatever order, and no takeover and no click is under way, the
\* row says what Chatwoot says, unless something was written that no version could place (mirror.ts,
\* state-order.ts, reconcile.ts).
THEOREM MirrorAgrees == UnionSpec => []AgreesWhenQuiet
BY MInvHolds, Quieted, PTL DEF AgreesWhenQuiet

\* While a takeover's claim stands the row gives the conversation back to the agent only when
\* Chatwoot did after the reply, whatever frozen payload, live read or click arrives (status-claim.ts).
THEOREM MirrorStaysTaken == UnionSpec => []TakenOverStaysQuiet
BY MInvHolds, TakenOver, PTL DEF TakenOverStaysQuiet

\* A takeover never claims the row over a click that was marked after the reply it answers, whether it
\* is decided at first or by a recovery and whenever the mark falls between the fence and the claim
\* (human-takeover.ts, recover-takeover.ts).  What a recovery finishes makes no claim.
THEOREM ClicksOutrankClaims == UnionSpec => ClaimsUnderNoClick
<1>1. MInv /\ [UnionNext]_allVars => [Row!ClaimsUnderNoClick]_allVars
  <2>1. UNCHANGED Row!vars => ~(takeover.pc = "claim" /\ takeover'.pc = "toggle")
    BY DEF Row!vars
  <2>. QED BY <2>1, Clicked, RowMoves DEF Row!ClaimsUnderNoClick
<1> QED
  BY <1>1, MInvHolds, PTL DEF UnionSpec, ClaimsUnderNoClick

=============================================================================
