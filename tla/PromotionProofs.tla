-------------------------- MODULE PromotionProofs --------------------------
(***************************************************************************)
(* Proofs about Promotion for every number of claims and of overlapping    *)
(* runs, every threshold, batch size and confidence: type correctness,     *)
(* FactsCorroborated, SourceLossAccounted and BoostedOnce.                 *)
(***************************************************************************)
EXTENDS Promotion, TLAPS, FiniteSetTheorems

\* The evidence that all ACTIVE claims have together.
Support == UNION {evidence[d] : d \in Active}

\* A count of c that was large enough need not be repeated: it would be large
\* enough again, or a claim has left since, or c itself has.
Grounded(c) ==
  \/ state[c] = "LEFT"
  \/ Cardinality(Support) >= Threshold
  \/ c \in thin

\* What a run knows of the claims it holds.
JobOK(j) ==
  /\ \A c \in j.todo : state[c] # "NONE"
  /\ \A k \in j.found :
       state[k.claim] # "NONE" /\ k.count >= Threshold /\ Grounded(k.claim)
  /\ j.pc \in {"verify", "write", "clean"} =>
       j.claim \in Claim /\ state[j.claim] # "NONE"
  /\ j.pc \in {"verify", "write"} =>
       j.count >= Threshold /\ Grounded(j.claim)
  /\ j.pc = "clean" => j.claim \in was \/ state[j.claim] = "LEFT"

\* demote works on a claim that nobody else can write.
DemotionOK ==
  demotion.pc # "idle" =>
    /\ demotion.claim \in fact
    /\ demotion.conf = conf[demotion.claim]

\* The inductive invariant.
Inv ==
  /\ TypeOK
  /\ \A c \in fact : Grounded(c)
  /\ fact \subseteq was
  /\ \A r \in Run : JobOK(job[r])
  /\ DemotionOK
  /\ SourceLossAccounted

-----------------------------------------------------------------------------
(* Sets of evidence.                                                       *)

\* The evidence of some claims is finite, and more claims have no less.
LEMMA EvidenceOf ==
  ASSUME TypeOK, NEW S \in SUBSET Claim
  PROVE  /\ UNION {evidence[d] : d \in S} \subseteq Memory \cup Uri
         /\ IsFiniteSet(UNION {evidence[d] : d \in S})
         /\ Cardinality(UNION {evidence[d] : d \in S}) \in Nat
<1>1. UNION {evidence[d] : d \in S} \subseteq Memory \cup Uri
  BY DEF TypeOK
<1>2. IsFiniteSet(Memory \cup Uri)
  BY PromotionAssumption, FS_Union
<1>3. IsFiniteSet(UNION {evidence[d] : d \in S})
  BY <1>1, <1>2, FS_Subset
<1>4. QED
  BY <1>1, <1>3, FS_CardinalityType

\* What is counted for a claim that is ACTIVE is what all of them have.
LEMMA CountedActive ==
  ASSUME NEW c \in Active
  PROVE  Counted(c) = Active
BY DEF Counted

LEMMA CorroborationType ==
  ASSUME TypeOK, NEW c \in Claim
  PROVE  Corroboration(c) \in Nat
<1>1. Counted(c) \in SUBSET Claim
  BY DEF Counted, Active
<1>2. QED
  BY <1>1, EvidenceOf DEF Corroboration

\* A count that reaches the threshold does so for a reason that no later count
\* of the same claim takes away.
LEMMA CountGrounds ==
  ASSUME TypeOK, NEW c \in Claim, state[c] # "NONE",
         Corroboration(c) >= Threshold
  PROVE  state[c] = "LEFT" \/ Cardinality(Support) >= Threshold
<1>1. state[c] \in {"ACTIVE", "LEFT"}
  BY DEF TypeOK
<1>2. CASE state[c] = "ACTIVE"
  BY <1>2, CountedActive DEF Active, Corroboration, Support
<1>3. QED
  BY <1>1, <1>2

-----------------------------------------------------------------------------
(* Types.                                                                  *)

LEMMA FaultType ==
  ASSUME faults \in 0 .. MaxFaults, Fault
  PROVE  faults' \in 0 .. MaxFaults
BY PromotionAssumption DEF Fault

LEMMA Idles == NoJob \in JobRecord /\ NoDemotion \in DemotionRecord
BY DEF NoJob, NoDemotion, JobRecord, DemotionRecord

\* The fields of a run's record.
LEMMA JobFields ==
  ASSUME NEW j \in JobRecord
  PROVE  /\ j.todo \subseteq Claim /\ j.found \subseteq Candidate
         /\ j.claim \in Claim \cup {NoClaim}
         /\ j.count \in Nat /\ j.conf \in 0 .. 10
         /\ \A k \in j.found : k.claim \in Claim /\ k.count \in Nat
BY DEF JobRecord, Candidate

\* A call of promote that is over leaves the lists of its run as they are.
LEMMA ReadyJob ==
  ASSUME TypeOK, NEW r \in Run
  PROVE  /\ Ready(r) \in JobRecord /\ Ready(r).pc = "each"
         /\ Ready(r).todo = job[r].todo /\ Ready(r).found = job[r].found
<1>1. PICK j \in JobRecord : j = job[r]
  BY DEF TypeOK
<1>2. PICK q : q = [j EXCEPT !.pc = "each", !.claim = NoClaim, !.count = 0,
                            !.conf = 0]
  OBVIOUS
<1>3. q = [pc |-> "each", todo |-> j.todo, found |-> j.found,
            claim |-> NoClaim, count |-> 0, conf |-> 0]
  BY <1>2 DEF JobRecord
<1>4. q \in JobRecord
  BY <1>3, JobFields DEF JobRecord
<1>5. q.pc = "each" /\ q.todo = j.todo /\ q.found = j.found
  BY <1>2 DEF JobRecord
<1>6. q = Ready(r)
  BY <1>1, <1>2 DEF Ready
<1>7. QED
  BY <1>1, <1>4, <1>6, <1>5

LEMMA ReadyOK ==
  ASSUME TypeOK, NEW r \in Run, JobOK(job[r])
  PROVE  JobOK(Ready(r))
BY ReadyJob DEF JobOK

\* What an update makes of a confidence.
LEMMA PromotedConfidence ==
  ASSUME NEW a \in 0 .. 10, NEW n \in Nat, n >= Threshold
  PROVE  Least(10, a + (n - Threshold + 1)) \in 1 .. 10
BY PromotionAssumption DEF Least

-----------------------------------------------------------------------------
(* How one run steps.  Advance(r, j) is that run r takes the record j and  *)
(* nothing changes that another part of the invariant is about.            *)

Advance(r, j) ==
  /\ j \in JobRecord
  /\ job' = [job EXCEPT ![r] = j]
  /\ UNCHANGED <<claimVars, fact, conf, learn, demotion, was>>

\* Every statement of a run other than the update itself.
LEMMA RunAdvances ==
  ASSUME Inv, NEW r \in Run,
         \/ List(r) \/ RunEnds(r) \/ Verify(r) \/ PromoteClean(r)
         \/ PromoteFails(r) \/ RunDies(r)
         \/ \E k \in job[r].found : PromoteRead(r, k)
  PROVE  /\ \E j \in JobRecord : Advance(r, j) /\ JobOK(j)
         /\ thin' = thin
         /\ faults' \in 0 .. MaxFaults
<1>1. job[r] \in JobRecord /\ JobOK(job[r]) /\ TypeOK
  BY DEF Inv, TypeOK
<1>2. faults \in 0 .. MaxFaults
  BY <1>1 DEF TypeOK
<1>3. CASE List(r)
  <2>1. PICK b \in Batches :
          job' = [job EXCEPT ![r] = [NoJob EXCEPT !.pc = "each", !.todo = b]]
    BY <1>3 DEF List
  <2>2. PICK j : j = [NoJob EXCEPT !.pc = "each", !.todo = b]
    OBVIOUS
  <2>3. b \subseteq Active
    BY DEF Batches, Unpromoted
  <2>4. j \in JobRecord /\ j.pc = "each" /\ j.todo = b /\ j.found = {}
    BY <2>2, <2>3, Idles DEF NoJob, JobRecord, Active
  <2>5. JobOK(j)
    BY <2>3, <2>4 DEF JobOK, Active
  <2>6. QED
    BY <1>2, <1>3, <2>1, <2>2, <2>4, <2>5 DEF List, Advance
<1>4. CASE RunEnds(r)
  <2>1. JobOK(NoJob)
    BY DEF JobOK, NoJob
  <2>2. QED
    BY <1>2, <1>4, <2>1, Idles DEF RunEnds, Advance
<1>5. CASE Verify(r)
  <2>1. PICK j : j = [job[r] EXCEPT !.pc = "write"]
    OBVIOUS
  <2>2. job[r].pc = "verify"
    BY <1>5 DEF Verify
  <2>3. /\ j \in JobRecord /\ j.pc = "write" /\ j.claim = job[r].claim
        /\ j.count = job[r].count /\ j.todo = job[r].todo
        /\ j.found = job[r].found
    BY <1>1, <2>1 DEF JobRecord
  <2>4. JobOK(j)
    BY <1>1, <2>2, <2>3 DEF JobOK
  <2>5. faults' \in 0 .. MaxFaults
    BY <1>2, <1>5, FaultType DEF Verify, Supports
  <2>6. \/ job' = [job EXCEPT ![r] = j]
        \/ job' = [job EXCEPT ![r] = Ready(r)]
    BY <1>1, <1>5, <2>1 DEF Verify, TypeOK
  <2>7. QED
    BY <1>1, <1>5, <2>3, <2>4, <2>5, <2>6, ReadyJob, ReadyOK
    DEF Verify, Advance
<1>6. CASE PromoteClean(r)
  BY <1>1, <1>2, <1>6, FaultType, ReadyJob, ReadyOK DEF PromoteClean, Advance
<1>7. CASE PromoteFails(r)
  BY <1>1, <1>2, <1>7, FaultType, ReadyJob, ReadyOK DEF PromoteFails, Advance
<1>8. CASE RunDies(r)
  <2>1. JobOK(NoJob)
    BY DEF JobOK, NoJob
  <2>2. QED
    BY <1>2, <1>8, <2>1, FaultType, Idles DEF RunDies, Advance
<1>9. ASSUME NEW k \in job[r].found, PromoteRead(r, k)
      PROVE  /\ \E j \in JobRecord : Advance(r, j) /\ JobOK(j)
             /\ thin' = thin
             /\ faults' \in 0 .. MaxFaults
  <2>1. PICK j : j = IF k.claim \in Unpromoted
                     THEN [job[r] EXCEPT
                             !.pc = "verify", !.found = @ \ {k},
                             !.claim = k.claim, !.count = k.count,
                             !.conf = conf[k.claim]]
                     ELSE [job[r] EXCEPT !.found = @ \ {k}]
    OBVIOUS
  <2>2. job[r].pc = "each"
    BY <1>9 DEF PromoteRead
  <2>3. k.claim \in Claim /\ k.count \in Nat
    BY <1>1, JobFields
  <2>4. conf[k.claim] \in 0 .. 10
    BY <1>1, <2>3 DEF TypeOK
  <2>5. /\ j \in JobRecord /\ j.todo = job[r].todo
        /\ j.found = job[r].found \ {k}
        /\ \/ j.pc = "each"
           \/ j.pc = "verify" /\ j.claim = k.claim /\ j.count = k.count
    BY <1>1, <2>1, <2>2, <2>3, <2>4 DEF JobRecord
  <2>6. /\ state[k.claim] # "NONE" /\ k.count >= Threshold
        /\ Grounded(k.claim)
    BY <1>1 DEF JobOK
  <2>7. JobOK(j)
    BY <1>1, <2>3, <2>5, <2>6 DEF JobOK
  <2>8. job' = [job EXCEPT ![r] = j]
    BY <1>9, <2>1 DEF PromoteRead
  <2>9. QED
    BY <1>2, <1>9, <2>5, <2>7, <2>8 DEF PromoteRead, Advance
<1>10. QED
  BY <1>3, <1>4, <1>5, <1>6, <1>7, <1>8, <1>9

\* The update of promote.
LEMMA WriteAdvances ==
  ASSUME Inv, NEW r \in Run, PromoteWrite(r)
  PROVE  \E j \in JobRecord :
           /\ job' = [job EXCEPT ![r] = j]
           /\ j.pc = "clean" /\ j.claim = job[r].claim
           /\ j.todo = job[r].todo /\ j.found = job[r].found
<1>1. job[r] \in JobRecord
  BY DEF Inv, TypeOK
<1>2. PICK j : j = [job[r] EXCEPT !.pc = "clean"]
  OBVIOUS
<1>3. /\ j \in JobRecord /\ j.pc = "clean" /\ j.claim = job[r].claim
      /\ j.todo = job[r].todo /\ j.found = job[r].found
  BY <1>1, <1>2 DEF JobRecord
<1>4. job' = [job EXCEPT ![r] = j]
  BY <1>2 DEF PromoteWrite, Inv, TypeOK
<1>5. QED
  BY <1>3, <1>4

\* The count of a run: a claim comes off its list, and may be found.
LEMMA CheckAdvances ==
  ASSUME Inv, NEW r \in Run, NEW c \in Claim, Check(r, c)
  PROVE  /\ state[c] # "NONE"
         /\ \E j \in JobRecord :
              /\ Advance(r, j)
              /\ j.pc = "each" /\ j.todo \subseteq job[r].todo
              /\ \A k \in j.found :
                   \/ k \in job[r].found
                   \/ /\ k.claim = c /\ k.count >= Threshold
                      /\ \/ state[c] = "LEFT"
                         \/ Cardinality(Support) >= Threshold
<1>1. job[r] \in JobRecord /\ JobOK(job[r]) /\ TypeOK
  BY DEF Inv, TypeOK
<1>2. PICK n \in Nat : n = Corroboration(c)
  BY <1>1, CorroborationType
<1>3. PICK f : f = IF n >= Threshold
                   THEN job[r].found \cup {[claim |-> c, count |-> n]}
                   ELSE job[r].found
  OBVIOUS
<1>4. PICK j : j = [job[r] EXCEPT !.todo = @ \ {c}, !.found = f]
  OBVIOUS
<1>5. job[r].pc = "each" /\ c \in job[r].todo
  BY DEF Check
<1>6. f \subseteq Candidate
  BY <1>1, <1>2, <1>3, JobFields DEF Candidate
<1>7. /\ j \in JobRecord /\ j.pc = "each"
      /\ j.todo = job[r].todo \ {c} /\ j.found = f
  BY <1>1, <1>4, <1>5, <1>6 DEF JobRecord
<1>8. state[c] # "NONE"
  BY <1>1, <1>5 DEF JobOK
<1>9. n >= Threshold =>
        state[c] = "LEFT" \/ Cardinality(Support) >= Threshold
  BY <1>1, <1>2, <1>8, CountGrounds
<1>10. job' = [job EXCEPT ![r] = j]
  BY <1>1, <1>2, <1>3, <1>4 DEF Check, TypeOK
<1>11. Advance(r, j)
  BY <1>7, <1>10 DEF Check, Advance
<1>12. QED
  BY <1>3, <1>7, <1>8, <1>9, <1>11

-----------------------------------------------------------------------------
(* What every step leaves standing.                                        *)

\* A claim that is stored stays so, one that has left does not return, and
\* what was a fact was one; grounds are not lost while somebody rests on them.
Steady ==
  /\ \A c \in Claim :
       /\ state[c] # "NONE" => state'[c] # "NONE"
       /\ state[c] = "LEFT" => state'[c] = "LEFT"
  /\ was \subseteq was'
  /\ \A c \in Claim \cap (fact \cup Pending) : Grounded(c) => Grounded(c)'

\* Which steps can disturb grounds.
LEMMA GroundSteps ==
  ASSUME [Next]_vars
  PROVE  \/ \E c \in Claim : Learn(c) \/ Leave(c)
         \/ \E r \in Run, c \in Claim : Check(r, c)
         \/ UNCHANGED <<state, evidence, thin>>
BY DEF Next, RunStep, vars, claimVars, CreateSource, LinkSource, LearnFails,
   DemoteRead, CleanupOrphanSources, List, RunEnds, Verify, PromoteWrite,
   PromoteClean, PromoteRead, PromoteFails, RunDies, DemoteRecount,
   DemoteWrite, DemoteFails

LEMMA WasGrows ==
  ASSUME [Next]_vars
  PROVE  was \subseteq was'
BY DEF Next, RunStep, vars, claimVars, Learn, Leave, Check, CreateSource,
   LinkSource, LearnFails, DemoteRead, CleanupOrphanSources, List, RunEnds,
   Verify, PromoteWrite, Promoted, PromoteClean, PromoteRead, PromoteFails,
   RunDies, DemoteRecount, DemoteWrite, DemoteFails

\* A new claim adds to the evidence there is.
LEMMA LearnSupports ==
  ASSUME TypeOK, TypeOK', NEW c \in Claim, Learn(c),
         Cardinality(Support) >= Threshold
  PROVE  Cardinality(Support') >= Threshold
<1>1. PICK old : old = Support
  OBVIOUS
<1>2. PICK new : new = Support'
  OBVIOUS
<1>3. Active \in SUBSET Claim /\ Active' \in SUBSET Claim
  BY DEF Active
<1>4. Cardinality(old) \in Nat
  BY <1>1, <1>3, EvidenceOf DEF Support
<1>5. IsFiniteSet(new) /\ Cardinality(new) \in Nat
  <2>1. PICK q : q = evidence'
    OBVIOUS
  <2>2. PICK A : A = Active'
    OBVIOUS
  <2>3. q \in [Claim -> SUBSET (Memory \cup Uri)] /\ A \subseteq Claim
    BY <1>3, <2>1, <2>2 DEF TypeOK
  <2>4. new = UNION {q[d] : d \in A}
    BY <1>2, <2>1, <2>2 DEF Support
  <2>5. new \subseteq Memory \cup Uri
    BY <2>3, <2>4
  <2>6. IsFiniteSet(Memory \cup Uri)
    BY PromotionAssumption, FS_Union
  <2>7. IsFiniteSet(new)
    BY <2>5, <2>6, FS_Subset
  <2>8. QED
    BY <2>7, FS_CardinalityType
<1>6. \A d \in Active : d \in Active' /\ evidence'[d] = evidence[d]
  BY DEF Learn, Active, TypeOK
<1>7. old \subseteq new
  BY <1>1, <1>2, <1>6 DEF Support
<1>8. Cardinality(old) =< Cardinality(new)
  BY <1>5, <1>7, FS_Subset
<1>9. Cardinality(new) >= Threshold
  BY <1>1, <1>4, <1>5, <1>8, PromotionAssumption
<1>10. QED
  BY <1>2, <1>9

LEMMA StepSteady ==
  ASSUME TypeOK, TypeOK', [Next]_vars
  PROVE  Steady
<1>1. was \subseteq was'
  BY WasGrows
<1>2. ASSUME NEW c \in Claim, Learn(c) PROVE Steady
  <2>1. /\ state[c] = "NONE" /\ state' = [state EXCEPT ![c] = "ACTIVE"]
        /\ thin' = thin
    BY <1>2 DEF Learn
  <2>2. \A d \in Claim :
          /\ state[d] # "NONE" => state'[d] # "NONE"
          /\ state[d] = "LEFT" => state'[d] = "LEFT"
    BY <2>1 DEF TypeOK
  <2>3. \A d \in Claim : Grounded(d) => Grounded(d)'
    BY <1>2, <2>1, <2>2, LearnSupports DEF Grounded
  <2>4. QED
    BY <1>1, <2>2, <2>3 DEF Steady
<1>3. ASSUME NEW c \in Claim, Leave(c) PROVE Steady
  <2>1. \A d \in Claim :
          /\ state[d] # "NONE" => state'[d] # "NONE"
          /\ state[d] = "LEFT" => state'[d] = "LEFT"
    BY <1>3 DEF TypeOK, Leave
  <2>2. \A d \in Claim \cap (fact \cup Pending) : d \in thin'
    BY <1>3 DEF Leave
  <2>3. QED
    BY <1>1, <2>1, <2>2 DEF Steady, Grounded
<1>4. ASSUME NEW r \in Run, NEW c \in Claim, Check(r, c) PROVE Steady
  <2>1. UNCHANGED <<state, evidence>>
    BY <1>4 DEF Check, claimVars
  <2>2. Support' = Support
    BY <2>1 DEF Support, Active
  <2>3. \A d \in Claim \cap (fact \cup Pending) : d \in thin => d \in thin'
    BY <1>4 DEF Check
  <2>4. QED
    BY <1>1, <2>1, <2>2, <2>3 DEF Steady, Grounded
<1>5. ASSUME UNCHANGED <<state, evidence, thin>> PROVE Steady
  <2>1. Support' = Support
    BY <1>5 DEF Support, Active
  <2>2. QED
    BY <1>1, <1>5, <2>1 DEF Steady, Grounded
<1>6. QED
  BY <1>2, <1>3, <1>4, <1>5, GroundSteps

\* What a run knows, it still knows after a step that leaves its record alone.
LEMMA JobStands ==
  ASSUME TypeOK, Steady, NEW r \in Run, JobOK(job[r]), NEW j, j = job[r]
  PROVE  JobOK(j)'
<1>1. /\ j \in JobRecord
      /\ \A k \in j.found : k.claim \in Claim \cap Pending
      /\ j.claim \in Pending
  <2>1. j \in JobRecord
    BY DEF TypeOK
  <2>2. QED
    BY <2>1, JobFields DEF Pending
<1>2. j.todo \subseteq Claim
  BY <1>1, JobFields
<1>3. QED
  BY <1>1, <1>2 DEF JobOK, Steady

\* The runs that do not step keep what they know, and the one that does has
\* what its new record asks for.
LEMMA JobsStand ==
  ASSUME TypeOK, Steady, \A s \in Run : JobOK(job[s]),
         NEW r \in Run, NEW j, job' = [job EXCEPT ![r] = j], JobOK(j)'
  PROVE  \A s \in Run : JobOK(job[s])'
<1>1. TAKE s \in Run
<1>2. CASE s = r
  <2>1. job'[s] = j
    BY <1>2 DEF TypeOK
  <2>2. QED
    BY <2>1 DEF JobOK, Grounded, Support, Active
<1>3. CASE s # r
  <2>1. PICK q : q = job[s]
    OBVIOUS
  <2>2. job'[s] = q
    BY <1>3, <2>1 DEF TypeOK
  <2>3. JobOK(q)'
    BY <2>1, JobStands
  <2>4. QED
    BY <2>2, <2>3 DEF JobOK, Grounded, Support, Active
<1>4. QED
  BY <1>2, <1>3

LEMMA JobsRest ==
  ASSUME TypeOK, Steady, \A s \in Run : JobOK(job[s]), job' = job
  PROVE  \A s \in Run : JobOK(job[s])'
<1>1. TAKE s \in Run
<1>2. PICK q : q = job[s]
  OBVIOUS
<1>3. JobOK(q)'
  BY <1>2, JobStands
<1>4. QED
  BY <1>2, <1>3 DEF JobOK, Grounded, Support, Active

-----------------------------------------------------------------------------
(* Every step keeps the types.                                             *)

\* A step of a run that only its own record, the history of withdrawals, the
\* Source nodes and the faults can show.
LEMMA AdvanceTypes ==
  ASSUME TypeOK, NEW r \in Run, NEW j, Advance(r, j),
         thin' \subseteq Claim, faults' \in 0 .. MaxFaults,
         source' \in [Claim -> {"none", "unlinked", "linked", "deleted"}]
  PROVE  TypeOK'
<1>1. job' \in [Run -> JobRecord]
  BY DEF Advance, TypeOK
<1>2. QED
  BY <1>1 DEF TypeOK, Advance, claimVars

\* Where the steps of a run leave the Source nodes.
LEMMA RunSources ==
  ASSUME TypeOK, NEW r \in Run,
         \/ List(r) \/ RunEnds(r) \/ Verify(r) \/ PromoteClean(r)
         \/ PromoteFails(r) \/ RunDies(r)
         \/ \E k \in job[r].found : PromoteRead(r, k)
  PROVE  \/ source' = source
         \/ /\ job[r].pc = "clean"
            /\ source' = [source EXCEPT ![job[r].claim] = "deleted"]
BY DEF List, RunEnds, Verify, PromoteClean, PromoteFails, RunDies, PromoteRead

LEMMA TypeStep ==
  ASSUME Inv, [Next]_vars
  PROVE  TypeOK'
<1>0. TypeOK
  BY DEF Inv
<1>1. ASSUME NEW c \in Claim, Learn(c) PROVE TypeOK'
  <2>1. state' \in [Claim -> {"NONE", "ACTIVE", "LEFT"}]
    BY <1>0, <1>1 DEF TypeOK, Learn
  <2>2. \A d \in Claim : state[d] # "NONE" => state'[d] # "NONE"
    BY <1>0, <1>1 DEF TypeOK, Learn
  <2>3. fact' \subseteq {d \in Claim : state'[d] # "NONE"}
    BY <1>0, <1>1, <2>2 DEF TypeOK, Learn
  <2>4. PICK refs \in Evidence[c] :
          evidence' = [evidence EXCEPT ![c] = refs]
    BY <1>1 DEF Learn
  <2>5. refs \subseteq Memory \cup Uri
    BY PromotionAssumption
  <2>6. evidence' \in [Claim -> SUBSET (Memory \cup Uri)]
    BY <1>0, <2>4, <2>5 DEF TypeOK
  <2>7. learn' \in [Claim -> {"none", "source", "link", "done"}]
    BY <1>0, <1>1 DEF TypeOK, Learn
  <2>8. supported' \subseteq Claim
    BY <1>0, <1>1 DEF TypeOK, Learn
  <2>9. QED
    BY <1>0, <1>1, <2>1, <2>3, <2>6, <2>7, <2>8 DEF TypeOK, Learn
<1>2. ASSUME NEW c \in Claim, CreateSource(c) PROVE TypeOK'
  BY <1>0, <1>2 DEF TypeOK, CreateSource, claimVars
<1>3. ASSUME NEW c \in Claim, LinkSource(c) PROVE TypeOK'
  BY <1>0, <1>3 DEF TypeOK, LinkSource, claimVars
<1>4. ASSUME NEW c \in Claim, LearnFails(c) PROVE TypeOK'
  BY <1>0, <1>4, FaultType DEF TypeOK, LearnFails, claimVars
<1>5. ASSUME NEW c \in Claim, Leave(c) PROVE TypeOK'
  <2>1. state' \in [Claim -> {"NONE", "ACTIVE", "LEFT"}]
    BY <1>0, <1>5 DEF TypeOK, Leave
  <2>2. \A d \in Claim : state[d] # "NONE" => state'[d] # "NONE"
    BY <1>0, <1>5 DEF TypeOK, Leave
  <2>3. fact' \subseteq {d \in Claim : state'[d] # "NONE"}
    BY <1>0, <1>5, <2>2 DEF TypeOK, Leave
  <2>4. thin' \subseteq Claim
    BY <1>0, <1>5 DEF TypeOK, Leave
  <2>5. QED
    BY <1>0, <1>5, <2>1, <2>3, <2>4 DEF TypeOK, Leave
<1>6. CASE CleanupOrphanSources
  BY <1>0, <1>6 DEF TypeOK, CleanupOrphanSources, claimVars
<1>7. ASSUME NEW r \in Run, NEW c \in Claim, Check(r, c) PROVE TypeOK'
  <2>1. PICK j \in JobRecord : Advance(r, j)
    BY <1>7, CheckAdvances
  <2>2. /\ thin' \subseteq Claim /\ faults' \in 0 .. MaxFaults
        /\ source' \in [Claim -> {"none", "unlinked", "linked", "deleted"}]
    BY <1>0, <1>7 DEF TypeOK, Check
  <2>3. QED
    BY <1>0, <2>1, <2>2, AdvanceTypes
<1>8. ASSUME NEW r \in Run,
             \/ List(r) \/ RunEnds(r) \/ Verify(r) \/ PromoteClean(r)
             \/ PromoteFails(r) \/ RunDies(r)
             \/ \E k \in job[r].found : PromoteRead(r, k)
      PROVE  TypeOK'
  <2>1. PICK j \in JobRecord : Advance(r, j)
    BY <1>8, RunAdvances
  <2>2. thin' \subseteq Claim /\ faults' \in 0 .. MaxFaults
    BY <1>0, <1>8, RunAdvances DEF TypeOK
  <2>3. source' \in [Claim -> {"none", "unlinked", "linked", "deleted"}]
    BY <1>0, <1>8, RunSources DEF TypeOK
  <2>4. QED
    BY <1>0, <2>1, <2>2, <2>3, AdvanceTypes
<1>9. ASSUME NEW r \in Run, PromoteWrite(r) PROVE TypeOK'
  <2>1. job' \in [Run -> JobRecord]
    BY <1>0, <1>9, WriteAdvances DEF TypeOK
  <2>2. UNCHANGED <<claimVars, source, learn, demotion, faults, thin>>
    BY <1>9 DEF PromoteWrite
  <2>3. CASE UNCHANGED <<fact, was, conf>>
    BY <1>0, <2>1, <2>2, <2>3 DEF TypeOK, claimVars
  <2>4. CASE job[r].claim \in Unpromoted /\ Promoted(r)
    <3>1. PICK j : j = job[r]
      OBVIOUS
    <3>2. j \in JobRecord /\ JobOK(j) /\ j.pc = "write"
      BY <1>9, <3>1 DEF Inv, TypeOK, PromoteWrite
    <3>3. /\ j.claim \in Claim /\ state[j.claim] # "NONE"
          /\ j.count \in Nat /\ j.count >= Threshold /\ j.conf \in 0 .. 10
      BY <3>2, JobFields DEF JobOK
    <3>4. PICK n \in 1 .. 10 :
            n = Least(10, j.conf + (j.count - Threshold + 1))
      BY <3>3, PromotedConfidence
    <3>5. conf' = [conf EXCEPT ![j.claim] = n]
      BY <2>4, <3>1, <3>4 DEF Promoted
    <3>6. conf' \in [Claim -> 1 .. 10]
      BY <1>0, <3>3, <3>5 DEF TypeOK
    <3>7. /\ fact' \subseteq {d \in Claim : state[d] # "NONE"}
          /\ was' \subseteq Claim
      BY <1>0, <2>4, <3>1, <3>3 DEF TypeOK, Promoted
    <3>8. QED
      BY <1>0, <2>1, <2>2, <3>6, <3>7 DEF TypeOK, claimVars
  <2>5. QED
    BY <1>9, <2>3, <2>4 DEF PromoteWrite
<1>10. ASSUME NEW c \in Claim, DemoteRead(c) PROVE TypeOK'
  <2>1. conf[c] \in 0 .. 10
    BY <1>0 DEF TypeOK
  <2>2. demotion' \in DemotionRecord
    BY <1>10, <2>1 DEF DemoteRead, DemotionRecord
  <2>3. QED
    BY <1>0, <1>10, <2>2 DEF TypeOK, DemoteRead, claimVars
<1>11. CASE DemoteRecount
  <2>1. demotion' \in DemotionRecord
    BY <1>0, <1>11, Idles DEF TypeOK, DemoteRecount, DemotionRecord
  <2>2. QED
    BY <1>0, <1>11, <2>1 DEF TypeOK, DemoteRecount, claimVars
<1>12. CASE DemoteWrite
  <2>1. demotion' \in DemotionRecord
    BY <1>12, Idles DEF DemoteWrite
  <2>2. PICK n : n = IF demotion.conf > 1 THEN demotion.conf - 1 ELSE 1
    OBVIOUS
  <2>3. n \in 1 .. 10
    BY <1>0, <2>2 DEF TypeOK, DemotionRecord
  <2>4. conf' = [conf EXCEPT ![demotion.claim] = n] \/ conf' = conf
    BY <1>12, <2>2 DEF DemoteWrite
  <2>5. conf' \in [Claim -> 1 .. 10]
    BY <1>0, <2>3, <2>4 DEF TypeOK
  <2>6. fact' \subseteq fact
    BY <1>12 DEF DemoteWrite
  <2>7. QED
    BY <1>0, <1>12, <2>1, <2>5, <2>6 DEF TypeOK, DemoteWrite, claimVars
<1>13. CASE DemoteFails
  BY <1>0, <1>13, Idles, FaultType DEF TypeOK, DemoteFails, claimVars
<1>14. CASE UNCHANGED vars
  BY <1>0, <1>14 DEF TypeOK, vars, claimVars
<1>15. QED
  BY <1>1, <1>2, <1>3, <1>4, <1>5, <1>6, <1>7, <1>8, <1>9, <1>10, <1>11,
     <1>12, <1>13, <1>14
  DEF Next, RunStep

-----------------------------------------------------------------------------
(* Every step keeps the rest of the invariant.                             *)

LEMMA JobsStep ==
  ASSUME Inv, Steady, [Next]_vars
  PROVE  \A r \in Run : JobOK(job[r])'
<1>0. TypeOK /\ \A r \in Run : JobOK(job[r])
  BY DEF Inv
<1>1. ASSUME NEW r \in Run, NEW j \in JobRecord, Advance(r, j), JobOK(j),
             thin' = thin
      PROVE  \A s \in Run : JobOK(job[s])'
  <2>1. JobOK(j)'
    BY <1>1 DEF Advance, claimVars, JobOK, Grounded, Support, Active
  <2>2. job' = [job EXCEPT ![r] = j]
    BY <1>1 DEF Advance
  <2>3. QED
    BY <1>0, <2>1, <2>2, JobsStand
<1>2. ASSUME NEW r \in Run,
             \/ List(r) \/ RunEnds(r) \/ Verify(r) \/ PromoteClean(r)
             \/ PromoteFails(r) \/ RunDies(r)
             \/ \E k \in job[r].found : PromoteRead(r, k)
      PROVE  \A s \in Run : JobOK(job[s])'
  BY <1>1, <1>2, RunAdvances
<1>3. ASSUME NEW r \in Run, PromoteWrite(r)
      PROVE  \A s \in Run : JobOK(job[s])'
  <2>1. PICK q : q = job[r]
    OBVIOUS
  <2>2. PICK j \in JobRecord :
          /\ job' = [job EXCEPT ![r] = j]
          /\ j.pc = "clean" /\ j.claim = q.claim
          /\ j.todo = q.todo /\ j.found = q.found
    BY <1>3, <2>1, WriteAdvances
  <2>3. JobOK(q) /\ JobOK(q)' /\ q.pc = "write"
    BY <1>0, <1>3, <2>1, JobStands DEF PromoteWrite
  <2>4. q.claim \in Claim /\ state[q.claim] # "NONE"
    BY <2>3 DEF JobOK
  <2>5. q.claim \in was' \/ state'[q.claim] = "LEFT"
    <3>1. CASE q.claim \in Unpromoted
      BY <1>3, <2>1, <3>1 DEF PromoteWrite, Promoted
    <3>2. CASE q.claim \in fact
      BY <3>2 DEF Inv, Steady
    <3>3. CASE q.claim \notin Active
      BY <1>0, <2>4, <3>3 DEF TypeOK, Active, Steady
    <3>4. QED
      BY <3>1, <3>2, <3>3 DEF Unpromoted
  <2>6. JobOK(j)'
    BY <2>2, <2>3, <2>5 DEF JobOK
  <2>7. QED
    BY <1>0, <2>2, <2>6, JobsStand
<1>4. ASSUME NEW r \in Run, NEW c \in Claim, Check(r, c)
      PROVE  \A s \in Run : JobOK(job[s])'
  <2>1. PICK q : q = job[r]
    OBVIOUS
  <2>2. state[c] # "NONE"
    BY <1>4, CheckAdvances
  <2>3. PICK j \in JobRecord :
          /\ Advance(r, j)
          /\ j.pc = "each" /\ j.todo \subseteq q.todo
          /\ \A k \in j.found :
               \/ k \in q.found
               \/ /\ k.claim = c /\ k.count >= Threshold
                  /\ \/ state[c] = "LEFT"
                     \/ Cardinality(Support) >= Threshold
    BY <1>4, <2>1, CheckAdvances
  <2>4. job' = [job EXCEPT ![r] = j] /\ UNCHANGED <<state, evidence>>
    BY <2>3 DEF Advance, claimVars
  <2>5. Support' = Support
    BY <2>4 DEF Support, Active
  <2>6. JobOK(q)'
    BY <1>0, <2>1, JobStands
  <2>7. JobOK(j)'
    BY <2>2, <2>3, <2>4, <2>5, <2>6 DEF JobOK, Grounded
  <2>8. QED
    BY <1>0, <2>4, <2>7, JobsStand
<1>5. ASSUME job' = job PROVE \A s \in Run : JobOK(job[s])'
  BY <1>0, <1>5, JobsRest
<1>6. QED
  BY <1>2, <1>3, <1>4, <1>5
  DEF Next, RunStep, vars, Learn, CreateSource, LinkSource, LearnFails, Leave,
      DemoteRead, CleanupOrphanSources, DemoteRecount, DemoteWrite, DemoteFails

LEMMA FactsStep ==
  ASSUME Inv, Steady, [Next]_vars
  PROVE  \A c \in fact' : Grounded(c)'
<1>1. ASSUME NEW c \in fact PROVE Grounded(c)'
  BY <1>1 DEF Inv, TypeOK, Steady
<1>2. ASSUME NEW r \in Run, PromoteWrite(r), NEW c \in fact', c \notin fact
      PROVE  Grounded(c)'
  <2>1. c = job[r].claim
    BY <1>2 DEF PromoteWrite, Promoted
  <2>2. JobOK(job[r]) /\ job[r].pc = "write"
    BY <1>2 DEF Inv, PromoteWrite
  <2>3. c \in Claim /\ Grounded(c)
    BY <2>1, <2>2 DEF JobOK
  <2>4. c \in Pending
    BY <2>1 DEF Pending
  <2>5. QED
    BY <2>3, <2>4 DEF Steady
<1>3. ASSUME ~ \E r \in Run : PromoteWrite(r) PROVE fact' \subseteq fact
  BY <1>3
  DEF Next, RunStep, vars, Learn, CreateSource, LinkSource, LearnFails, Leave,
      DemoteRead, CleanupOrphanSources, DemoteRecount, DemoteWrite,
      DemoteFails, List, RunEnds, Verify, PromoteClean, PromoteFails, RunDies,
      PromoteRead, Check
<1>4. QED
  BY <1>1, <1>2, <1>3

\* Who becomes a fact has been one.
LEMMA WasStep ==
  ASSUME Inv, [Next]_vars
  PROVE  fact' \subseteq was'
<1>1. fact \subseteq was
  BY DEF Inv
<1>2. QED
  BY <1>1
  DEF Next, RunStep, vars, Learn, CreateSource, LinkSource, LearnFails, Leave,
      DemoteRead, CleanupOrphanSources, DemoteRecount, DemoteWrite,
      DemoteFails, List, RunEnds, Verify, PromoteClean, PromoteFails, RunDies,
      PromoteRead, Check, PromoteWrite, Promoted

\* Nobody but demote itself writes a fact.
LEMMA DemotionStep ==
  ASSUME Inv, [Next]_vars
  PROVE  DemotionOK'
<1>0. TypeOK /\ DemotionOK
  BY DEF Inv
<1>1. ASSUME NEW c \in Claim, DemoteRead(c) PROVE DemotionOK'
  BY <1>1 DEF DemoteRead, DemotionOK
<1>2. CASE DemoteRecount
  BY <1>0, <1>2 DEF DemoteRecount, DemotionOK, NoDemotion, TypeOK,
     DemotionRecord
<1>3. CASE DemoteWrite
  BY <1>3 DEF DemoteWrite, DemotionOK, NoDemotion
<1>4. CASE DemoteFails
  BY <1>4 DEF DemoteFails, DemotionOK, NoDemotion
<1>5. ASSUME NEW r \in Run, PromoteWrite(r) PROVE DemotionOK'
  <2>1. demotion' = demotion
    BY <1>5 DEF PromoteWrite
  <2>2. ASSUME NEW c \in fact PROVE c \in fact' /\ conf'[c] = conf[c]
    <3>1. c \in Claim
      BY <1>0 DEF TypeOK
    <3>2. QED
      BY <1>0, <1>5, <3>1 DEF PromoteWrite, Promoted, Unpromoted, TypeOK
  <2>3. QED
    BY <1>0, <2>1, <2>2 DEF DemotionOK
<1>6. ASSUME UNCHANGED <<fact, conf, demotion>> PROVE DemotionOK'
  BY <1>0, <1>6 DEF DemotionOK
<1>7. QED
  BY <1>1, <1>2, <1>3, <1>4, <1>5, <1>6
  DEF Next, RunStep, vars, Learn, CreateSource, LinkSource, LearnFails, Leave,
      CleanupOrphanSources, List, RunEnds, Verify, PromoteClean, PromoteFails,
      RunDies, PromoteRead, Check

\* A Source node is deleted by the run that has promoted its claim, or has
\* seen that somebody else did or that the claim has left.
LEMMA SourceStep ==
  ASSUME Inv, Steady, [Next]_vars
  PROVE  SourceLossAccounted'
<1>0. TypeOK /\ SourceLossAccounted
  BY DEF Inv
<1>1. SUFFICES ASSUME NEW c \in Claim, source'[c] = "deleted"
               PROVE  c \in was' \/ state'[c] = "LEFT"
  BY DEF SourceLossAccounted
<1>2. CASE source[c] = "deleted"
  BY <1>0, <1>2 DEF SourceLossAccounted, Steady
<1>3. CASE source[c] # "deleted"
  <2>1. ASSUME NEW r \in Run, PromoteClean(r)
        PROVE  c \in was' \/ state'[c] = "LEFT"
    <3>1. job[r].pc = "clean" /\ JobOK(job[r])
      BY <2>1 DEF Inv, PromoteClean
    <3>2. c = job[r].claim
      BY <1>0, <1>1, <1>3, <2>1 DEF PromoteClean, TypeOK
    <3>3. QED
      BY <3>1, <3>2 DEF JobOK, Steady
  <2>2. ASSUME ~ \E r \in Run : PromoteClean(r) PROVE FALSE
    BY <1>0, <1>1, <1>3, <2>2
    DEF TypeOK, Next, RunStep, vars, Learn, CreateSource, LinkSource,
        LearnFails, Leave, DemoteRead, CleanupOrphanSources, DemoteRecount,
        DemoteWrite, DemoteFails, List, RunEnds, Verify, PromoteFails,
        RunDies, PromoteRead, Check, PromoteWrite
  <2>3. QED
    BY <2>1, <2>2
<1>4. QED
  BY <1>2, <1>3

-----------------------------------------------------------------------------
(* The theorems.                                                           *)

LEMMA InitInv == Init => Inv
<1> SUFFICES ASSUME Init PROVE Inv
  OBVIOUS
<1>1. TypeOK
  BY PromotionAssumption, Idles DEF Init, TypeOK
<1>2. \A r \in Run : JobOK(job[r])
  BY DEF Init, JobOK, NoJob
<1>3. QED
  BY <1>1, <1>2 DEF Init, Inv, DemotionOK, NoDemotion, SourceLossAccounted

LEMMA StepInv == Inv /\ [Next]_vars => Inv'
<1> SUFFICES ASSUME Inv, [Next]_vars PROVE Inv'
  OBVIOUS
<1>1. TypeOK'
  BY TypeStep
<1>2. Steady
  BY <1>1, StepSteady DEF Inv
<1>3. QED
  BY <1>1, <1>2, JobsStep, FactsStep, WasStep, DemotionStep, SourceStep
  DEF Inv

\* The invariant holds, whatever the interleaving of learn, of any number of
\* promoter runs, of demote, the source cleanup and withdrawals.
THEOREM InvHolds == Spec => []Inv
<1>1. QED
  BY InitInv, StepInv, PTL DEF Spec

\* Every value keeps its type; in particular a confidence stays in tenths of
\* one, whatever the evidence adds to it, and only what is stored is a fact.
THEOREM TypeCorrect == Spec => []TypeOK
<1>1. Inv => TypeOK
  BY DEF Inv
<1>2. QED
  BY <1>1, InvHolds, PTL

\* An ACTIVE fact has the distinct evidence that the threshold asks for,
\* unless a claim has left since it was counted.
THEOREM Corroborated == Spec => []FactsCorroborated
<1>1. Inv => FactsCorroborated
  <2>1. SUFFICES ASSUME Inv, NEW c \in fact \cap Active
                 PROVE  \/ Cardinality(UNION {evidence[d] : d \in Counted(c)})
                             >= Threshold
                        \/ c \in thin
    BY DEF FactsCorroborated
  <2>2. Grounded(c)
    BY <2>1 DEF Inv
  <2>3. state[c] # "LEFT" /\ Counted(c) = Active
    BY CountedActive DEF Active
  <2>4. QED
    BY <2>2, <2>3 DEF Grounded, Support
<1>2. QED
  BY <1>1, InvHolds, PTL

\* The Source text of a claim is deleted only once the claim has been a fact,
\* or has left.
THEOREM SourcesKept == Spec => []SourceLossAccounted
<1>1. Inv => SourceLossAccounted
  BY DEF Inv
<1>2. QED
  BY <1>1, InvHolds, PTL

\* Confidence rises only in the step that makes an unpromoted ACTIVE claim a
\* fact: no second run boosts it again, and a demotion that was read before
\* never writes back more than there is.
THEOREM OneBoost == Spec => BoostedOnce
<1> DEFINE Boost ==
      \A c \in Claim : conf'[c] > conf[c] => c \in Unpromoted /\ c \in fact'
<1>1. Inv /\ [Next]_vars => Boost \/ UNCHANGED vars
  <2>1. SUFFICES ASSUME Inv, [Next]_vars, NEW c \in Claim, conf'[c] > conf[c]
                 PROVE  c \in Unpromoted /\ c \in fact'
    OBVIOUS
  <2>2. TypeOK /\ conf[c] \in 1 .. 10
    BY <2>1 DEF Inv, TypeOK
  <2>3. conf' # conf
    BY <2>1, <2>2
  <2>4. ASSUME NEW r \in Run, PromoteWrite(r)
        PROVE  c \in Unpromoted /\ c \in fact'
    BY <2>1, <2>2, <2>3, <2>4 DEF PromoteWrite, Promoted, TypeOK
  <2>5. ASSUME DemoteWrite PROVE FALSE
    <3>1. PICK d : d = demotion.claim
      OBVIOUS
    <3>2. d \in fact /\ d \in Claim /\ demotion.conf = conf[d]
      BY <2>1, <2>2, <2>5, <3>1 DEF Inv, DemotionOK, DemoteWrite, TypeOK
    <3>3. conf[d] \in 1 .. 10
      BY <2>2, <3>2 DEF TypeOK
    <3>4. PICK n : n = IF conf[d] > 1 THEN conf[d] - 1 ELSE 1
      OBVIOUS
    <3>5. n =< conf[d]
      BY <3>3, <3>4
    <3>6. conf' = [conf EXCEPT ![d] = n]
      BY <2>3, <2>5, <3>1, <3>2, <3>4 DEF DemoteWrite
    <3>7. c = d /\ conf'[c] = n
      BY <2>1, <2>2, <3>2, <3>6 DEF TypeOK
    <3>8. QED
      BY <2>1, <2>2, <3>3, <3>4, <3>5, <3>7
  <2>6. QED
    BY <2>1, <2>3, <2>4, <2>5
    DEF Next, RunStep, vars, Learn, CreateSource, LinkSource, LearnFails,
        Leave, DemoteRead, CleanupOrphanSources, DemoteRecount, DemoteFails,
        List, RunEnds, Verify, PromoteClean, PromoteFails, RunDies,
        PromoteRead, Check
<1>2. Inv /\ [Next]_vars => [Boost]_vars
  BY <1>1
<1> HIDE DEF Boost
<1>3. Spec => [][Boost]_vars
  BY <1>2, InvHolds, PTL DEF Spec
<1>4. QED
  BY <1>3 DEF BoostedOnce, Boost

=============================================================================
