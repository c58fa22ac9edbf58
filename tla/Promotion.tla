----------------------------- MODULE Promotion -----------------------------
(***************************************************************************)
(* Claims become facts and facts claims again (sage/transactions.py,       *)
(* pipelines/jobs/promoter_job.py and source_cleanup_job.py,               *)
(* mcp/tools/context_store.py, sage/source_verification.py).  Every five   *)
(* minutes a job run lists unpromoted claims, counts the distinct evidence *)
(* behind each, and calls promote for those that reach the threshold;      *)
(* promote has an LLM compare the claim with the Source node that learn    *)
(* may have attached, and deletes that node afterwards.                    *)
(*                                                                         *)
(* All claims here say the same: their triples are equal or similar, or    *)
(* they are freeform with similar content.  A claim is ACTIVE until it is  *)
(* superseded or forgotten, which SageLifecycle models.  Confidence counts *)
(* in tenths.  Every execute_query and execute_write is an action.         *)
(***************************************************************************)
EXTENDS Naturals, FiniteSets, FiniteSetsExt

CONSTANTS
  Claim,      \* ids of claims
  NoClaim,    \* no claim
  Memory,     \* evidence that is a node, "node:..."
  Uri,        \* evidence that is not
  Evidence,   \* the lists of evidence each claim may be stored with
  Sourced,    \* the claims that come with source_content
  Threshold,  \* PROMOTION_THRESHOLD
  BatchSize,  \* LIMIT of _LIST_UNPROMOTED_CLAIMS
  Run,        \* runs of the promoter job that may overlap
  Base,       \* the confidence a claim is stored with, in tenths
  MaxFaults   \* bound: how many statements raise or processes die

ASSUME PromotionAssumption ==
  /\ Memory \cap Uri = {} /\ IsFiniteSet(Memory) /\ IsFiniteSet(Uri)
  /\ Evidence \in [Claim -> SUBSET (SUBSET (Memory \cup Uri) \ {{}})]
  /\ IsFiniteSet(Claim) /\ NoClaim \notin Claim /\ Sourced \subseteq Claim
  /\ Threshold \in Nat \ {0} /\ BatchSize \in Nat /\ MaxFaults \in Nat
  /\ Base \in 1 .. 10

VARIABLES
  freeform,   \* the claims have no complete triple
  state,      \* properties.state
  fact,       \* the claims that are PROMOTED and carry the Fact label
  conf,       \* properties.confidence
  evidence,   \* properties.evidence
  supported,  \* what the LLM finds: the claims no Source text is against
  source,     \* the Source node of a claim
  learn,      \* where the learn request of a claim is
  job,        \* the promoter runs
  demotion,   \* the call of demote that is being served
  faults,     \* statements that raised, processes that died
  thin,       \* history: claims whose last count a claim has left since
  was         \* history: the claims promoted at some time

claimVars == <<freeform, state, evidence, supported>>
vars == <<claimVars, fact, conf, source, learn, job, demotion, faults, thin,
          was>>

NoJob == [pc |-> "idle", todo |-> {}, found |-> {}, claim |-> NoClaim,
          count |-> 0, conf |-> 0]
NoDemotion == [pc |-> "idle", claim |-> NoClaim, conf |-> 0]

Candidate == [claim: Claim, count: Nat]
JobRecord ==
  [pc: {"idle", "each", "verify", "write", "clean"}, todo: SUBSET Claim,
   found: SUBSET Candidate, claim: Claim \cup {NoClaim}, count: Nat,
   conf: 0 .. 10]
DemotionRecord ==
  [pc: {"idle", "recount", "write"}, claim: Claim \cup {NoClaim},
   conf: 0 .. 10]

TypeOK ==
  /\ freeform \in BOOLEAN
  /\ state \in [Claim -> {"NONE", "ACTIVE", "LEFT"}]
  /\ fact \subseteq {c \in Claim : state[c] # "NONE"}
  /\ conf \in [Claim -> 1 .. 10]
  /\ evidence \in [Claim -> SUBSET (Memory \cup Uri)]
  /\ supported \subseteq Claim
  /\ source \in [Claim -> {"none", "unlinked", "linked", "deleted"}]
  /\ learn \in [Claim -> {"none", "source", "link", "done"}]
  /\ job \in [Run -> JobRecord]
  /\ demotion \in DemotionRecord
  /\ faults \in 0 .. MaxFaults
  /\ thin \subseteq Claim /\ was \subseteq Claim

Init ==
  /\ freeform \in BOOLEAN
  /\ state = [c \in Claim |-> "NONE"] /\ fact = {}
  /\ conf = [c \in Claim |-> Base]
  /\ evidence = [c \in Claim |-> {}] /\ supported = {}
  /\ source = [c \in Claim |-> "none"] /\ learn = [c \in Claim |-> "none"]
  /\ job = [r \in Run |-> NoJob] /\ demotion = NoDemotion
  /\ faults = 0
  /\ thin = {} /\ was = {}

Fault ==
  /\ faults < MaxFaults
  /\ faults' = faults + 1

Active == {c \in Claim : state[c] = "ACTIVE"}
Unpromoted == Active \ fact

-----------------------------------------------------------------------------
(* learn: the claim, then its Source node, then the edge between them.     *)

\* store_claim.
Learn(c) ==
  /\ state[c] = "NONE"
  /\ state' = [state EXCEPT ![c] = "ACTIVE"]
  /\ \E refs \in Evidence[c] :
       evidence' = [evidence EXCEPT ![c] = refs]
  /\ learn' = [learn EXCEPT ![c] = IF c \in Sourced THEN "source" ELSE "done"]
  /\ \/ supported' = supported \cup {c}
     \/ c \in Sourced /\ UNCHANGED supported
  /\ UNCHANGED <<freeform, fact, conf, source, job, demotion, faults, thin,
                 was>>

CreateSource(c) ==
  /\ learn[c] = "source"
  /\ source' = [source EXCEPT ![c] = "unlinked"]
  /\ learn' = [learn EXCEPT ![c] = "link"]
  /\ UNCHANGED <<claimVars, fact, conf, job, demotion, faults, thin, was>>

LinkSource(c) ==
  /\ learn[c] = "link"
  /\ source' = [source EXCEPT ![c] = "linked"]
  /\ learn' = [learn EXCEPT ![c] = "done"]
  /\ UNCHANGED <<claimVars, fact, conf, job, demotion, faults, thin, was>>

\* An exception there is only logged.
LearnFails(c) ==
  /\ learn[c] \in {"source", "link"}
  /\ Fault
  /\ learn' = [learn EXCEPT ![c] = "done"]
  /\ UNCHANGED <<claimVars, fact, conf, source, job, demotion, thin, was>>

\* The claims that some run has counted and not yet decided on.
Pending ==
  UNION {{k.claim : k \in job[r].found} \cup {job[r].claim} : r \in Run}

\* Superseded or forgotten.  Neither touches claim_status or the label.
Leave(c) ==
  /\ c \in Active
  /\ state' = [state EXCEPT ![c] = "LEFT"]
  /\ thin' = thin \cup (Claim \cap (fact \cup Pending))
  /\ UNCHANGED <<freeform, evidence, supported, fact, conf, source, learn,
                 job, demotion, faults, was>>

\* Mutant: linked sources are deleted too.
CleanupAllSources ==
  /\ \E c \in Claim : source[c] \in {"unlinked", "linked"} /\ learn[c] = "done"
  /\ source' = [c \in Claim |->
       IF source[c] \in {"unlinked", "linked"} /\ learn[c] = "done"
       THEN "deleted" ELSE source[c]]
  /\ UNCHANGED <<claimVars, fact, conf, learn, job, demotion, faults, thin,
                 was>>

\* cleanup_orphan_sources: those that no edge leads to, a week old, so that
\* no learn is still on its way to link them.
CleanupOrphanSources ==
  /\ \E c \in Claim : source[c] = "unlinked" /\ learn[c] = "done"
  /\ source' = [c \in Claim |->
       IF source[c] = "unlinked" /\ learn[c] = "done" THEN "none"
       ELSE source[c]]
  /\ UNCHANGED <<claimVars, fact, conf, learn, job, demotion, faults, thin,
                 was>>

-----------------------------------------------------------------------------
(* A run of the promoter job.                                              *)

\* _LIST_UNPROMOTED_CLAIMS has a LIMIT and no ORDER BY.
Batches ==
  {b \in SUBSET Unpromoted :
     Cardinality(b) = IF Cardinality(Unpromoted) > BatchSize
                      THEN BatchSize ELSE Cardinality(Unpromoted)}

List(r) ==
  /\ job[r].pc = "idle"
  /\ Unpromoted # {}
  /\ \E b \in Batches :
       job' = [job EXCEPT ![r] = [NoJob EXCEPT !.pc = "each", !.todo = b]]
  /\ UNCHANGED <<claimVars, fact, conf, source, learn, demotion, faults,
                 thin, was>>

\* _check_corroboration: the claims that count, a freeform one its own too.
Counted(c) == IF freeform THEN Active \cup {c} ELSE Active

\* Mutant: the evidence of the claims is added up without removing duplicates.
CorroborationSum(c) ==
  MapThenSumSet(LAMBDA d : Cardinality(evidence[d]), Counted(c))

Corroboration(c) == Cardinality(UNION {evidence[d] : d \in Counted(c)})

Check(r, c) ==
  /\ job[r].pc = "each" /\ c \in job[r].todo
  /\ job' = [job EXCEPT
       ![r].todo = @ \ {c},
       ![r].found = IF Corroboration(c) >= Threshold
                    THEN @ \cup {[claim |-> c, count |-> Corroboration(c)]}
                    ELSE @]
  /\ thin' = IF c \in fact \cup Pending THEN thin ELSE thin \ {c}
  /\ UNCHANGED <<claimVars, fact, conf, source, learn, demotion, faults, was>>

\* A call of promote is over.
Ready(r) == [job[r] EXCEPT !.pc = "each", !.claim = NoClaim, !.count = 0,
                           !.conf = 0]

\* promote, GET_CLAIM_FOR_PROMOTE: a claim that is not ACTIVE raises, one that
\* is PROMOTED already is success; both end the call.
PromoteRead(r, k) ==
  /\ job[r].pc = "each" /\ job[r].todo = {} /\ k \in job[r].found
  /\ job' = [job EXCEPT ![r] =
       IF k.claim \in Unpromoted
       THEN [job[r] EXCEPT !.pc = "verify", !.found = @ \ {k},
                           !.claim = k.claim, !.count = k.count,
                           !.conf = conf[k.claim]]
       ELSE [job[r] EXCEPT !.found = @ \ {k}]]
  /\ UNCHANGED <<claimVars, fact, conf, source, learn, demotion, faults,
                 thin, was>>

RunEnds(r) ==
  /\ job[r].pc = "each" /\ job[r].todo = {} /\ job[r].found = {}
  /\ job' = [job EXCEPT ![r] = NoJob]
  /\ UNCHANGED <<claimVars, fact, conf, source, learn, demotion, faults,
                 thin, was>>

\* Mutant: a claim without a Source node is refused.
VerifyNeedsSource(r) ==
  LET c == job[r].claim
  IN  /\ job[r].pc = "verify"
      /\ job' = [job EXCEPT ![r] =
                   IF source[c] = "linked" /\ c \in supported
                   THEN [@ EXCEPT !.pc = "write"] ELSE Ready(r)]
      /\ UNCHANGED <<claimVars, fact, conf, source, learn, demotion, faults,
                     thin, was>>

\* verify_claim_against_source: an LLM that fails says yes.
Supports(c, verdict) ==
  \/ verdict = (c \in supported) /\ UNCHANGED faults
  \/ verdict /\ Fault

\* Without a linked Source there is nothing to ask.
Verify(r) ==
  LET c == job[r].claim
  IN  /\ job[r].pc = "verify"
      /\ \/ /\ source[c] # "linked"
            /\ job' = [job EXCEPT ![r].pc = "write"]
            /\ UNCHANGED faults
         \/ /\ source[c] = "linked"
            /\ \E verdict \in BOOLEAN :
                 /\ Supports(c, verdict)
                 /\ job' = [job EXCEPT ![r] =
                      IF verdict THEN [@ EXCEPT !.pc = "write"] ELSE Ready(r)]
      /\ UNCHANGED <<claimVars, fact, conf, source, learn, demotion, thin,
                     was>>

Least(a, b) == IF a < b THEN a ELSE b

\* Mutant: the confidence is not capped.
PromotedUncapped(r) ==
  LET c == job[r].claim
  IN  /\ fact' = fact \cup {c} /\ was' = was \cup {c}
      /\ conf' = [conf EXCEPT ![c] = job[r].conf + (job[r].count - Threshold + 1)]

\* What UPDATE_CLAIM_TO_PROMOTED does to a claim that it matches.
Promoted(r) ==
  LET c == job[r].claim
  IN  /\ fact' = fact \cup {c} /\ was' = was \cup {c}
      /\ conf' = [conf EXCEPT ![c] =
           Least(10, job[r].conf + (job[r].count - Threshold + 1))]

\* Mutant: the update does not test the state and the status again.
PromoteWriteUnguarded(r) ==
  /\ job[r].pc = "write"
  /\ Promoted(r)
  /\ job' = [job EXCEPT ![r].pc = "clean"]
  /\ UNCHANGED <<claimVars, source, learn, demotion, faults, thin>>

\* UPDATE_CLAIM_TO_PROMOTED is guarded, but nobody looks at what it matched.
PromoteWrite(r) ==
  /\ job[r].pc = "write"
  /\ IF job[r].claim \in Unpromoted THEN Promoted(r)
     ELSE UNCHANGED <<fact, was, conf>>
  /\ job' = [job EXCEPT ![r].pc = "clean"]
  /\ UNCHANGED <<claimVars, source, learn, demotion, faults, thin>>

\* "After successful promotion": the linked Source goes in any case, unless
\* the statement fails, which is only logged.
PromoteClean(r) ==
  LET c == job[r].claim
  IN  /\ job[r].pc = "clean"
      /\ \/ /\ source' = IF source[c] = "linked"
                         THEN [source EXCEPT ![c] = "deleted"] ELSE source
            /\ UNCHANGED faults
         \/ Fault /\ UNCHANGED source
      /\ job' = [job EXCEPT ![r] = Ready(r)]
      /\ UNCHANGED <<claimVars, fact, conf, learn, demotion, thin, was>>

\* A statement of promote raises: the next candidate.
PromoteFails(r) ==
  /\ job[r].pc \in {"verify", "write"}
  /\ Fault
  /\ job' = [job EXCEPT ![r] = Ready(r)]
  /\ UNCHANGED <<claimVars, fact, conf, source, learn, demotion, thin, was>>

\* The listing raises, or the process dies.
RunDies(r) ==
  /\ job[r].pc # "idle"
  /\ Fault
  /\ job' = [job EXCEPT ![r] = NoJob]
  /\ UNCHANGED <<claimVars, fact, conf, source, learn, demotion, thin, was>>

-----------------------------------------------------------------------------
(* demote.                                                                 *)

\* GET_FACT_FOR_DEMOTE.
DemoteRead(c) ==
  /\ demotion.pc = "idle"
  /\ c \in fact \cap Active
  /\ demotion' = [pc |-> "recount", claim |-> c, conf |-> conf[c]]
  /\ UNCHANGED <<claimVars, fact, conf, source, learn, job, faults, thin,
                 was>>

\* RECOUNT_CORROBORATION counts nodes that DERIVED_FROM edges lead to, so no
\* URI, but the Source nodes; null = null matches no freeform claim.
Recounted ==
  IF freeform THEN {}
  ELSE UNION {evidence[d] \cap Memory : d \in Active}
       \cup {d \in Active : source[d] = "linked"}

DemoteRecount ==
  /\ demotion.pc = "recount"
  /\ demotion' = IF Cardinality(Recounted) >= Threshold THEN NoDemotion
                 ELSE [demotion EXCEPT !.pc = "write"]
  /\ UNCHANGED <<claimVars, fact, conf, source, learn, job, faults, thin,
                 was>>

\* UPDATE_FACT_TO_DEMOTED; the CASCADE_STALENESS event is BeliefFlow's.
DemoteWrite ==
  LET c == demotion.claim
  IN  /\ demotion.pc = "write"
      /\ IF c \in fact \cap Active
         THEN /\ fact' = fact \ {c}
              /\ conf' = [conf EXCEPT ![c] =
                            IF demotion.conf > 1 THEN demotion.conf - 1 ELSE 1]
         ELSE UNCHANGED <<fact, conf>>
      /\ demotion' = NoDemotion
      /\ UNCHANGED <<claimVars, source, learn, job, faults, thin, was>>

DemoteFails ==
  /\ demotion.pc # "idle"
  /\ Fault
  /\ demotion' = NoDemotion
  /\ UNCHANGED <<claimVars, fact, conf, source, learn, job, thin, was>>

-----------------------------------------------------------------------------

RunStep(r) ==
  \/ List(r) \/ RunEnds(r)
  \/ Verify(r) \/ PromoteWrite(r) \/ PromoteClean(r)
  \/ \E c \in Claim : Check(r, c)
  \/ \E k \in job[r].found : PromoteRead(r, k)

Next ==
  \/ \E c \in Claim :
       \/ Learn(c) \/ CreateSource(c) \/ LinkSource(c) \/ LearnFails(c)
       \/ Leave(c) \/ DemoteRead(c)
  \/ CleanupOrphanSources
  \/ \E r \in Run : RunStep(r) \/ PromoteFails(r) \/ RunDies(r)
  \/ DemoteRecount \/ DemoteWrite \/ DemoteFails

\* The schedule starts a run every five minutes, and a run that has started
\* goes on.
Spec == Init /\ [][Next]_vars /\ \A r \in Run : WF_vars(RunStep(r))

-----------------------------------------------------------------------------

\* Counting, verifying and promoting are apart by many statements, so a fact
\* may rest on evidence that has been withdrawn; but then one of the claims it
\* was counted from has really left.  Otherwise an ACTIVE fact has the
\* distinct evidence the threshold asks for.
FactsCorroborated ==
  \A c \in fact \cap Active :
    \/ Cardinality(UNION {evidence[d] : d \in Counted(c)}) >= Threshold
    \/ c \in thin

\* Two runs that both found a claim unpromoted boost its confidence once, and
\* none that has left while the LLM was asked: confidence only rises when a
\* claim that is ACTIVE and unpromoted becomes a fact.
BoostedOnce ==
  [][\A c \in Claim :
       conf'[c] > conf[c] => c \in Unpromoted /\ c \in fact']_vars

\* The Source text of a claim, which is all its verification has to go by, is
\* only deleted once the claim has been a fact, or has left.
SourceLossAccounted ==
  \A c \in Claim :
    source[c] = "deleted" => c \in was \/ state[c] = "LEFT"

\* A claim that stays ACTIVE, reaches the threshold and is not contradicted
\* by its own Source becomes a fact, and again after every demotion, unless
\* there are for ever more unpromoted claims than one batch takes.
Due(c) ==
  /\ c \in Active /\ Corroboration(c) >= Threshold
  /\ c \in supported
  /\ Cardinality(Unpromoted) =< BatchSize

PromotionComes ==
  \A c \in Claim : (<>[]Due(c)) => []<>(c \in fact)

=============================================================================
