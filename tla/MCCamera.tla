------------------------------ MODULE MCCamera ------------------------------
(* An instance of the prefetcher's worker, pulling or sweeping, and of the
   desktop client's workers: a behaviour is one of Prefetch, one of Thumbs or one
   of DecodePool, as part says, and the others rest. *)
EXTENDS Prefetch, Thumbs, DecodePool

VARIABLE part

MCFolder == <<"a", "a", "b">>

MCInit ==
    /\ part \in {"pull", "sweep", "decode"}
    /\ Init /\ cursor = 1 /\ cached = {}
    /\ ThumbsInit
    /\ PoolInit /\ ready = {}

MCNext ==
    /\ UNCHANGED part
    /\ IF part = "pull" THEN Next ELSE UNCHANGED vars
    /\ IF part = "sweep" THEN ThumbsNext ELSE UNCHANGED tvars
    /\ IF part = "decode" THEN PoolNext ELSE UNCHANGED poolVars

(* FairSpec of Prefetch, ThumbsFairSpec and PoolFairSpec, each for its part. *)
MCSpec ==
    /\ MCInit /\ [][MCNext]_<<part, vars, tvars, poolVars>>
    /\ WF_vars(part = "pull" /\ WorkerStep) /\ SF_vars(part = "pull" /\ StartPull)
    /\ \A s \in Shots : WF_vars(part = "pull" /\ Land(s)) /\ WF_vars(part = "pull" /\ Convert(s))
    /\ \A r \in Readers : WF_vars(part = "pull" /\ Return(r))
    /\ \A o \in Owners : WF_vars(part = "pull" /\ LinkStep(o))
    /\ WF_tvars(part = "sweep" /\ SweepStep) /\ WF_tvars(part = "sweep" /\ BackoffEnds)
    /\ WF_tvars(part = "sweep" /\ GenStep) /\ WF_tvars(part = "sweep" /\ EvictFar)
    /\ \A s \in Photos : WF_tvars(part = "sweep" /\ s \in wanted /\ Buffer(s))
    /\ \A w \in PoolWorkers : WF_poolVars(part = "decode" /\ WorkerLoop(w))
    /\ \A i \in Pics : WF_poolVars(part = "decode" /\ Demanded(i) /\ Buffered(i))

(* The types of all. *)
MCTypeOK == TypeOK /\ ThumbsTypeOK /\ PoolTypeOK

(* EveryThumbComes and SweepsFinish of Thumbs, where it is the part that runs. *)
MCEveryThumbComes == part = "sweep" => EveryThumbComes
MCSweepsFinish == part = "sweep" => SweepsFinish
=============================================================================
