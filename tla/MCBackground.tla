---------------------------- MODULE MCBackground ----------------------------
(* The semantic task queue and the file GC, which the same server processes  *)
(* run in the background: a behaviour belongs to one of them, and the other  *)
(* stays in its initial state.                                               *)
EXTENDS SemanticTasks, FileGC

VARIABLE bmode

bvars == <<vars, gcVars, bmode>>

\* an upload of four bytes; small writes have one or two
MCUploadSize == [u \in Uploads |-> 4]

InQueue(A) == bmode = "semantic" /\ A /\ UNCHANGED <<gcVars, bmode>>
InGC(A) == bmode = "filegc" /\ A /\ UNCHANGED <<vars, bmode>>

BInit == bmode \in {"semantic", "filegc"} /\ Init /\ GcInit
BNext == InQueue(Next) \/ InGC(GcNext)

\* The fairness of the component that runs: one runs in a behaviour, so the
\* fairness of a disjunction over the components is that of its disjunct.
BFairness ==
    /\ \A w \in Workers : WF_bvars(InQueue(WorkerStep(w)) \/ InGC(Process(w)))
    /\ WF_bvars(InQueue(RecoverExpired) \/ InGC(Replay))
    /\ \A f \in QuotaFiles : WF_bvars(InQueue(Tick) \/ InGC(RecoverExpiredFileGCTasks(f)))
    /\ \A f \in QuotaFiles : WF_bvars(InGC(processCandidate(f)))
    /\ \A h \in GcHandlers : WF_bvars(InGC(Handle(h)))

BSpec == BInit /\ [][BNext]_bvars /\ BFairness

\* Both queues finish their work: every semantic task ends and every deleted
\* object vanishes (the leases, the recovery sweeps and the bounded attempts).
QueuesFinish == EveryTaskFinishes /\ DeletedObjectsVanish
=============================================================================
