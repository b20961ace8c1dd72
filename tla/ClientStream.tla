---------------------------- MODULE ClientStream ----------------------------
(***************************************************************************)
(* The client's StreamWriter: parts submitted by concurrent WritePart      *)
(* calls, each uploaded by a goroutine of its own, a Complete that waits   *)
(* for them and an Abort that may be called at any time.  The mutex makes  *)
(* each locked section one step, the initiate, complete and abort requests *)
(* sent under it included.                                                 *)
(***************************************************************************)
EXTENDS Common, Integers, FiniteSets

CONSTANTS SParts,    \* part numbers WritePart is called with
          FinalPart, \* the part Complete uploads itself
          SSlots     \* uploadMaxConcurrency

ASSUME StreamAssumption == /\ SParts \cup {FinalPart} \subseteq Nat \ {0}
                           /\ FinalPart \notin SParts
                           /\ SSlots \in Nat \ {0}

VARIABLES sw,       \* the writer's flags and its first error
          spart,    \* part -> its WritePart call and goroutine
          suploaded,\* parts whose ETag is recorded
          scomplete,\* the Complete call
          sabort,   \* the Abort call
          smpu,     \* the server's upload and its stored parts
          sgone     \* the context given to the calls is done

svars == <<sw, spart, suploaded, scomplete, sabort, smpu, sgone>>

InFlight == {"slot", "presign", "put", "represign", "reput"}
SRunning == {p \in SParts : spart[p] \in InFlight \ {"slot"}}
AnyInFlight == \E p \in SParts : spart[p] \in InFlight

STypeOK ==
  /\ sw \in [started : BOOLEAN, closing : BOOLEAN, completed : BOOLEAN, aborted : BOOLEAN, err : BOOLEAN]
  /\ spart \in [SParts -> InFlight \cup {"none", "refused", "cancelled", "done", "failed"}]
  /\ suploaded \subseteq SParts \cup {FinalPart}
  /\ scomplete \in {"none", "wait", "presign", "put", "build", "ok", "error"}
  /\ sabort \in {"none", "wait", "ok", "error"}
  /\ smpu.st \in {"none", "open", "committed", "aborted"} /\ Cardinality(SRunning) <= SSlots
  /\ smpu.parts \subseteq SParts \cup {FinalPart} /\ sgone \in BOOLEAN

SInit ==
  /\ sw = [started |-> FALSE, closing |-> FALSE, completed |-> FALSE, aborted |-> FALSE, err |-> FALSE]
  /\ spart = [p \in SParts |-> "none"] /\ suploaded = {}
  /\ scomplete = "none" /\ sabort = "none"
  /\ smpu = [st |-> "none", parts |-> {}] /\ sgone = FALSE

-----------------------------------------------------------------------------
(* The lazy initiate: ok, refused, or created with a lost answer.          *)
InitLocked(outcome) ==
  /\ sgone => outcome = "refused"
  /\ smpu' = IF outcome = "refused" THEN smpu ELSE [st |-> "open", parts |-> {}]

\* Mutant: a writer that is closing still takes parts.
SealedLate == sw.err \/ sw.completed \/ sw.aborted

\* Why WritePart refuses a part before it does anything.
Sealed == sw.err \/ sw.completed \/ sw.aborted \/ sw.closing

WritePartRefused(p) ==
  /\ spart[p] = "none" /\ Sealed
  /\ spart' = [spart EXCEPT ![p] = "refused"]
  /\ UNCHANGED <<sw, suploaded, scomplete, sabort, smpu, sgone>>

\* WritePart up to its unlock: the first call initiates the upload, and the
\* part counts as in flight before the mutex is released.
WritePart(p, outcome) ==
  /\ spart[p] = "none" /\ ~Sealed
  /\ IF sw.started
     THEN /\ outcome = "ok" /\ spart' = [spart EXCEPT ![p] = "slot"]
          /\ UNCHANGED <<sw, smpu>>
     ELSE /\ InitLocked(outcome)
          /\ sw' = [sw EXCEPT !.started = outcome = "ok", !.err = outcome # "ok"]
          /\ spart' = [spart EXCEPT ![p] = IF outcome = "ok" THEN "slot" ELSE "refused"]
  /\ UNCHANGED <<suploaded, scomplete, sabort, sgone>>

\* A slot starts the goroutine and the call returns nil.
WritePartStarts(p) ==
  /\ spart[p] = "slot" /\ Cardinality(SRunning) < SSlots
  /\ spart' = [spart EXCEPT ![p] = "presign"]
  /\ UNCHANGED <<sw, suploaded, scomplete, sabort, smpu, sgone>>

\* Without a slot a done context ends the call: it is in flight no more.
WritePartCancelled(p) ==
  /\ spart[p] = "slot" /\ sgone
  /\ spart' = [spart EXCEPT ![p] = "cancelled"]
  /\ UNCHANGED <<sw, suploaded, scomplete, sabort, smpu, sgone>>

\* Mutant: the error path leaves the part counted as in flight.
SetErrorLeaks(p) == sw' = [sw EXCEPT !.err = TRUE] /\ UNCHANGED spart

\* setError keeps the first error.
SetError(p) == /\ sw' = [sw EXCEPT !.err = TRUE]
               /\ spart' = [spart EXCEPT ![p] = "failed"]

PresignStreamPart(p, ok) ==
  /\ spart[p] \in {"presign", "represign"}
  /\ ok => smpu.st = "open" /\ ~sgone
  /\ IF ok THEN /\ spart' = [spart EXCEPT ![p] = IF @ = "presign" THEN "put" ELSE "reput"]
                /\ UNCHANGED sw
           ELSE SetError(p)
  /\ UNCHANGED <<suploaded, scomplete, sabort, smpu, sgone>>

\* A PUT of a part to the store; it may arrive though its answer is lost.
PutPart(p, outcome) ==
  /\ outcome = "ok" => smpu.st = "open"
  /\ outcome \in {"ok", "expired"} => ~sgone
  /\ smpu' = IF outcome \in {"ok", "lost"} /\ smpu.st = "open"
             THEN [smpu EXCEPT !.parts = @ \cup {p}] ELSE smpu

UploadStreamPart(p, outcome) ==
  /\ spart[p] \in {"put", "reput"}
  /\ PutPart(p, outcome)
  /\ CASE outcome = "ok" ->
            /\ spart' = [spart EXCEPT ![p] = "done"] /\ suploaded' = suploaded \cup {p}
            /\ UNCHANGED sw
       [] outcome = "expired" /\ spart[p] = "put" ->
            spart' = [spart EXCEPT ![p] = "represign"] /\ UNCHANGED <<sw, suploaded>>
       [] OTHER -> SetError(p) /\ UNCHANGED suploaded
  /\ UNCHANGED <<scomplete, sabort, sgone>>

-----------------------------------------------------------------------------
(* Complete.                                                               *)

CompleteStream ==
  /\ scomplete = "none"
  /\ IF sw.completed \/ sw.aborted \/ sw.closing
     THEN scomplete' = "error" /\ UNCHANGED sw
     ELSE scomplete' = "wait" /\ sw' = [sw EXCEPT !.closing = TRUE]
  /\ UNCHANGED <<spart, suploaded, sabort, smpu, sgone>>

\* inflight.Wait, then the checks.
CompleteWaited(final) ==
  /\ scomplete = "wait" /\ ~AnyInFlight
  /\ scomplete' = IF sw.err \/ ~sw.started THEN "error" ELSE IF final THEN "presign" ELSE "build"
  /\ UNCHANGED <<sw, spart, suploaded, sabort, smpu, sgone>>

\* The final part is uploaded by the caller, without a second attempt.
CompletePresigns(ok) ==
  /\ scomplete = "presign"
  /\ ok => smpu.st = "open" /\ ~sgone
  /\ scomplete' = IF ok THEN "put" ELSE "error"
  /\ UNCHANGED <<sw, spart, suploaded, sabort, smpu, sgone>>

CompleteUploads(outcome) ==
  /\ scomplete = "put"
  /\ PutPart(FinalPart, outcome)
  /\ IF outcome = "ok" THEN scomplete' = "build" /\ suploaded' = suploaded \cup {FinalPart}
                       ELSE scomplete' = "error" /\ UNCHANGED suploaded
  /\ UNCHANGED <<sw, spart, sabort, sgone>>

\* The ordered part list has no gap up to the largest uploaded part.
Contiguous == suploaded # {} /\ \A p \in suploaded : \A q \in 1..p : q \in suploaded

\* The part list, and the complete request under the mutex.
CompleteSends(outcome) ==
  /\ scomplete = "build"
  /\ IF ~Contiguous THEN /\ outcome = "refused" /\ scomplete' = "error"
                         /\ UNCHANGED <<sw, smpu>>
     ELSE /\ outcome # "refused" => smpu.st = "open" /\ ~sgone /\ suploaded \subseteq smpu.parts
          /\ sw' = [sw EXCEPT !.completed = TRUE]
          /\ smpu' = IF outcome = "refused" THEN smpu
                     ELSE [st |-> "committed", parts |-> suploaded]
          /\ scomplete' = IF outcome = "ok" THEN "ok" ELSE "error"
  /\ UNCHANGED <<spart, suploaded, sabort, sgone>>

-----------------------------------------------------------------------------
(* Abort checks only whether the writer was aborted.                       *)

AbortStream ==
  /\ sabort = "none"
  /\ sabort' = "wait" /\ sw' = [sw EXCEPT !.closing = TRUE]
  /\ UNCHANGED <<spart, suploaded, scomplete, smpu, sgone>>

AbortSends(outcome) ==
  /\ sabort = "wait" /\ ~AnyInFlight
  /\ sw' = [sw EXCEPT !.aborted = TRUE]
  /\ IF ~sw.started THEN outcome = "ok" /\ sabort' = "ok" /\ UNCHANGED smpu
     ELSE /\ outcome = "ok" => ~sgone /\ smpu.st \in {"open", "aborted"}
          /\ outcome = "lost" => ~sgone /\ smpu.st = "open"
          /\ smpu' = IF outcome = "refused" THEN smpu ELSE [smpu EXCEPT !.st = "aborted"]
          /\ sabort' = IF outcome = "ok" THEN "ok" ELSE "error"
  /\ UNCHANGED <<spart, suploaded, scomplete, sgone>>

SCallerCancels == /\ ~sgone /\ sgone' = TRUE
                  /\ UNCHANGED <<sw, spart, suploaded, scomplete, sabort, smpu>>

-----------------------------------------------------------------------------
Outcomes == {"ok", "lost", "refused"}

Goroutine(p) ==
  \/ WritePartStarts(p) \/ WritePartCancelled(p)
  \/ \E ok \in BOOLEAN : PresignStreamPart(p, ok)
  \/ \E o \in Outcomes \cup {"expired"} : UploadStreamPart(p, o)

Closer ==
  \/ \E final \in BOOLEAN : CompleteWaited(final)
  \/ \E ok \in BOOLEAN : CompletePresigns(ok)
  \/ \E o \in Outcomes : CompleteUploads(o) \/ CompleteSends(o) \/ AbortSends(o)

SNext ==
  \/ \E p \in SParts : \/ WritePartRefused(p) \/ Goroutine(p)
                       \/ \E o \in Outcomes : WritePart(p, o)
  \/ CompleteStream \/ AbortStream \/ Closer \/ SCallerCancels

\* Goroutines and calls that can go on do; requests end with an answer or an
\* error.
SFairness == WF_svars(Closer) /\ \A p \in SParts : WF_svars(Goroutine(p))

SSpec == SInit /\ [][SNext]_svars /\ SFairness

-----------------------------------------------------------------------------
\* A Complete that succeeded committed every part whose WritePart returned nil:
\* no part is lost to the order of WritePart, its goroutine and Complete, and a
\* part that failed in the background fails the Complete (StreamWriter).
AcceptedAreCommitted ==
  scomplete = "ok" =>
    /\ smpu.st = "committed" /\ smpu.parts = suploaded
    /\ \A p \in SParts : spart[p] \notin {"none", "refused", "cancelled"} => p \in smpu.parts

\* After an Abort that succeeded no part uploaded in the background is still on
\* its way, and the upload stays closed: a Complete that was already running
\* cannot commit it (StreamWriter.Abort).
AbortIsFinal == sabort = "ok" => smpu.st # "committed" /\ ~AnyInFlight

\* The answers of a StreamWriter are true: a Complete that returned nil has
\* committed every accepted part, and after an Abort that returned nil nothing
\* is committed or on its way.
StreamAnswerTrue == AcceptedAreCommitted /\ AbortIsFinal

\* Complete and Abort return: a WritePart that gave up waiting for a slot is
\* no longer counted as in flight (StreamWriter.WritePart).
StreamEnds ==
  /\ (scomplete = "wait") ~> (scomplete \in {"ok", "error"})
  /\ (sabort = "wait") ~> (sabort # "wait")
=============================================================================
