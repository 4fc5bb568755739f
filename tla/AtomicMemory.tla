----------------------------- MODULE AtomicMemory -----------------------------
(***************************************************************************)
(* What a DBus slave promises to its client: one request is in progress at *)
(* a time, its answer carries the word of a flat memory, and its store is  *)
(* the only change that memory ever makes.  There is no cache here.        *)
(***************************************************************************)
EXTENDS CBus

CONSTANTS
  Requests,  \* the requests the client may issue
  NoData     \* the data bus while there is no answer

VARIABLES
  flat,   \* flat[tag][index][offset]
  phase,  \* "free", "accepted" or "answered"
  asked,  \* the request in progress, or the last one
  answer  \* the word answered, in phase "answered"

absVars == <<flat, phase, asked, answer>>

WordAt(r) == flat[r.tag][r.index][r.offset]

AbsInit ==
  /\ flat = [t \in Tag |-> [i \in Index |-> [o \in Offset |-> ZeroWord]]]
  /\ phase = "free"
  /\ asked \in DBusReq
  /\ answer = NoData

\* A request is taken, and perhaps answered at once.
Take(r) ==
  /\ phase = "free"
  /\ asked' = r
  /\ \/ phase' = "accepted" /\ answer' = NoData
     \/ phase' = "answered" /\ answer' = WordAt(r)
  /\ UNCHANGED flat

Answer ==
  /\ phase = "accepted"
  /\ phase' = "answered"
  /\ answer' = WordAt(asked)
  /\ UNCHANGED <<flat, asked>>

\* The answer is consumed; a store takes effect.
Retire ==
  /\ phase = "answered"
  /\ phase' = "free"
  /\ answer' = NoData
  /\ flat' = [flat EXCEPT ![asked.tag][asked.index][asked.offset] =
                            Merge(@, asked.data, asked.strobe)]
  /\ UNCHANGED asked

AbsNext == (\E r \in Requests : Take(r)) \/ Answer \/ Retire

AbsSpec == AbsInit /\ [][AbsNext]_absVars

AbsFairSpec == AbsSpec /\ WF_absVars(Answer) /\ WF_absVars(Retire)
===============================================================================
