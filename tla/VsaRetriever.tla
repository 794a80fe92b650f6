---------------------------- MODULE VsaRetriever ----------------------------
(***************************************************************************)
(* RetrieveVSA of internal/validate/vsa/rekor_retriever.go: the search of  *)
(* the Rekor index for an image digest, the pool of goroutines that        *)
(* fetches the entries found, under a deadline, and the choice of one of   *)
(* them.  It runs beside the command of module Vsa, which appends to the   *)
(* same log.                                                               *)
(***************************************************************************)
EXTENDS Vsa

CONSTANTS
  EnvWorkers,  \* EC_REKOR_WORKERS; 0 when it is not set or not a number
  MaxMissing   \* bound: how many fetches fail for another reason than the deadline

ASSUME RetrieverAssumption == EnvWorkers \in Int /\ MaxMissing \in Nat

getWorkerCount ==
  CASE EnvWorkers > 64 -> 64
    [] EnvWorkers \in 1..64 -> EnvWorkers
    [] OTHER -> 8

NumWorkers == getWorkerCount
Workers == 1..NumWorkers

VARIABLES
  rpc,      \* where RetrieveVSA is
  uuids,    \* the entries that the index search found, by position in the log
  pool,     \* the number of workers started
  fed,      \* the UUIDs that the feeder has not sent
  feeding,  \* the feeder has not closed uuidChan
  chan,     \* uuidChan
  wpc,      \* where each worker is
  job,      \* the UUID that each worker has
  results,  \* resultChan, as main has received it: an entry, or the failure of a UUID
  expired,  \* the context's deadline has passed
  missing,  \* number of fetches that have failed
  answer    \* what RetrieveVSA returned

retrVars == <<rpc, uuids, pool, fed, feeding, chan, wpc, job, results, expired, missing, answer>>
vars == <<cmdVars, retrVars>>

NoAnswer == [ok |-> FALSE, entry |-> 0, why |-> None]
Failed(why) == [ok |-> FALSE, entry |-> 0, why |-> why]

-----------------------------------------------------------------------------
(* Entries *)

\* decodeBodyJSON
Readable(e) == e.body.kind # "unreadable"

Structured(e, fields) == fields \subseteq e.body.envelope

\* classifyEntryKind
classifyEntryKind(e) ==
  CASE Readable(e) /\ e.body.kind = "intoto" /\ e.body.api # None ->
         IF e.body.api = "0.0.2" THEN "intoto-v002" ELSE "intoto"
    [] Readable(e) /\ e.body.kind = "intoto" ->
         IF Structured(e, {"payload", "signatures"}) THEN "intoto-v002" ELSE "intoto"
    [] Readable(e) /\ e.body.kind = "dsse" -> "dsse"
    [] Readable(e) /\ Structured(e, {"payloadType", "signatures"}) -> "intoto-v002"
    [] Readable(e) /\ "intoto" \in e.body.legacy -> "intoto"
    [] Readable(e) /\ "dsse" \in e.body.legacy -> "dsse"
    [] e.att # NoStatement -> "intoto"
    [] OTHER -> "unknown"

\* buildDSSEEnvelopeFromIntotoV002: can the envelope be built from the entry?
buildDSSEEnvelopeFromIntotoV002(e) ==
  /\ Readable(e)
  /\ Structured(e, {"payloadType", "signatures"})
  /\ "payload" \in e.body.envelope \/ e.att # NoStatement
  /\ e.body.sigs > 0

\* The comparison of findLatestEntryByIntegratedTime; time 0 stands for no time.
NoTime == 0
Later(e, latest) ==
  \/ e.time # NoTime /\ latest.time # NoTime /\ e.time > latest.time
  \/ e.time # NoTime /\ latest.time = NoTime

\* Mutant: the entry that arrived last.
LastArrived(rs, I) == rs[CHOOSE k \in I : \A j \in I : j <= k].uuid

\* The loop over the entries at the positions I of the results: the first, and then each
\* that is later than the one before; 0 as long as there is none.
findLatestEntryByIntegratedTime(rs, I) ==
  LET latest[k \in 0..Len(rs)] ==
        IF k = 0 THEN 0
        ELSE IF k \in I /\ (latest[k - 1] = 0 \/ Later(log[rs[k].uuid], log[latest[k - 1]]))
             THEN rs[k].uuid ELSE latest[k - 1]
  IN  latest[Len(rs)]

-----------------------------------------------------------------------------
(* RetrieveVSA and fetchLogEntriesParallel *)

RetrInit ==
  /\ rpc = "idle" /\ uuids = << >> /\ pool = 0
  /\ fed = << >> /\ feeding = FALSE /\ chan = << >>
  /\ wpc = [w \in Workers |-> "off"] /\ job = [w \in Workers |-> 0]
  /\ results = << >> /\ expired = FALSE /\ missing = 0 /\ answer = NoAnswer

\* External: the index search for the hash at the retriever's server, in any order.
Hits == {i \in DOMAIN log : log[i].server = setup.server /\ log[i].digest = setup.digest}

\* Not more workers than UUIDs.
PoolSize(n) == IF n < NumWorkers THEN n ELSE NumWorkers

\* An algorithm that is known, and a hash in hexadecimal digits.
isValidImageDigest(digest) == digest \notin {"", "malformed"}

\* RetrieveVSA up to the start of the pool.
Search ==
  /\ rpc = "idle" /\ setup.retrieve /\ isValidImageDigest(setup.digest)
  /\ uuids' \in SetToSeqs(Hits)
  /\ \/ Hits = {} /\ rpc' = "done" /\ answer' = Failed("no entries")
        /\ UNCHANGED <<pool, fed, feeding, wpc>>
     \/ /\ Hits # {} /\ rpc' = "collect" /\ UNCHANGED answer
        /\ pool' = PoolSize(Len(uuids'))
        /\ fed' = uuids' /\ feeding' = TRUE
        /\ wpc' = [w \in Workers |-> IF w <= pool' THEN "range" ELSE "off"]
  /\ UNCHANGED <<chan, job, results, expired, missing>>

\* There is no search for a digest that is empty or not one; or the search itself
\* fails, or does not end before the deadline.
SearchFails ==
  /\ rpc = "idle" /\ setup.retrieve /\ rpc' = "done"
  /\ answer' = IF isValidImageDigest(setup.digest) THEN Failed("search") ELSE Failed("digest")
  /\ UNCHANGED <<uuids, pool, fed, feeding, chan, wpc, job, results, expired, missing>>

\* context.WithTimeout
Expire ==
  /\ rpc = "collect" /\ ~expired
  /\ expired' = TRUE
  /\ UNCHANGED <<rpc, uuids, pool, fed, feeding, chan, wpc, job, results, missing, answer>>

\* The feeder: the channel has room for every UUID; after the deadline the select
\* takes either branch.
Feed ==
  /\ feeding /\ fed # << >>
  /\ \/ chan' = Append(chan, Head(fed)) /\ fed' = Tail(fed) /\ UNCHANGED feeding
     \/ expired /\ feeding' = FALSE /\ fed' = << >> /\ UNCHANGED chan
  /\ UNCHANGED <<rpc, uuids, pool, wpc, job, results, expired, missing, answer>>

\* Mutant: the channel stays open when the feeder returns early.
CloseUuidsUnlessExpired ==
  /\ feeding /\ fed = << >> /\ ~expired /\ feeding' = FALSE
  /\ UNCHANGED <<rpc, uuids, pool, fed, chan, wpc, job, results, expired, missing, answer>>

\* defer close(uuidChan)
CloseUuids ==
  /\ feeding /\ fed = << >> /\ feeding' = FALSE
  /\ UNCHANGED <<rpc, uuids, pool, fed, chan, wpc, job, results, expired, missing, answer>>

Goto(w, where) == wpc' = [wpc EXCEPT ![w] = where]

\* for uuid := range uuidChan, and the look at the context that follows
Take(w) ==
  /\ wpc[w] = "range" /\ chan # << >>
  /\ chan' = Tail(chan)
  /\ IF expired THEN Goto(w, "off") /\ UNCHANGED job
     ELSE Goto(w, "fetch") /\ job' = [job EXCEPT ![w] = Head(chan)]
  /\ UNCHANGED <<rpc, uuids, pool, fed, feeding, results, expired, missing, answer>>

\* The channel is closed and empty.
Leave(w) ==
  /\ wpc[w] = "range" /\ chan = << >> /\ ~feeding
  /\ Goto(w, "off")
  /\ UNCHANGED <<rpc, uuids, pool, fed, feeding, chan, job, results, expired, missing, answer>>

Result(i, ok) == [uuid |-> i, ok |-> ok]

\* GetLogEntryByUUID and the select that sends its result; resultChan has room for
\* every result, and after the deadline the select takes either branch.
FetchEntry(w) ==
  /\ wpc[w] = "fetch"
  /\ \/ ~expired /\ results' = Append(results, Result(job[w], TRUE)) /\ UNCHANGED missing /\ Goto(w, "range")
     \/ /\ ~expired /\ missing < MaxMissing /\ missing' = missing + 1
        /\ results' = Append(results, Result(job[w], FALSE)) /\ Goto(w, "range")
     \/ /\ expired /\ UNCHANGED missing
        /\ \/ \E ok \in BOOLEAN : results' = Append(results, Result(job[w], ok)) /\ Goto(w, "range")
           \/ Goto(w, "off") /\ UNCHANGED results
  /\ job' = [job EXCEPT ![w] = 0]
  /\ UNCHANGED <<rpc, uuids, pool, fed, feeding, chan, expired, answer>>

\* The positions of the entries that were fetched and are in-toto 0.0.2.
IntotoV002(rs) ==
  {k \in DOMAIN rs : rs[k].ok /\ classifyEntryKind(log[rs[k].uuid]) = "intoto-v002"}

\* The rest of RetrieveVSA: from the results to the envelope.
Choice(rs) ==
  IF IntotoV002(rs) = {} THEN Failed("no in-toto 0.0.2 entry")
  ELSE LET latest == findLatestEntryByIntegratedTime(rs, IntotoV002(rs)) IN
       IF buildDSSEEnvelopeFromIntotoV002(log[latest])
       THEN [ok |-> TRUE, entry |-> latest, why |-> None]
       ELSE Failed("envelope")

WorkersDone == \A w \in Workers : wpc[w] = "off"

\* wg.Wait, close(resultChan), and what fetchLogEntriesParallel does when the channel is
\* drained: a deadline that has passed makes it an error, failed fetches do not.
Collect ==
  /\ rpc = "collect" /\ WorkersDone /\ rpc' = "done"
  /\ answer' = IF expired THEN Failed("deadline") ELSE Choice(results)
  /\ UNCHANGED <<uuids, pool, fed, feeding, chan, wpc, job, results, expired, missing>>

RetrNext ==
  \/ Search \/ SearchFails \/ Expire \/ Feed \/ CloseUuids \/ Collect
  \/ \E w \in Workers : Take(w) \/ Leave(w) \/ FetchEntry(w)

Next ==
  \/ CommandNext /\ UNCHANGED retrVars
  \/ RetrNext /\ UNCHANGED cmdVars

Init == CmdInit /\ RetrInit

Spec == Init /\ [][Next]_vars

\* Goroutines run, calls return; nothing makes the deadline pass or a search begin.
Fairness ==
  /\ WF_vars((Feed \/ CloseUuids) /\ UNCHANGED cmdVars)
  /\ WF_vars(Collect /\ UNCHANGED cmdVars)
  /\ \A w \in Workers : WF_vars((Take(w) \/ Leave(w) \/ FetchEntry(w)) /\ UNCHANGED cmdVars)

FairSpec == Spec /\ Fairness

-----------------------------------------------------------------------------
(* Properties *)

\* Types of the state.
TypeOK ==
  /\ CmdTypeOK
  /\ rpc \in {"idle", "collect", "done"}
  /\ pool \in 0..NumWorkers /\ missing \in 0..MaxMissing
  /\ Range(uuids) \subseteq DOMAIN log
  /\ Range(chan) \cup Range(fed) \subseteq Range(uuids)
  /\ wpc \in [Workers -> {"off", "range", "fetch"}]
  /\ \A w \in Workers : wpc[w] = "fetch" => job[w] \in Range(uuids)
  /\ Len(results) <= Len(uuids)

\* rekor_retriever.go, fetchLogEntriesParallel: the deadline never turns into an answer
\* from some of the entries: behind each answer every UUID that the search found was
\* fetched or failed for a reason of its own, exactly once.
NoPartialAnswer ==
  answer.ok =>
    /\ Len(results) = Len(uuids)
    /\ {results[k].uuid : k \in DOMAIN results} = Range(uuids)

\* rekor_retriever.go, findLatestEntryByIntegratedTime: whatever order the workers
\* deliver in, no fetched in-toto 0.0.2 entry is later than the one that is returned, and
\* an entry that has no time is returned only when none has.
LatestOfFetched ==
  answer.ok =>
    /\ \E k \in IntotoV002(results) : answer.entry = results[k].uuid
    /\ log[answer.entry].digest = setup.digest
    /\ \A k \in IntotoV002(results) : log[results[k].uuid].time <= log[answer.entry].time

\* A retrieval that has begun ends: no goroutine waits for a channel for ever, with or
\* without the deadline.
RetrievalEnds == (rpc = "collect") ~> (rpc = "done")

\* RetrieveVSA answers with the latest entry of all that it found and could fetch, or with
\* an error: neither the deadline nor the order of arrival makes it an older one.
AnswerLatest == NoPartialAnswer /\ LatestOfFetched
=============================================================================
