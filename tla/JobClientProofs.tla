--------------------------- MODULE JobClientProofs ---------------------------
(***************************************************************************)
(* Proofs about JobClient, for every number of clients, Jobs and buffered  *)
(* events, and whether or not requests fail.                               *)
(*                                                                         *)
(* A step changes the API server, one client, or both.  The invariant is   *)
(* therefore taken apart into what it says of the server and what it says  *)
(* of one client's record: the Keeps lemmas show that no step of the       *)
(* server disturbs a record, the ...Step lemmas that a client's own step   *)
(* leaves its record in order.                                             *)
(***************************************************************************)
EXTENDS JobClient, SequenceTheorems, TLAPS

ServerOk ==
  /\ cur \in Uids \cup {NoUid}
  /\ jobs \in Seq(Job) /\ Len(jobs) <= MaxUids
  /\ log \in Seq(Event)
  /\ ServerInv

\* What ClientInv says of the record k of one client.
StreamOk(k) ==
  k.pc \in {"watchOpen", "stream"} =>
    \/ k.rv = Len(log) /\ cur = k.ref /\ jobs[k.ref].phase = "running"
    \/ /\ k.rv < Len(log)
       /\ log[k.rv + 1].uid = k.ref
       /\ \/ /\ log[k.rv + 1].type = "MODIFIED"
             /\ log[k.rv + 1].phase = jobs[k.ref].phase /\ jobs[k.ref].phase \in Finished
          \/ /\ log[k.rv + 1].type = "DELETED"
             /\ jobs[k.ref].gone /\ jobs[k.ref].phase = "running"
SaidOk(k) ==
  /\ k.said = "Succeeded" => jobs[k.ref].phase = "complete"
  /\ k.said = "Failed" => jobs[k.ref].phase = "failed"
  /\ k.said = "Deleted" => jobs[k.ref].gone /\ jobs[k.ref].phase = "running"
RefOk(k) ==
  /\ k.ref <= Len(jobs) /\ k.rv <= Len(log)
  /\ k.ref # NoUid => jobs[k.ref].own
  /\ k.pc \in {"deleteGet", "delete", "snapshot", "watchGet", "watchOpen",
               "stream", "closed"} => k.ref # NoUid
  /\ k.pc \in {"create", "createGet", "resolve"} => k.ref = NoUid
  /\ k.ref = NoUid => k.said = "Open"
RecordOk(k) == k \in Client /\ RefOk(k) /\ StreamOk(k) /\ SaidOk(k)

\* The invariant is that the server is in order and every record is.
LEMMA Parts ==
  ClientInv <=> /\ ServerOk
                /\ DOMAIN client = Clients /\ client = [c \in Clients |-> client[c]]
                /\ \A c \in Clients : RecordOk(client[c])
<1>1. ASSUME ClientInv
      PROVE  /\ ServerOk
             /\ DOMAIN client = Clients /\ client = [c \in Clients |-> client[c]]
  BY <1>1 DEF ClientInv, TypeOK, ServerOk
<1>2. ASSUME ClientInv, NEW c \in Clients
      PROVE  RecordOk(client[c])
  <2>1. client[c] \in Client
    BY <1>2 DEF ClientInv, TypeOK
  <2>2. RefOk(client[c])
    BY <1>2 DEF ClientInv, TypeOK, RefIsOwn, CallInv, RefOk
  <2>3. StreamOk(client[c])
    BY <1>2 DEF ClientInv, StreamInv, StreamOk
  <2>4. SaidOk(client[c])
    BY <1>2 DEF ClientInv, ReportIsTrue, SaidOk
  <2>. QED  BY <2>1, <2>2, <2>3, <2>4 DEF RecordOk
<1>3. ASSUME ServerOk, DOMAIN client = Clients, client = [c \in Clients |-> client[c]],
             \A c \in Clients : RecordOk(client[c])
      PROVE  ClientInv
  <2>1. TypeOK
    BY <1>3 DEF TypeOK, ServerOk, RecordOk, RefOk
  <2>2. RefIsOwn /\ CallInv
    BY <1>3 DEF RefIsOwn, CallInv, RecordOk, RefOk
  <2>3. StreamInv
    BY <1>3 DEF StreamInv, RecordOk, StreamOk
  <2>4. ReportIsTrue
    BY <1>3 DEF ReportIsTrue, RecordOk, SaidOk, Client, States
  <2>. QED  BY <1>3, <2>1, <2>2, <2>3, <2>4 DEF ClientInv, ServerOk
<1>. QED  BY <1>1, <1>2, <1>3

\* A Job is created only when none has the name, so no watch is up to date then,
\* and the new UID is nobody's reference.
LEMMA NewJobKeeps ==
  ASSUME ServerOk, NEW own \in BOOLEAN, NewJob(own)
  PROVE  ServerOk' /\ \A k \in Client : RecordOk(k) => RecordOk(k)'
<1>. USE ClientAssumption
<1>1. ServerOk'
  BY DEF ServerOk, ServerInv, NewJob, Exists, Uids, NoUid, Job, Event, Phases
<1>2. ASSUME NEW k \in Client, RecordOk(k)
      PROVE  RecordOk(k)'
  <2>1. RefOk(k)'
    BY <1>2 DEF RecordOk, RefOk, ServerOk, NewJob, Client, NoUid, Uids, Job, Event
  <2>2. StreamOk(k)'
    BY <1>2 DEF RecordOk, RefOk, StreamOk, ServerOk, NewJob, Exists, Client, NoUid, Uids, Job, Event
  <2>3. SaidOk(k)'
    BY <1>2 DEF RecordOk, RefOk, SaidOk, ServerOk, NewJob, Client, NoUid, Uids, Job, Event
  <2>. QED  BY <1>2, <2>1, <2>2, <2>3 DEF RecordOk
<1>. QED  BY <1>1, <1>2

\* A removal is the next event of every watch that had read everything, and of no
\* other.
LEMMA RemoveJobKeeps ==
  ASSUME ServerOk, RemoveJob
  PROVE  ServerOk' /\ \A k \in Client : RecordOk(k) => RecordOk(k)'
<1>1. ServerOk'
  <2>1. cur \in 1 .. Len(jobs) /\ jobs[cur] \in Job
    BY DEF ServerOk, ServerInv, RemoveJob, Exists, NoUid, Uids
  <2>2. jobs' \in Seq(Job) /\ Len(jobs') = Len(jobs)
    <3>. DEFINE j == [jobs[cur] EXCEPT !.gone = TRUE]
    <3>1. j \in Job /\ jobs' = [jobs EXCEPT ![cur] = j]
      BY <2>1 DEF RemoveJob, Job
    <3>. HIDE DEF j
    <3>. QED  BY <2>1, <3>1, ExceptSeq DEF ServerOk
  <2>3. log' \in Seq(Event)
    BY <2>1 DEF RemoveJob, ServerOk, Event, Job, Uids, Exists, NoUid
  <2>. QED  BY <2>2, <2>3 DEF ServerOk, ServerInv, RemoveJob, Exists, Uids, NoUid
<1>2. ASSUME NEW k \in Client, RecordOk(k)
      PROVE  RecordOk(k)'
  <2>1. RefOk(k)'
    BY <1>2 DEF RecordOk, RefOk, ServerOk, RemoveJob, Client, NoUid, Uids, Job, Event
  <2>2. StreamOk(k)'
    <3>1. SUFFICES ASSUME k.pc \in {"watchOpen", "stream"} PROVE StreamOk(k)'
      BY DEF StreamOk
    <3>2. k.ref \in 1 .. Len(jobs) /\ k.rv \in Nat
      BY <1>2, <3>1, ClientAssumption DEF RecordOk, RefOk, Client, NoUid, Uids
    <3>3. /\ jobs'[k.ref].phase = jobs[k.ref].phase
          /\ jobs[k.ref].gone \/ k.ref = cur => jobs'[k.ref].gone
      BY <3>2 DEF RemoveJob, ServerOk, Job
    <3>4. /\ Len(log') = Len(log) + 1
          /\ \A v \in 1 .. Len(log) : log'[v] = log[v]
          /\ log'[Len(log) + 1].uid = cur /\ log'[Len(log) + 1].type = "DELETED"
      BY DEF RemoveJob, ServerOk
    <3>5. Len(log) \in Nat
      BY DEF ServerOk
    <3>6. CASE k.rv = Len(log) /\ cur = k.ref /\ jobs[k.ref].phase = "running"
      BY <3>2, <3>3, <3>4, <3>5, <3>6 DEF StreamOk
    <3>7. CASE k.rv < Len(log)
      <4>1. log'[k.rv + 1] = log[k.rv + 1] /\ k.rv < Len(log')
        BY <3>2, <3>4, <3>5, <3>7
      <4>. QED  BY <1>2, <3>1, <3>2, <3>3, <3>5, <3>7, <4>1 DEF RecordOk, StreamOk
    <3>. QED  BY <1>2, <3>1, <3>6, <3>7 DEF RecordOk, StreamOk
  <2>3. SaidOk(k)'
    BY <1>2 DEF RecordOk, RefOk, SaidOk, ServerOk, RemoveJob, Client, NoUid, Uids,
                Job, Event
  <2>. QED  BY <1>2, <2>1, <2>2, <2>3 DEF RecordOk
<1>. QED  BY <1>1, <1>2

\* A Job finishes only while it is there, so no record of its removal is falsified.
LEMMA JobFinishesKeeps ==
  ASSUME ServerOk, NEW p \in Finished, JobFinishes(p)
  PROVE  ServerOk' /\ \A k \in Client : RecordOk(k) => RecordOk(k)'
<1>1. ServerOk'
  <2>1. cur \in 1 .. Len(jobs) /\ jobs[cur] \in Job
    BY DEF ServerOk, ServerInv, JobFinishes, Exists, NoUid, Uids
  <2>2. jobs' \in Seq(Job) /\ Len(jobs') = Len(jobs) /\ jobs'[cur].gone = jobs[cur].gone
    <3>. DEFINE j == [jobs[cur] EXCEPT !.phase = p]
    <3>1. j \in Job /\ jobs' = [jobs EXCEPT ![cur] = j] /\ j.gone = jobs[cur].gone
      BY <2>1 DEF JobFinishes, Job, Phases, Finished
    <3>. HIDE DEF j
    <3>. QED  BY <2>1, <3>1, ExceptSeq DEF ServerOk
  <2>3. log' \in Seq(Event)
    BY <2>1 DEF JobFinishes, ServerOk, Event, Uids, Exists, NoUid, Phases, Finished
  <2>. QED  BY <2>2, <2>3 DEF ServerOk, ServerInv, JobFinishes, Exists, Uids, NoUid
<1>2. ASSUME NEW k \in Client, RecordOk(k)
      PROVE  RecordOk(k)'
  <2>1. RefOk(k)'
    BY <1>2 DEF RecordOk, RefOk, ServerOk, JobFinishes, Client, NoUid, Uids, Job, Event
  <2>2. StreamOk(k)'
    <3>1. SUFFICES ASSUME k.pc \in {"watchOpen", "stream"} PROVE StreamOk(k)'
      BY DEF StreamOk
    <3>2. k.ref \in 1 .. Len(jobs) /\ k.rv \in Nat
      BY <1>2, <3>1, ClientAssumption DEF RecordOk, RefOk, Client, NoUid, Uids
    <3>3. cur \in 1 .. Len(jobs) /\ jobs[cur].phase = "running" /\ ~jobs[cur].gone
      BY ClientAssumption DEF JobFinishes, ServerOk, ServerInv, Exists, NoUid, Uids
    <3>4. /\ jobs'[k.ref].phase = IF k.ref = cur THEN p ELSE jobs[k.ref].phase
          /\ jobs'[k.ref].gone = jobs[k.ref].gone
      BY <3>2, <3>3 DEF JobFinishes, ServerOk, Job
    <3>5. /\ Len(log') = Len(log) + 1
          /\ \A v \in 1 .. Len(log) : log'[v] = log[v]
          /\ log'[Len(log) + 1].uid = cur /\ log'[Len(log) + 1].type = "MODIFIED"
          /\ log'[Len(log) + 1].phase = p
      BY DEF JobFinishes, ServerOk
    <3>6. Len(log) \in Nat /\ cur' = cur
      BY DEF ServerOk, JobFinishes
    <3>7. CASE k.rv = Len(log) /\ cur = k.ref
      BY <3>2, <3>4, <3>5, <3>6, <3>7 DEF StreamOk
    <3>8. CASE k.rv < Len(log)
      <4>1. log'[k.rv + 1] = log[k.rv + 1] /\ k.rv < Len(log')
        BY <3>2, <3>5, <3>6, <3>8
      <4>2. k.ref # cur
        BY <1>2, <3>1, <3>2, <3>3, <3>6, <3>8 DEF RecordOk, StreamOk, Finished
      <4>. QED  BY <1>2, <3>1, <3>2, <3>4, <3>6, <3>8, <4>1, <4>2 DEF RecordOk, StreamOk
    <3>. QED  BY <1>2, <3>1, <3>7, <3>8 DEF RecordOk, StreamOk
  <2>3. SaidOk(k)'
    BY <1>2 DEF RecordOk, RefOk, SaidOk, ServerOk, ServerInv, JobFinishes, Exists,
                Client, NoUid, Uids, Job, Event
  <2>. QED  BY <1>2, <2>1, <2>2, <2>3 DEF RecordOk
<1>. QED  BY <1>1, <1>2

\* A step that leaves the server alone.
LEMMA UnchangedKeeps ==
  ASSUME ServerOk, UNCHANGED server
  PROVE  ServerOk' /\ \A k \in Client : RecordOk(k) => RecordOk(k)'
<1>1. ServerOk'
  BY DEF ServerOk, ServerInv, Exists, server
<1>2. ASSUME NEW k \in Client, RecordOk(k)
      PROVE  RecordOk(k)'
  BY <1>2 DEF RecordOk, RefOk, StreamOk, SaidOk, server
<1>. QED  BY <1>1, <1>2

\* A step of client c that keeps the server in order, and c's own record.
LEMMA OneClient ==
  ASSUME ClientInv, NEW c \in Clients, NEW r,
         ServerOk' /\ \A k \in Client : RecordOk(k) => RecordOk(k)',
         client' = [client EXCEPT ![c] = r], RecordOk(r)'
  PROVE  ClientInv'
<1>1. \A d \in Clients : RecordOk(client[d]) /\ client[d] \in Client
  BY Parts DEF RecordOk
<1>2. \A d \in Clients : client'[d] = IF d = c THEN r ELSE client[d]
  BY Parts
<1>3. DOMAIN client' = Clients /\ client' = [d \in Clients |-> client'[d]]
  BY Parts
<1>4. ASSUME NEW d \in Clients
      PROVE  RecordOk(client[d])'
  <2>1. CASE d = c
    BY <1>2, <2>1 DEF RecordOk, RefOk, StreamOk, SaidOk
  <2>2. CASE d # c
    <3>1. PICK k \in Client : k = client[d]
      BY <1>1
    <3>2. RecordOk(k)
      BY <1>1, <3>1
    <3>3. RecordOk(k)'
      BY <3>2
    <3>. QED  BY <1>2, <2>2, <3>1, <3>3 DEF RecordOk, RefOk, StreamOk, SaidOk
  <2>. QED  BY <2>1, <2>2
<1>5. TypeOK'
  BY <1>3, <1>4 DEF TypeOK, ServerOk, RecordOk, RefOk
<1>6. (RefIsOwn /\ CallInv)'
  BY <1>4 DEF RefIsOwn, CallInv, RecordOk, RefOk
<1>7. StreamInv'
  BY <1>4 DEF StreamInv, RecordOk, StreamOk
<1>8. ReportIsTrue'
  BY <1>4 DEF ReportIsTrue, RecordOk, SaidOk
<1>. QED  BY <1>5, <1>6, <1>7, <1>8 DEF ClientInv, ServerOk

-----------------------------------------------------------------------------
(* A client's own record                                                   *)

\* A step of client c alone.
LEMMA ClientStep ==
  ASSUME ClientInv, NEW c \in Clients, NEW r, UNCHANGED server, Becomes(c, r),
         RecordOk(r)
  PROVE  ClientInv'
<1>1. ServerOk' /\ \A k \in Client : RecordOk(k) => RecordOk(k)'
  BY Parts, UnchangedKeeps
<1>2. RecordOk(r)'
  BY <1>1 DEF RecordOk
<1>. QED  BY <1>1, <1>2, OneClient DEF Becomes

\* A client that gives its operation up keeps a good record.
LEMMA ReturnOk ==
  ASSUME NEW k, RecordOk(k)
  PROVE  RecordOk([k EXCEPT !.pc = "idle", !.rv = 0])
<1>1. PICK r : r = [k EXCEPT !.pc = "idle", !.rv = 0]
  OBVIOUS
<1>2. /\ r \in Client
      /\ r.pc = "idle" /\ r.ref = k.ref /\ r.rv = 0 /\ r.said = k.said
  BY <1>1 DEF RecordOk, Client, PCs
<1>3. RecordOk(r)
  <2>1. RefOk(r)
    BY <1>2 DEF RecordOk, RefOk
  <2>2. StreamOk(r) /\ SaidOk(r)
    BY <1>2 DEF RecordOk, StreamOk, SaidOk
  <2>. QED  BY <1>2, <2>1, <2>2 DEF RecordOk
<1>. QED  BY <1>1, <1>3

\* Nor does moving on to a request that the held reference permits.
LEMMA GotoOk ==
  ASSUME NEW k, RecordOk(k),
         NEW pc \in {"createGet", "delete", "stream", "closed"},
         pc = "createGet" => k.pc = "create",
         pc = "stream" => k.pc = "watchOpen",
         pc \in {"delete", "closed"} => k.ref # NoUid
  PROVE  RecordOk([k EXCEPT !.pc = pc])
<1>1. PICK r : r = [k EXCEPT !.pc = pc]
  OBVIOUS
<1>2. /\ r \in Client
      /\ r.pc = pc /\ r.ref = k.ref /\ r.rv = k.rv /\ r.said = k.said
  BY <1>1 DEF RecordOk, Client, PCs
<1>3. RecordOk(r)
  <2>1. RefOk(r)
    BY <1>2 DEF RecordOk, RefOk
  <2>2. StreamOk(r) /\ SaidOk(r)
    BY <1>2 DEF RecordOk, StreamOk, SaidOk
  <2>. QED  BY <1>2, <2>1, <2>2 DEF RecordOk
<1>. QED  BY <1>1, <1>3

\* A reference to an own Job may be returned.
LEMMA ReturnRefOk ==
  ASSUME ServerOk, NEW k, RecordOk(k), k.pc \in {"create", "createGet", "resolve"},
         NEW u \in 1 .. Len(jobs), jobs[u].own
  PROVE  RecordOk([k EXCEPT !.pc = "idle", !.ref = u])
<1>0. u \in Uids /\ u # NoUid
  BY ClientAssumption DEF ServerOk, Uids, NoUid
<1>1. PICK r : r = [k EXCEPT !.pc = "idle", !.ref = u]
  OBVIOUS
<1>2. /\ r \in Client
      /\ r.pc = "idle" /\ r.ref = u /\ r.rv = k.rv /\ r.said = k.said
  BY <1>0, <1>1 DEF RecordOk, Client, PCs
<1>3. RecordOk(r)
  <2>1. RefOk(r)
    BY <1>0, <1>2 DEF RecordOk, RefOk
  <2>2. StreamOk(r) /\ SaidOk(r)
    BY <1>2 DEF RecordOk, RefOk, StreamOk, SaidOk
  <2>. QED  BY <1>2, <2>1, <2>2 DEF RecordOk
<1>. QED  BY <1>1, <1>3

\* The state of the Job that the reference names.
LEMMA JobStateTrue ==
  ASSUME NEW phase \in Phases
  PROVE  /\ JobToState(phase) \in States \ {"Deleted"}
         /\ JobToState(phase) = "Succeeded" => phase = "complete"
         /\ JobToState(phase) = "Failed" => phase = "failed"
         /\ phase \in Finished => JobToState(phase) \in TerminalStates
BY DEF JobToState, Phases, Finished, States, TerminalStates

\* A reference that is held names a Job.
LEMMA RefJob ==
  ASSUME ServerOk, NEW k, RecordOk(k), k.ref # NoUid
  PROVE  k.ref \in 1 .. Len(jobs) /\ jobs[k.ref] \in Job /\ jobs[k.ref].phase \in Phases
<1>1. k.ref \in 1 .. Len(jobs)
  BY ClientAssumption DEF RecordOk, RefOk, Client, Uids, NoUid
<1>2. jobs[k.ref] \in Job
  BY <1>1 DEF ServerOk
<1>. QED  BY <1>1, <1>2 DEF Job

\* A snapshot, a seeding Get or an event may report what is so.
LEMMA ReportOk ==
  ASSUME NEW k, RecordOk(k), k.ref # NoUid,
         NEW r \in Client, r.ref = k.ref, r.rv <= Len(log),
         r.pc \in {"idle", "closed"} \/ (r.pc = "stream" /\ k.pc = "stream" /\ r.rv = k.rv),
         SaidOk(r)
  PROVE  RecordOk(r)
<1>1. RefOk(r)
  BY DEF RecordOk, RefOk
<1>2. StreamOk(r)
  BY DEF RecordOk, StreamOk
<1>. QED  BY <1>1, <1>2 DEF RecordOk

-----------------------------------------------------------------------------
(* The actions of a client                                                 *)

\* Calling an operation forgets what was reported, and the reference if it is to
\* yield one.
LEMMA CallStep ==
  ASSUME ClientInv, NEW c \in Clients, Call(c)
  PROVE  ClientInv'
<1>1. ServerOk /\ RecordOk(client[c]) /\ client[c] \in Client
  BY Parts DEF RecordOk
<1>2. ASSUME NEW pc \in {"create", "resolve"},
             Becomes(c, [client[c] EXCEPT !.pc = pc, !.ref = NoUid, !.said = "Open"])
      PROVE  ClientInv'
  <2>1. PICK r : r = [client[c] EXCEPT !.pc = pc, !.ref = NoUid, !.said = "Open"]
    OBVIOUS
  <2>2. /\ r \in Client
        /\ r.pc = pc /\ r.ref = NoUid /\ r.rv = client[c].rv /\ r.said = "Open"
    BY <1>1, <2>1 DEF Client, PCs, States
  <2>3. RefOk(r)
    BY <1>1, <2>2 DEF ServerOk, RecordOk, RefOk, NoUid
  <2>4. StreamOk(r) /\ SaidOk(r)
    BY <2>2 DEF StreamOk, SaidOk
  <2>5. RecordOk(r)
    BY <2>2, <2>3, <2>4 DEF RecordOk
  <2>. QED  BY <1>2, <2>1, <2>5, ClientStep DEF Call
<1>3. ASSUME client[c].ref # NoUid, NEW pc \in {"deleteGet", "snapshot", "watchGet"},
             Becomes(c, [client[c] EXCEPT !.pc = pc, !.said = "Open"])
      PROVE  ClientInv'
  <2>1. PICK r : r = [client[c] EXCEPT !.pc = pc, !.said = "Open"]
    OBVIOUS
  <2>2. /\ r \in Client
        /\ r.pc = pc /\ r.ref = client[c].ref /\ r.rv = client[c].rv /\ r.said = "Open"
    BY <1>1, <2>1 DEF Client, PCs, States
  <2>3. RefOk(r)
    BY <1>1, <1>3, <2>2 DEF RecordOk, RefOk
  <2>4. StreamOk(r) /\ SaidOk(r)
    BY <2>2 DEF StreamOk, SaidOk
  <2>5. RecordOk(r)
    BY <2>2, <2>3, <2>4 DEF RecordOk
  <2>. QED  BY <1>3, <2>1, <2>5, ClientStep DEF Call
<1>. QED  BY <1>2, <1>3 DEF Call

\* An operation that returns without a result, on an unchanged server.
LEMMA ReturnStep ==
  ASSUME ClientInv, NEW c \in Clients, Return(c), UNCHANGED server
  PROVE  ClientInv'
<1>1. RecordOk([client[c] EXCEPT !.pc = "idle", !.rv = 0])
  BY Parts, ReturnOk
<1>. QED  BY <1>1, ClientStep DEF Return

\* Create after AlreadyExists, and ResolveByIdentity.
LEMMA LookupStep ==
  ASSUME ClientInv, NEW c \in Clients, CreateGet(c) \/ ResolveByIdentity(c)
  PROVE  ClientInv'
<1>1. ServerOk /\ RecordOk(client[c])
  BY Parts
<1>2. CASE Exists /\ jobs[cur].own /\ ReturnRef(c, cur)
  <2>1. cur \in 1 .. Len(jobs)
    BY <1>1, <1>2, ClientAssumption DEF ServerOk, ServerInv, Exists, Uids, NoUid
  <2>2. RecordOk([client[c] EXCEPT !.pc = "idle", !.ref = cur])
    <3>1. client[c].pc \in {"create", "createGet", "resolve"}
      BY DEF CreateGet, ResolveByIdentity, At
    <3>. QED  BY <1>1, <1>2, <2>1, <3>1, ReturnRefOk
  <2>. QED  BY <1>2, <2>2, ClientStep DEF ReturnRef, CreateGet, ResolveByIdentity
<1>3. CASE Return(c)
  BY <1>3, ReturnStep DEF CreateGet, ResolveByIdentity
<1>. QED  BY <1>2, <1>3 DEF CreateGet, ResolveByIdentity, ExistingAttemptMarkerMatches

\* The Job that Create just made has the attempt's marker.
LEMMA CreateRequestStep ==
  ASSUME ClientInv, NEW c \in Clients, CreateRequest(c)
  PROVE  ClientInv'
<1>1. ServerOk /\ RecordOk(client[c])
  BY Parts
<1>2. CASE NewJob(TRUE) /\ ReturnRef(c, cur')
  <2>1. ServerOk' /\ \A k \in Client : RecordOk(k) => RecordOk(k)'
    BY <1>1, <1>2, NewJobKeeps
  <2>2. PICK k : k = client[c]
    OBVIOUS
  <2>3. RecordOk(k)' /\ k.pc = "create"
    BY <1>1, <2>1, <2>2 DEF RecordOk, CreateRequest, At
  <2>4. PICK u : u = cur'
    OBVIOUS
  <2>5. u \in (1 .. Len(jobs))' /\ jobs'[u].own
    BY <1>1, <1>2, <2>4 DEF NewJob, ServerOk, Job
  <2>6. u \in Uids /\ u # NoUid
    BY <2>1, <2>5, ClientAssumption DEF ServerOk, Uids, NoUid
  <2>7. PICK r : r = [k EXCEPT !.pc = "idle", !.ref = u]
    OBVIOUS
  <2>8. /\ r \in Client
        /\ r.pc = "idle" /\ r.ref = u /\ r.rv = k.rv /\ r.said = k.said
    BY <2>3, <2>6, <2>7 DEF RecordOk, Client, PCs
  <2>9. RefOk(r)'
    BY <2>3, <2>5, <2>6, <2>8 DEF RecordOk, RefOk
  <2>10. (StreamOk(r) /\ SaidOk(r))'
    BY <2>3, <2>8 DEF RecordOk, RefOk, StreamOk, SaidOk
  <2>11. RecordOk(r)'
    BY <2>8, <2>9, <2>10 DEF RecordOk
  <2>. QED  BY <1>2, <2>1, <2>2, <2>4, <2>7, <2>11, OneClient DEF ReturnRef, Becomes
<1>3. CASE Goto(c, "createGet") /\ UNCHANGED server
  <2>1. RecordOk([client[c] EXCEPT !.pc = "createGet"])
    BY <1>1, GotoOk DEF CreateRequest, At
  <2>. QED  BY <1>3, <2>1, ClientStep DEF Goto
<1>. QED  BY <1>2, <1>3 DEF CreateRequest

\* The first request of Delete changes nothing.
LEMMA DeleteGetStep ==
  ASSUME ClientInv, NEW c \in Clients, DeleteGet(c)
  PROVE  ClientInv'
<1>1. CASE Exists /\ cur = client[c].ref /\ Goto(c, "delete")
  <2>1. RecordOk([client[c] EXCEPT !.pc = "delete"])
    BY <1>1, Parts, GotoOk DEF Exists
  <2>. QED  BY <1>1, <2>1, ClientStep DEF Goto, DeleteGet
<1>2. CASE Return(c)
  BY <1>2, ReturnStep DEF DeleteGet
<1>. QED  BY <1>1, <1>2 DEF DeleteGet

\* A request that creates or removes a Job and returns nothing.
LEMMA EffectStep ==
  ASSUME ClientInv, NEW c \in Clients, RemoveJob \/ NewJob(TRUE), Return(c)
  PROVE  ClientInv'
<1>1. ServerOk' /\ \A k \in Client : RecordOk(k) => RecordOk(k)'
  BY Parts, RemoveJobKeeps, NewJobKeeps
<1>2. PICK r : r = [client[c] EXCEPT !.pc = "idle", !.rv = 0]
  OBVIOUS
<1>3. RecordOk(r)
  BY <1>2, Parts, ReturnOk
<1>4. RecordOk(r)'
  BY <1>1, <1>3 DEF RecordOk
<1>. QED  BY <1>1, <1>2, <1>4, OneClient DEF Return, Becomes

\* Delete removes the Job under the name or finds its precondition unmet.
LEMMA DeleteRequestStep ==
  ASSUME ClientInv, NEW c \in Clients, DeleteRequest(c)
  PROVE  ClientInv'
BY EffectStep, ReturnStep DEF DeleteRequest

\* A failed request returns nothing, whether or not it took effect.
LEMMA RequestFailsStep ==
  ASSUME ClientInv, NEW c \in Clients, RequestFails(c)
  PROVE  ClientInv'
BY EffectStep, ReturnStep DEF RequestFails


\* Snapshot reports the phase of the referenced Job.
LEMMA SnapshotStep ==
  ASSUME ClientInv, NEW c \in Clients, Snapshot(c)
  PROVE  ClientInv'
<1>1. ServerOk /\ RecordOk(client[c]) /\ client[c] \in Client
  BY Parts DEF RecordOk
<1>2. CASE cur = client[c].ref /\ ReturnState(c, JobToState(jobs[cur].phase))
  <2>1. client[c].ref # NoUid /\ jobs[client[c].ref].phase \in Phases
    BY <1>1, RefJob DEF Snapshot, At, RecordOk, RefOk
  <2>2. PICK state \in States : state = JobToState(jobs[client[c].ref].phase)
    BY <2>1, JobStateTrue
  <2>3. PICK r : r = [client[c] EXCEPT !.pc = "idle", !.said = state]
    OBVIOUS
  <2>4. /\ r \in Client
        /\ r.pc = "idle" /\ r.ref = client[c].ref /\ r.rv = client[c].rv
        /\ r.said = state
    BY <1>1, <2>3 DEF Client, PCs
  <2>5. SaidOk(r)
    BY <2>1, <2>2, <2>4, JobStateTrue DEF SaidOk
  <2>6. RecordOk(r)
    BY <1>1, <2>1, <2>4, <2>5, ReportOk DEF RecordOk, RefOk
  <2>. QED  BY <1>2, <2>2, <2>3, <2>6, ClientStep DEF Snapshot, ReturnState
<1>3. CASE Return(c)
  BY <1>3, ReturnStep DEF Snapshot
<1>. QED  BY <1>2, <1>3 DEF Snapshot, JobMatchesBackendRef

\* The Get that seeds a watch finds the Job finished, or running at the resource
\* version from which the stream will be read.
LEMMA WatchGetStep ==
  ASSUME ClientInv, NEW c \in Clients, WatchGet(c)
  PROVE  ClientInv'
<1>1. ServerOk /\ RecordOk(client[c]) /\ client[c] \in Client
  BY Parts DEF RecordOk
<1>2. client[c].ref # NoUid /\ jobs[client[c].ref].phase \in Phases
  BY <1>1, RefJob DEF WatchGet, At, RecordOk, RefOk
<1>3. CASE Return(c)
  BY <1>3, ReturnStep DEF WatchGet
<1>4. CASE /\ cur = client[c].ref
           /\ Becomes(c, [client[c] EXCEPT !.pc = "closed", !.buf = 1,
                                           !.said = JobToState(jobs[cur].phase)])
  <2>1. PICK state \in States : state = JobToState(jobs[client[c].ref].phase)
    BY <1>2, JobStateTrue
  <2>2. PICK r : r = [client[c] EXCEPT !.pc = "closed", !.buf = 1, !.said = state]
    OBVIOUS
  <2>a. 1 \in 0 .. Cap
    BY ClientAssumption
  <2>3. /\ r \in Client
        /\ r.pc = "closed" /\ r.ref = client[c].ref /\ r.rv = client[c].rv
        /\ r.said = state
    BY <1>1, <2>2, <2>a DEF Client, PCs
  <2>4. SaidOk(r)
    BY <1>2, <2>1, <2>3, JobStateTrue DEF SaidOk
  <2>5. RecordOk(r)
    BY <1>1, <1>2, <2>3, <2>4, ReportOk DEF RecordOk, RefOk
  <2>. QED  BY <1>4, <2>1, <2>2, <2>5, ClientStep DEF WatchGet
<1>5. CASE /\ cur = client[c].ref /\ jobs[cur].phase \notin Finished
           /\ Becomes(c, [client[c] EXCEPT !.pc = "watchOpen", !.rv = Len(log)])
  <2>1. PICK r : r = [client[c] EXCEPT !.pc = "watchOpen", !.rv = Len(log)]
    OBVIOUS
  <2>2. Len(log) \in Nat
    BY <1>1 DEF ServerOk
  <2>3. /\ r \in Client
        /\ r.pc = "watchOpen" /\ r.ref = client[c].ref /\ r.rv = Len(log)
        /\ r.said = client[c].said
    BY <1>1, <2>1, <2>2 DEF Client, PCs
  <2>4. RefOk(r)
    BY <1>1, <1>2, <2>2, <2>3 DEF RecordOk, RefOk
  <2>5. StreamOk(r) /\ SaidOk(r)
    BY <1>1, <1>2, <1>5, <2>3 DEF RecordOk, StreamOk, SaidOk, Phases, Finished
  <2>6. RecordOk(r)
    BY <2>3, <2>4, <2>5 DEF RecordOk
  <2>. QED  BY <1>5, <2>1, <2>6, ClientStep DEF WatchGet
<1>. QED  BY <1>3, <1>4, <1>5 DEF WatchGet, JobMatchesBackendRef

\* The stream is opened where the Get left off.
LEMMA WatchOpenStep ==
  ASSUME ClientInv, NEW c \in Clients, WatchOpen(c)
  PROVE  ClientInv'
<1>1. RecordOk([client[c] EXCEPT !.pc = "stream"])
  BY Parts, GotoOk DEF WatchOpen, At
<1>. QED  BY <1>1, ClientStep DEF WatchOpen, Goto

\* An event that is sent: true of the Job, and the last one if it is an end.
LEMMA SendStep ==
  ASSUME ClientInv, NEW c \in Clients, At(c, "stream"), UNCHANGED server,
         NEW rv \in Nat, rv <= Len(log), NEW state \in States, Send(c, rv, state),
         state = "Open" => rv = client[c].rv,
         state = "Succeeded" => jobs[client[c].ref].phase = "complete",
         state = "Failed" => jobs[client[c].ref].phase = "failed",
         state = "Deleted" => /\ jobs[client[c].ref].gone
                              /\ jobs[client[c].ref].phase = "running"
  PROVE  ClientInv'
<1>1. ServerOk /\ RecordOk(client[c]) /\ client[c] \in Client
  BY Parts DEF RecordOk
<1>2. PICK pc : pc = IF state \in TerminalStates THEN "closed" ELSE "stream"
  OBVIOUS
<1>3. PICK r : r = [client[c] EXCEPT !.rv = rv, !.buf = @ + 1, !.said = state, !.pc = pc]
  OBVIOUS
<1>4. client[c].buf + 1 \in 0 .. Cap
  BY <1>1, ClientAssumption DEF Send, TrySendEvent, Client
<1>5. /\ r \in Client
      /\ r.pc = pc /\ r.ref = client[c].ref /\ r.rv = rv /\ r.said = state
  BY <1>1, <1>2, <1>3, <1>4 DEF Client, PCs
<1>6. SaidOk(r)
  BY <1>5 DEF SaidOk
<1>7. r.pc = "closed" \/ (r.pc = "stream" /\ client[c].pc = "stream" /\ r.rv = client[c].rv)
  BY <1>2, <1>5 DEF At, TerminalStates
<1>8. client[c].ref # NoUid
  BY <1>1 DEF RecordOk, RefOk, At
<1>9. RecordOk(r)
  BY <1>1, <1>5, <1>6, <1>7, <1>8, ReportOk
<1>. QED  BY <1>2, <1>3, <1>9, ClientStep DEF Send

\* The next event of the stream is the end of the Job that is watched, whatever
\* happened under the name since: StreamInv.
LEMMA JobEventStep ==
  ASSUME ClientInv, NEW c \in Clients, JobEvent(c)
  PROVE  ClientInv'
<1>1. ServerOk /\ RecordOk(client[c]) /\ client[c] \in Client
  BY Parts DEF RecordOk
<1>2. PICK v : v = client[c].rv + 1
  OBVIOUS
<1>3. v \in Nat /\ v \in 1 .. Len(log) /\ v <= Len(log)
  BY <1>1, <1>2 DEF JobEvent, ServerOk, Client
<1>4. PICK k : k = client[c]
  OBVIOUS
<1>5. /\ log[v].uid = k.ref
      /\ \/ /\ log[v].type = "MODIFIED"
            /\ log[v].phase = jobs[k.ref].phase /\ jobs[k.ref].phase \in Finished
         \/ /\ log[v].type = "DELETED"
            /\ jobs[k.ref].gone /\ jobs[k.ref].phase = "running"
  <2>1. k.pc = "stream" /\ k.rv # Len(log) /\ v = k.rv + 1
    BY <1>1, <1>2, <1>3, <1>4 DEF JobEvent, At, Client, ServerOk
  <2>. QED  BY <1>1, <1>4, <2>1 DEF RecordOk, StreamOk
<1>6. CASE log[v].type = "DELETED"
  <2>1. Send(c, v, "Deleted")
    BY <1>2, <1>6 DEF JobEvent
  <2>. QED  BY <1>3, <1>4, <1>5, <1>6, <2>1, SendStep DEF JobEvent, States
<1>7. CASE log[v].type # "DELETED"
  <2>1. PICK state : state = JobToState(log[v].phase)
    OBVIOUS
  <2>2. /\ state \in States \ {"Deleted", "Open"}
        /\ state = "Succeeded" => jobs[k.ref].phase = "complete"
        /\ state = "Failed" => jobs[k.ref].phase = "failed"
    BY <1>5, <1>7, <2>1 DEF JobToState, Finished, States
  <2>3. Send(c, v, state)
    BY <1>2, <1>4, <1>5, <1>7, <2>1 DEF JobEvent, JobMatchesBackendRef, JobMatchesIdentityLabels
  <2>. QED  BY <1>3, <1>4, <2>2, <2>3, SendStep DEF JobEvent
<1>. QED  BY <1>6, <1>7

\* A Pod event does not move the Job stream and reports nothing final.
LEMMA PodEventStep ==
  ASSUME ClientInv, NEW c \in Clients, PodEvent(c)
  PROVE  ClientInv'
<1>1. client[c].rv \in Nat /\ client[c].rv <= Len(log)
  BY Parts DEF RecordOk, RefOk, Client
<1>. QED  BY <1>1, SendStep DEF PodEvent, States

\* Reading the channel changes neither the reference nor what was reported.
LEMMA ReceiveStep ==
  ASSUME ClientInv, NEW c \in Clients, Receive(c)
  PROVE  ClientInv'
<1>1. RecordOk(client[c]) /\ client[c] \in Client
  BY Parts DEF RecordOk
<1>2. CASE Becomes(c, [client[c] EXCEPT !.buf = 0, !.pc = "idle", !.rv = 0])
  <2>1. PICK r : r = [client[c] EXCEPT !.buf = 0, !.pc = "idle", !.rv = 0]
    OBVIOUS
  <2>a. 0 \in 0 .. Cap
    BY ClientAssumption
  <2>2. /\ r \in Client
        /\ r.pc = "idle" /\ r.ref = client[c].ref /\ r.rv = 0 /\ r.said = client[c].said
    BY <1>1, <2>1, <2>a DEF Client, PCs
  <2>3. RefOk(r)
    BY <1>1, <2>2 DEF RecordOk, RefOk
  <2>4. StreamOk(r) /\ SaidOk(r)
    BY <1>1, <2>2 DEF RecordOk, StreamOk, SaidOk
  <2>5. RecordOk(r)
    BY <2>2, <2>3, <2>4 DEF RecordOk
  <2>. QED  BY <1>2, <2>1, <2>5, ClientStep DEF Receive
<1>3. CASE Becomes(c, [client[c] EXCEPT !.buf = @ - 1])
  <2>1. PICK r : r = [client[c] EXCEPT !.buf = @ - 1]
    OBVIOUS
  <2>2. client[c].buf - 1 \in 0 .. Cap
    BY <1>1, ClientAssumption DEF Receive, Client
  <2>3. /\ r \in Client
        /\ r.pc = client[c].pc /\ r.ref = client[c].ref /\ r.rv = client[c].rv
        /\ r.said = client[c].said
    BY <1>1, <2>1, <2>2 DEF Client
  <2>4. RefOk(r)
    BY <1>1, <2>3 DEF RecordOk, RefOk
  <2>5. StreamOk(r) /\ SaidOk(r)
    BY <1>1, <2>3 DEF RecordOk, StreamOk, SaidOk
  <2>6. RecordOk(r)
    BY <2>3, <2>4, <2>5 DEF RecordOk
  <2>. QED  BY <1>3, <2>1, <2>6, ClientStep DEF Receive
<1>. QED  BY <1>2, <1>3 DEF Receive

\* A broken stream ends the watch without a report.
LEMMA StreamBreaksStep ==
  ASSUME ClientInv, NEW c \in Clients, StreamBreaks(c)
  PROVE  ClientInv'
<1>1. CASE Return(c)
  BY <1>1, ReturnStep DEF StreamBreaks
<1>2. CASE Goto(c, "closed")
  <2>1. RecordOk([client[c] EXCEPT !.pc = "closed"])
    BY Parts, GotoOk DEF StreamBreaks, RecordOk, RefOk
  <2>. QED  BY <1>2, <2>1, ClientStep DEF Goto, StreamBreaks
<1>. QED  BY <1>1, <1>2 DEF StreamBreaks

-----------------------------------------------------------------------------
(* The server's steps and the theorems                                     *)

\* A step of the server alone.
LEMMA ServerStep ==
  ASSUME ClientInv, UNCHANGED client,
         ServerOk' /\ \A k \in Client : RecordOk(k) => RecordOk(k)'
  PROVE  ClientInv'
<1>1. ASSUME NEW d \in Clients
      PROVE  RecordOk(client[d])'
  <2>1. PICK k : k = client[d]
    OBVIOUS
  <2>2. RecordOk(k) /\ k \in Client
    BY <2>1, Parts DEF RecordOk
  <2>3. RecordOk(k)'
    BY <2>2
  <2>. QED  BY <2>1, <2>3 DEF RecordOk, RefOk, StreamOk, SaidOk
<1>2. DOMAIN client' = Clients /\ client' = [d \in Clients |-> client'[d]]
  BY Parts
<1>3. TypeOK'
  BY <1>1, <1>2 DEF TypeOK, ServerOk, RecordOk, RefOk
<1>4. (RefIsOwn /\ CallInv)'
  BY <1>1 DEF RefIsOwn, CallInv, RecordOk, RefOk
<1>5. (StreamInv /\ ReportIsTrue)'
  BY <1>1 DEF StreamInv, ReportIsTrue, RecordOk, StreamOk, SaidOk
<1>. QED  BY <1>3, <1>4, <1>5 DEF ClientInv, ServerOk

\* Nothing is created, held or reported at first.
LEMMA ClientInit == Init => ClientInv
<1>. SUFFICES ASSUME Init PROVE ClientInv
  OBVIOUS
<1>. USE ClientAssumption
<1>1. TypeOK
  BY DEF Init, TypeOK, Client, PCs, States, NoUid
<1>2. ServerInv /\ RefIsOwn /\ CallInv
  BY DEF Init, ServerInv, RefIsOwn, CallInv, Exists, NoUid
<1>3. StreamInv /\ ReportIsTrue
  BY DEF Init, StreamInv, ReportIsTrue
<1>. QED  BY <1>1, <1>2, <1>3 DEF ClientInv

\* Every step keeps the invariant.
LEMMA ClientNext == ClientInv /\ [Next]_vars => ClientInv'
<1>. SUFFICES ASSUME ClientInv, [Next]_vars PROVE ClientInv'
  OBVIOUS
<1>1. ServerOk
  BY Parts
<1>2. ASSUME NEW c \in Clients,
             Call(c) \/ RequestStep(c) \/ WatchStep(c) \/ PodEvent(c) \/ Receive(c)
               \/ StreamBreaks(c) \/ RequestFails(c)
      PROVE  ClientInv'
  BY <1>2, CallStep, LookupStep, CreateRequestStep, DeleteGetStep, DeleteRequestStep,
     SnapshotStep, WatchGetStep, WatchOpenStep, JobEventStep, PodEventStep, ReceiveStep,
     StreamBreaksStep, RequestFailsStep DEF RequestStep, WatchStep
<1>3. ASSUME NEW p \in Finished, JobFinishes(p)
      PROVE  ClientInv'
  BY <1>1, <1>3, JobFinishesKeeps, ServerStep DEF JobFinishes
<1>4. CASE JobRemoved
  BY <1>1, <1>4, RemoveJobKeeps, ServerStep DEF JobRemoved
<1>5. CASE OtherCreates
  BY <1>1, <1>5, NewJobKeeps, ServerStep DEF OtherCreates
<1>6. CASE UNCHANGED vars
  BY <1>1, <1>6, UnchangedKeeps, ServerStep DEF vars, server
<1>. QED  BY <1>2, <1>3, <1>4, <1>5, <1>6 DEF Next

\* The invariant holds in every reachable state.
LEMMA ClientInvariance == Spec => []ClientInv
BY ClientInit, ClientNext, PTL DEF Spec

\* Whatever takes the name between two requests of Create or ResolveByIdentity,
\* the reference handed out names a Job of the attempt.
THEOREM ReferencesAreOwn == Spec => []RefIsOwn
<1>1. ClientInv => RefIsOwn
  BY DEF ClientInv
<1>. QED  BY <1>1, ClientInvariance, PTL

\* A state that Watch or Snapshot reported is the state of the referenced Job,
\* and a Job that had finished is not taken for a deleted one.
THEOREM ReportsAreTrue == Spec => []ReportIsTrue
<1>1. ClientInv => ReportIsTrue
  BY DEF ClientInv
<1>. QED  BY <1>1, ClientInvariance, PTL


\* A deletion that was under way when its Job was replaced leaves the new Job alone:
\* the request carries the UID and the API server compares it.
THEOREM DeletionsSpareOthers == Spec => DeleteSparesOthers
<1>1. ASSUME TypeOK, [Next]_vars,
             NEW c \in Clients, At(c, "delete"), client'[c] # client[c], cur' # cur
      PROVE  client[c].ref = cur
  <2>1. \A d \in Clients : \A k : Becomes(d, k) => d = c
    BY <1>1 DEF Becomes, TypeOK
  <2>2. ~UNCHANGED server /\ ~UNCHANGED client
    BY <1>1 DEF server
  <2>3. PICK d \in Clients : CreateRequest(d) \/ DeleteRequest(d) \/ RequestFails(d)
    <3>1. ~UNCHANGED vars
      BY <2>2 DEF vars
    <3>2. ~JobRemoved /\ ~OtherCreates /\ \A p \in Finished : ~JobFinishes(p)
      BY <2>2 DEF JobRemoved, OtherCreates, JobFinishes
    <3>3. PICK d \in Clients :
            Call(d) \/ RequestStep(d) \/ WatchStep(d) \/ PodEvent(d) \/ Receive(d)
              \/ StreamBreaks(d) \/ RequestFails(d)
      BY <1>1, <3>1, <3>2 DEF Next
    <3>. QED  BY <2>2, <3>3 DEF Call, RequestStep, WatchStep, CreateGet, ResolveByIdentity,
                DeleteGet, Snapshot, WatchGet, WatchOpen, JobEvent, PodEvent, Receive,
                StreamBreaks
  <2>4. d = c
    BY <2>1, <2>2, <2>3 DEF CreateRequest, DeleteRequest, RequestFails, Return, ReturnRef, Goto
  <2>. QED  BY <1>1, <2>2, <2>3, <2>4
            DEF At, CreateRequest, DeleteRequest, RequestFails, DeletePreconditions
<1>2. TypeOK /\ [Next]_vars
        => [\A c \in Clients : At(c, "delete") /\ client'[c] # client[c] /\ cur' # cur
                                 => client[c].ref = cur]_vars
  BY <1>1
<1>3. ClientInv => TypeOK
  BY DEF ClientInv
<1>. QED  BY <1>2, <1>3, ClientInvariance, PTL DEF Spec, DeleteSparesOthers

=============================================================================
