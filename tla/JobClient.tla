------------------------------ MODULE JobClient ------------------------------
(***************************************************************************)
(* K8sJobClient (pkg/spawner/k8s_jobclient.go) and ResolveByIdentity       *)
(* (pkg/backend/attempt_resolver.go) against the API server, for one Job   *)
(* name.                                                                   *)
(*                                                                         *)
(* Every operation is several requests, and between two of them the Job    *)
(* can finish, be removed by its TTL or by somebody else, and be created   *)
(* again, for the same attempt or for another one whose name is the same.  *)
(* Several clients act for the attempt at once: a process that was         *)
(* replaced may still have requests on their way.                          *)
(*                                                                         *)
(* The API server is external.  It keeps at most one Job under the name,   *)
(* gives each Job a fresh UID, and numbers its events: a watch opened at   *)
(* resource version v delivers the events after v, in order.               *)
(***************************************************************************)
EXTENDS Naturals, Sequences

CONSTANTS
  Clients,     \* goroutines using the client, all for the same attempt
  MaxUids,     \* bound: Jobs created under the name
  Cap,         \* capacity of the event channel
  Flaky        \* whether requests may fail and streams break

ASSUME ClientAssumption ==
  /\ MaxUids \in Nat \ {0} /\ Cap \in Nat \ {0}
  /\ Flaky \in BOOLEAN

Uids == 1 .. MaxUids
NoUid == 0                     \* no Job, no BackendRef
Phases == {"running", "complete", "failed"}
Finished == {"complete", "failed"}

VARIABLES
  cur,       \* UID of the Job under the name, or NoUid
  jobs,      \* what became of each Job created so far
  log,       \* the event at each resource version
  client     \* what each client does and holds

vars == <<cur, jobs, log, client>>
server == <<cur, jobs, log>>

\* own: the AttemptMarker is the one of the clients' attempt.
Job == [own : BOOLEAN, phase : Phases, gone : BOOLEAN]
Event == [type : {"ADDED", "MODIFIED", "DELETED"}, uid : Uids, phase : Phases]

\* JobEvent.State.  "Open" stands for Submitted, Pending and Running, "Deleted"
\* for Failed with ReasonSystemCancel.
States == {"Open", "Succeeded", "Failed", "Deleted"}
TerminalStates == States \ {"Open"}

\* pc: the next request of the operation.  ref: UID of the BackendRef held (every
\* BackendRef of this program has one).  rv: how far the stream was read.  buf:
\* the JobEvents in evCh.  said: the last state reported for ref.
PCs == {"idle", "create", "createGet", "resolve", "deleteGet", "delete",
        "snapshot", "watchGet", "watchOpen", "stream", "closed"}
Client ==
  [pc : PCs, ref : Uids \cup {NoUid}, rv : Nat, buf : 0 .. Cap, said : States]

\* A BackendRef names a Job that was created, and evCh holds what fits into it.
TypeOK ==
  /\ cur \in Uids \cup {NoUid}
  /\ jobs \in Seq(Job) /\ Len(jobs) <= MaxUids
  /\ log \in Seq(Event)
  /\ client \in [Clients -> Client]
  /\ \A c \in Clients : client[c].ref <= Len(jobs) /\ client[c].rv <= Len(log)

Init ==
  /\ cur = NoUid /\ jobs = <<>> /\ log = <<>>
  /\ client = [c \in Clients |->
                 [pc |-> "idle", ref |-> NoUid, rv |-> 0, buf |-> 0, said |-> "Open"]]

At(c, pc) == client[c].pc = pc
Becomes(c, k) == client' = [client EXCEPT ![c] = k]
Goto(c, pc) == Becomes(c, [client[c] EXCEPT !.pc = pc])
Exists == cur # NoUid

\* The operation returns, with or without an error.
Return(c) == Becomes(c, [client[c] EXCEPT !.pc = "idle", !.rv = 0])
\* It returns a BackendRef, or the state of the Job.
ReturnRef(c, u) == Becomes(c, [client[c] EXCEPT !.pc = "idle", !.ref = u])
ReturnState(c, state) == Becomes(c, [client[c] EXCEPT !.pc = "idle", !.said = state])

-----------------------------------------------------------------------------
(* The API server                                                          *)

NewJob(own) ==
  LET u == Len(jobs) + 1
  IN  /\ ~Exists /\ u <= MaxUids
      /\ cur' = u
      /\ jobs' = Append(jobs, [own |-> own, phase |-> "running", gone |-> FALSE])
      /\ log' = Append(log, [type |-> "ADDED", uid |-> u, phase |-> "running"])

RemoveJob ==
  /\ Exists
  /\ cur' = NoUid
  /\ jobs' = [jobs EXCEPT ![cur].gone = TRUE]
  /\ log' = Append(log, [type |-> "DELETED", uid |-> cur, phase |-> jobs[cur].phase])

JobFinishes(p) ==
  /\ Exists /\ jobs[cur].phase = "running"
  /\ jobs' = [jobs EXCEPT ![cur].phase = p]
  /\ log' = Append(log, [type |-> "MODIFIED", uid |-> cur, phase |-> p])
  /\ UNCHANGED <<cur, client>>

\* The TTL controller, a user, or another process.
JobRemoved == RemoveJob /\ UNCHANGED client

\* A Job of another process or of another attempt takes the name.
OtherCreates ==
  /\ \E own \in BOOLEAN : NewJob(own)
  /\ UNCHANGED client

-----------------------------------------------------------------------------
(* Create, ResolveByIdentity, Delete                                       *)

\* An operation is called: with nothing held, one that yields a reference.
Call(c) ==
  /\ At(c, "idle")
  /\ \/ \E pc \in {"create", "resolve"} :
          Becomes(c, [client[c] EXCEPT !.pc = pc, !.ref = NoUid, !.said = "Open"])
     \/ /\ client[c].ref # NoUid
        /\ \E pc \in {"deleteGet", "snapshot", "watchGet"} :
             Becomes(c, [client[c] EXCEPT !.pc = pc, !.said = "Open"])
  /\ UNCHANGED server

CreateRequest(c) ==
  /\ At(c, "create")
  /\ \/ NewJob(TRUE) /\ ReturnRef(c, cur')
     \/ Exists /\ Goto(c, "createGet") /\ UNCHANGED server

AnyMarkerMatches(u) == TRUE                  \* mutant: any existing Job will do
ExistingAttemptMarkerMatches(u) == jobs[u].own

\* After AlreadyExists: the Job may be gone or another one by now.
CreateGet(c) ==
  /\ At(c, "createGet")
  /\ IF Exists /\ ExistingAttemptMarkerMatches(cur) THEN ReturnRef(c, cur) ELSE Return(c)
  /\ UNCHANGED server

\* Found; otherwise absent now, or a conflict.
ResolveByIdentity(c) ==
  /\ At(c, "resolve")
  /\ IF Exists /\ jobs[cur].own THEN ReturnRef(c, cur) ELSE Return(c)
  /\ UNCHANGED server

DeleteGet(c) ==
  /\ At(c, "deleteGet")
  /\ IF Exists /\ cur = client[c].ref THEN Goto(c, "delete") ELSE Return(c)
  /\ UNCHANGED server

NoPreconditions(ref) == TRUE                  \* mutant: deleted by name
\* What the API server checks of the Job it is to delete.
DeletePreconditions(ref) == cur = ref

DeleteRequest(c) ==
  /\ At(c, "delete")
  /\ IF Exists /\ DeletePreconditions(client[c].ref) THEN RemoveJob ELSE UNCHANGED server
  /\ Return(c)

-----------------------------------------------------------------------------
(* Snapshot and Watch                                                      *)

JobToState(phase) ==
  IF phase = "complete" THEN "Succeeded" ELSE IF phase = "failed" THEN "Failed"
  ELSE "Open"

AnyJobMatches(u, ref) == TRUE                 \* mutant: the name is enough
JobMatchesBackendRef(u, ref) == u = ref
\* The labels of run, node and attempt agree with those of the Job of ref.
JobMatchesIdentityLabels(u, ref) == jobs[u].own = jobs[ref].own

Snapshot(c) ==
  /\ At(c, "snapshot")
  /\ IF Exists /\ JobMatchesBackendRef(cur, client[c].ref)
     THEN ReturnState(c, JobToState(jobs[cur].phase)) ELSE Return(c)
  /\ UNCHANGED server

\* The Get that seeds the watch: a Job that is not there, or not this one, closes
\* the channels; one that has finished is reported, once.
WatchGet(c) ==
  /\ At(c, "watchGet")
  /\ IF ~Exists \/ ~JobMatchesBackendRef(cur, client[c].ref) THEN Return(c)
     ELSE IF jobs[cur].phase \in Finished
     THEN Becomes(c, [client[c] EXCEPT !.pc = "closed", !.buf = 1,
                                       !.said = JobToState(jobs[cur].phase)])
     ELSE Becomes(c, [client[c] EXCEPT !.pc = "watchOpen", !.rv = Len(log)])
  /\ UNCHANGED server

WatchFromNow(c) ==                     \* mutant: no ResourceVersion in the request
  /\ At(c, "watchOpen")
  /\ Becomes(c, [client[c] EXCEPT !.pc = "stream", !.rv = Len(log)])
  /\ UNCHANGED server
WatchOpen(c) ==
  /\ At(c, "watchOpen")
  /\ Goto(c, "stream")
  /\ UNCHANGED server

TrySendEvent(c) == client[c].buf < Cap

\* A terminal state closes the channels.
Send(c, rv, state) ==
  /\ TrySendEvent(c)
  /\ Becomes(c, [client[c] EXCEPT !.rv = rv, !.buf = @ + 1, !.said = state,
                    !.pc = IF state \in TerminalStates THEN "closed" ELSE "stream"])

\* The next event of the Job stream.  A deletion is reported before the Job is
\* compared with the reference; the identity labels are those of the Job that the
\* Get returned.
JobEvent(c) ==
  LET v == client[c].rv + 1
      e == log[v]
  IN  /\ At(c, "stream") /\ v <= Len(log)
      /\ IF e.type = "DELETED" THEN Send(c, v, "Deleted")
         ELSE IF /\ JobMatchesBackendRef(e.uid, client[c].ref)
                 /\ JobMatchesIdentityLabels(e.uid, client[c].ref)
         THEN Send(c, v, JobToState(e.phase))
         ELSE Becomes(c, [client[c] EXCEPT !.rv = v])
      /\ UNCHANGED server

\* A Pod with the labels of the attempt is Pending or Running.  The Pod may belong
\* to another Job of the attempt: Pods are not compared with the reference.
PodEvent(c) ==
  /\ At(c, "stream")
  /\ Send(c, client[c].rv, "Open")
  /\ UNCHANGED server

\* The runtime (external) reads the channel, also after it was closed.
Receive(c) ==
  /\ client[c].buf > 0
  /\ IF At(c, "closed") /\ client[c].buf = 1
     THEN Becomes(c, [client[c] EXCEPT !.buf = 0, !.pc = "idle", !.rv = 0])
     ELSE Becomes(c, [client[c] EXCEPT !.buf = @ - 1])
  /\ UNCHANGED server

\* A stream that closes, an error event (410 Gone), or the end of the context:
\* the channels close, with or without a JobWatchError.
StreamBreaks(c) ==
  /\ Flaky
  /\ client[c].pc \in {"watchGet", "watchOpen", "stream"}
  /\ IF client[c].buf = 0 THEN Return(c) ELSE Goto(c, "closed")
  /\ UNCHANGED server

\* A request fails; a Create or Delete may have had its effect.
RequestFails(c) ==
  /\ Flaky
  /\ \/ /\ client[c].pc \in {"create", "createGet", "resolve", "deleteGet",
                              "delete", "snapshot"}
        /\ UNCHANGED server
     \/ At(c, "create") /\ NewJob(TRUE)
     \/ At(c, "delete") /\ DeletePreconditions(client[c].ref) /\ RemoveJob
  /\ Return(c)

-----------------------------------------------------------------------------
RequestStep(c) ==
  \/ CreateRequest(c) \/ CreateGet(c) \/ ResolveByIdentity(c) \/ DeleteGet(c)
  \/ DeleteRequest(c) \/ Snapshot(c)
WatchStep(c) ==
  WatchGet(c) \/ WatchOpen(c) \/ JobEvent(c)

Next ==
  \/ \E c \in Clients :
       Call(c) \/ RequestStep(c) \/ WatchStep(c) \/ PodEvent(c) \/ Receive(c)
         \/ StreamBreaks(c) \/ RequestFails(c)
  \/ \E p \in Finished : JobFinishes(p)
  \/ JobRemoved \/ OtherCreates

Spec == Init /\ [][Next]_vars

\* The goroutines run and the runtime keeps reading.  A select between a Job and a
\* Pod event picks either at random, so neither starves the other: strong fairness.
FairSpec ==
  /\ Spec
  /\ \A c \in Clients : WF_vars(RequestStep(c)) /\ SF_vars(WatchStep(c))
                          /\ WF_vars(Receive(c))

-----------------------------------------------------------------------------
(* Properties                                                              *)

\* Create and ResolveByIdentity never hand out another attempt's Job, whichever
\* Job took the name between two requests.
RefIsOwn == \A c \in Clients : client[c].ref # NoUid => jobs[client[c].ref].own

\* Delete removes the Job of its reference or none: not one created under the
\* same name since.
DeleteSparesOthers ==
  [][\A c \in Clients : At(c, "delete") /\ client'[c] # client[c] /\ cur' # cur
                           => client[c].ref = cur]_vars

\* What a watch or a snapshot says of an attempt is true of the Job that its
\* reference names, whichever Job has the name now; and a Job that finished is
\* never reported as deleted, although its TTL may remove it at once.
ReportIsTrue ==
  \A c \in Clients :
    LET j == jobs[client[c].ref]
    IN  /\ client[c].said = "Succeeded" => j.phase = "complete"
        /\ client[c].said = "Failed" => j.phase = "failed"
        /\ client[c].said = "Deleted" => j.gone /\ j.phase = "running"

\* A watch ends once its Job finished or was removed, also when that happened
\* between the Get and the opening of the stream.
Watching(c) == client[c].pc \in {"watchOpen", "stream", "closed"}
WatchEnds ==
  \A c \in Clients :
    (Watching(c) /\ (jobs[client[c].ref].phase \in Finished \/ jobs[client[c].ref].gone))
      ~> At(c, "idle")

-----------------------------------------------------------------------------
(* The inductive invariant behind JobClientProofs                          *)

\* The Job under the name is there.
ServerInv ==
  /\ cur <= Len(jobs)
  /\ Exists => ~jobs[cur].gone

\* An operation that needs a reference has one, and one that yields a reference
\* has none yet.
CallInv ==
  \A c \in Clients :
    /\ client[c].pc \in {"deleteGet", "delete", "snapshot", "watchGet", "watchOpen",
                         "stream", "closed"} => client[c].ref # NoUid
    /\ client[c].pc \in {"create", "createGet", "resolve"} => client[c].ref = NoUid
    /\ client[c].ref = NoUid => client[c].said = "Open"

\* A watch that has read everything watches a Job that is there and running; one
\* that has not finds the end of its own Job next, and no event of another.
StreamInv ==
  \A c \in Clients :
    client[c].pc \in {"watchOpen", "stream"} =>
      LET r == client[c].ref
          v == client[c].rv
      IN  \/ v = Len(log) /\ cur = r /\ jobs[r].phase = "running"
          \/ /\ v < Len(log)
             /\ log[v + 1].uid = r
             /\ \/ /\ log[v + 1].type = "MODIFIED"
                   /\ log[v + 1].phase = jobs[r].phase /\ jobs[r].phase \in Finished
                \/ /\ log[v + 1].type = "DELETED"
                   /\ jobs[r].gone /\ jobs[r].phase = "running"

ClientInv ==
  TypeOK /\ ServerInv /\ RefIsOwn /\ CallInv /\ StreamInv /\ ReportIsTrue
=============================================================================
