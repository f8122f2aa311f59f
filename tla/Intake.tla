--------------------------------- MODULE Intake ---------------------------------
(***************************************************************************)
(* What a job goes through before it is a row, and the requests that a     *)
(* broker keeps open: POST /jobs to a session or a label with a client_ref *)
(* (JobService.submit and the store's findByClientRef and insert), POST    *)
(* /sessions/spawn (broker/spawn.ts) and the event streams.                *)
(*                                                                         *)
(* One client_ref is modelled: posts with different ones, or none, do not  *)
(* meet.  The rows outlive the process.                                    *)
(***************************************************************************)
EXTENDS Daemon, Registry

CONSTANTS
    Req,            \* requests that may be under way at once
    Kinds,          \* the requests of this instance
    MaxRows         \* bound: rows with the client_ref

ASSUME KindsAssumption == Kinds \subseteq {"post", "spawn", "stream"}
ASSUME RowsAssumption == MaxRows \in Nat

VARIABLES
    handles,        \* handles[p]: the registry of process p
    req,            \* req[r]: the request r is making
    rows,           \* rows of the table with the client_ref, oldest first
    answers         \* rows some client was told of

intakeVars == <<req, rows, answers>>

NoReq == [pc |-> "idle"]

ReqState ==
    {NoReq}
      \cup [pc : {"insert"}, at : Proc, session : Session]  \* findByClientRef: null
      \cup [pc : {"reply"}, at : Proc, job : 1..MaxRows]    \* found, or inserted
      \cup [pc : {"spawn"}, at : Proc, label : Label]       \* polling the registry
      \cup [pc : {"stream"}, at : Proc]

\* old: created before client_ref_window_sec.
JobRow == [session : Session, old : BOOLEAN]

IntakeTypeOK == /\ handles \in [Proc -> Seq(Handle)]
                /\ \A p \in Proc : IsRegistry(handles[p])
                /\ req \in [Req -> ReqState]
                /\ rows \in Seq(JobRow)
                /\ answers \subseteq DOMAIN rows

IntakeInit == /\ handles = [p \in Proc |-> <<>>]
              /\ req = [r \in Req |-> NoReq]
              /\ rows = <<>>
              /\ answers = {}

\* Requests p has not answered, and the streams among them.
Open(p)    == {r \in Req : req[r] # NoReq /\ req[r].at = p}
Streams(p) == {r \in Open(p) : req[r].pc = "stream"}

\* r may be made of p.
Idle(r, p) == req[r] = NoReq /\ stage[p] = "up"

Asks(r, request) == req' = [req EXCEPT ![r] = request]

-----------------------------------------------------------------------------
(* POST /jobs.                                                             *)

\* findByClientRef: the newest row of s within the window.
Within(s) == {j \in DOMAIN rows : rows[j].session = s /\ ~rows[j].old}

FindByClientRef(s) == {j \in Within(s) : \A k \in Within(s) : k <= j}

PostTo(r, p, s) ==
    /\ \/ \E j \in FindByClientRef(s) : Asks(r, [pc |-> "reply", at |-> p, job |-> j])
       \/ /\ FindByClientRef(s) = {}
          /\ Asks(r, [pc |-> "insert", at |-> p, session |-> s])
    /\ UNCHANGED <<rows, answers>>

\* A session id need not be one the registry has.
Post(r, p) ==
    /\ "post" \in Kinds /\ Idle(r, p)
    /\ \/ \E s \in Session : PostTo(r, p, s)
       \/ \E label \in Label : \E s \in FindByLabel(handles[p], label) : PostTo(r, p, s)

\* Bug: the table has no unique index.
TakenNever(s) == FALSE

\* UNIQUE (session_id, client_ref), whatever the row's age.
Taken(s) == \E j \in DOMAIN rows : rows[j].session = s

\* insert(): the row, or an error that is answered with a 500.
Insert(r) ==
    /\ req[r].pc = "insert"
    /\ LET s == req[r].session
       IN  \/ /\ Taken(s)
              /\ Asks(r, NoReq)
              /\ UNCHANGED rows
           \/ /\ ~Taken(s) /\ Len(rows) < MaxRows
              /\ rows' = Append(rows, [session |-> s, old |-> FALSE])
              /\ Asks(r, [pc |-> "reply", at |-> req[r].at, job |-> Len(rows) + 1])
    /\ UNCHANGED answers

\* The drain is over and the client hears of its job.
Reply(r) ==
    /\ req[r].pc = "reply"
    /\ answers' = answers \cup {req[r].job}
    /\ Asks(r, NoReq)
    /\ UNCHANGED rows

WindowPasses(j) ==
    /\ j \in DOMAIN rows /\ ~rows[j].old
    /\ rows' = [rows EXCEPT ![j].old = TRUE]
    /\ UNCHANGED <<req, answers>>

-----------------------------------------------------------------------------
(* POST /sessions/spawn and the event streams.                             *)

\* The child, if it ever gets that far, is a shim with this label.
Spawn(r, p) ==
    /\ "spawn" \in Kinds /\ Idle(r, p)
    /\ \E label \in Label : Asks(r, [pc |-> "spawn", at |-> p, label |-> label])
    /\ UNCHANGED <<rows, answers>>

\* Bug: the poll has no deadline.
SpawnEndsOnMatch(r) ==
    /\ req[r].pc = "spawn"
    /\ FindByLabel(handles[req[r].at], req[r].label) # {}
    /\ Asks(r, NoReq)
    /\ UNCHANGED <<rows, answers>>

\* A session with the label, the child's or another, or the deadline.
SpawnEnds(r) ==
    /\ req[r].pc = "spawn"
    /\ Asks(r, NoReq)
    /\ UNCHANGED <<rows, answers>>

OpenEvents(r, p) == /\ "stream" \in Kinds /\ Idle(r, p)
                    /\ Asks(r, [pc |-> "stream", at |-> p])
                    /\ UNCHANGED <<rows, answers>>

\* Only its client ends a stream.
ClientLeaves(r) == /\ req[r].pc = "stream"
                   /\ Asks(r, NoReq)
                   /\ UNCHANGED <<rows, answers>>

Serve(r) == Insert(r) \/ Reply(r) \/ SpawnEnds(r)

\* p is gone and with it what it had not answered.
RequestsLost(p) ==
    /\ req' = [r \in Req |-> IF r \in Open(p) THEN NoReq ELSE req[r]]
    /\ UNCHANGED <<rows, answers>>
=============================================================================
